------------------------------ MODULE NamexOp --------------------------------
(***************************************************************************)
(* Path lookup inside an atomic operation.  namex of src/fs/inode.c is     *)
(* called between begin_op and end_op with the caller's OpContext; when a  *)
(* path component is not a directory (and, for nameiparent, when the path  *)
(* has no last element) it drops the inode in an operation of its own,     *)
(* calling begin_op and end_op on the same OpContext.                      *)
(***************************************************************************)
EXTENDS GroupCommit

VARIABLE nested  \* is the thread's latest operation the one namex began?

nvars == <<vars, nested>>

NInit == Init /\ nested = [t \in Thread |-> FALSE]

\* namex calls begin_op: the context of the running operation is reset.
namex_begin(t) ==
    /\ pc[t] = "running"
    /\ ~nested[t]
    /\ nested' = [nested EXCEPT ![t] = TRUE]
    /\ pc' = [pc EXCEPT ![t] = "begin"]
    /\ ts' = [ts EXCEPT ![t] = 0]
    /\ ctx' = [ctx EXCEPT ![t] = {}]
    /\ UNCHANGED <<header, log_size, log_used, op_count, last_allocated_ts,
                   last_persisted_ts, log_size_copy>>

\* namex's end_op returned: the thread is back in the caller's operation.
namex_return(t) ==
    /\ pc[t] = "idle"
    /\ nested[t]
    /\ nested' = [nested EXCEPT ![t] = FALSE]
    /\ pc' = [pc EXCEPT ![t] = "running"]
    /\ UNCHANGED <<header, log_size, log_used, op_count, last_allocated_ts,
                   last_persisted_ts, ts, ctx, log_size_copy>>

NStep(t) == (Step(t) /\ UNCHANGED nested) \/ namex_return(t)

NNext ==
    \/ \E t \in Thread :
          \/ ~nested[t] /\ call_begin_op(t) /\ UNCHANGED nested
          \/ namex_begin(t)
          \/ NStep(t)
    \/ \E t \in Thread, b \in Block : sync(t, b) /\ UNCHANGED nested

NSpec == NInit /\ [][NNext]_nvars /\ \A t \in Thread : WF_nvars(NStep(t))

\* The end_op that namex calls returns (cache.h: "it returns when all
\* associated blocks are persisted to disk").
NamexReturns ==
    \A t \in Thread : nested[t] /\ pc[t] = "running" ~> ~nested[t]
=============================================================================
