----------------------------- MODULE GroupCommit -----------------------------
(***************************************************************************)
(* Group commit of atomic operations: begin_op, sync, end_op and the       *)
(* checkpoint of src/fs/cache.c, without the contents of blocks.           *)
(*                                                                         *)
(* A thread has at most one atomic operation.  end_op waits until the      *)
(* operation is checkpointed; the last operation of a group checkpoints    *)
(* for all of them and keeps begin_op out meanwhile by setting log_size    *)
(* to 0.                                                                   *)
(*                                                                         *)
(* Every section the code runs under the cache lock is one step.  sleep    *)
(* gives up that lock and blocks the thread in one step, because it takes  *)
(* the scheduler lock before it releases the cache lock; a wakeup that     *)
(* follows the release of the cache lock is a step of its own.             *)
(* The arrays of block numbers, which never hold a number twice, are sets. *)
(***************************************************************************)
EXTENDS Integers, FiniteSets

CONSTANTS
    Thread,             \* kernel threads that run file system operations
    Block,              \* block numbers
    OP_MAX_NUM_BLOCKS,  \* log entries reserved for one operation
    LOG_SIZE,           \* capacity of the log, as computed by init_bcache
    MaxTs               \* bound: timestamps given out, i.e. operations begun

ASSUME ConstantsAssumption ==
    /\ IsFiniteSet(Thread)
    /\ OP_MAX_NUM_BLOCKS \in Nat \ {0}
    /\ LOG_SIZE \in Nat \ {0}
    /\ MaxTs \in Nat

VARIABLES
    header,             \* blocks recorded in the in-memory log header
    log_size,           \* 0 while a checkpoint is in progress
    log_used,           \* log entries reserved or used
    op_count,           \* operations begun and not yet ended
    last_allocated_ts,  \* timestamp of the latest begin_op
    last_persisted_ts,  \* timestamp of the latest operation on disk
    pc,                 \* where each thread is
    ts,                 \* ctx->ts of each thread's operation
    ctx,                \* ctx->block_no of each thread's operation
    log_size_copy       \* the local variable of end_op

vars == <<header, log_size, log_used, op_count, last_allocated_ts,
          last_persisted_ts, pc, ts, ctx, log_size_copy>>

\* Where the thread of a checkpoint is while log_size is 0:
\*   "persist"  writing the blocks of the header to the log and to their places
\*   "stamp"    about to move last_persisted_ts
\*   "notify"   about to wake the threads that sleep in end_op
\*   "reopen"   about to restore log_size
CheckpointPC == {"persist", "stamp", "notify", "reopen"}

\*   "begin"        in begin_op, about to test the room left in the log
\*   "begin_sleep"  in begin_op, sleeping on &log_used
\*   "running"      between begin_op and end_op
\*   "end_test"     in end_op, about to test last_persisted_ts again
\*   "end_sleep"    in end_op, sleeping on &last_persisted_ts
\*   "announce"     the checkpoint is over; about to wake begin_op
ThreadPC == CheckpointPC \cup
    {"idle", "begin", "begin_sleep", "running", "end_test", "end_sleep", "announce"}

Running == {t \in Thread : pc[t] = "running"}
Checkpointing == {t \in Thread : pc[t] \in CheckpointPC}

Init ==
    /\ header = {}
    /\ log_size = LOG_SIZE
    /\ log_used = 0
    /\ op_count = 0
    /\ last_allocated_ts = 0
    /\ last_persisted_ts = 0
    /\ pc = [t \in Thread |-> "idle"]
    /\ ts = [t \in Thread |-> 0]
    /\ ctx = [t \in Thread |-> {}]
    /\ log_size_copy = [t \in Thread |-> 0]

-----------------------------------------------------------------------------
\* pc after t moves to label l and the threads sleeping at `from` are made
\* runnable again at `to`.
wakeup(t, l, from, to) ==
    [u \in Thread |-> IF u = t THEN l
                      ELSE IF pc[u] = from THEN to ELSE pc[u]]

\* Mutants: the threads that sleep are not woken.
wakeup_log_used_Lost(t, l) == [pc EXCEPT ![t] = l]
wakeup_last_persisted_ts_Lost(t, l) == [pc EXCEPT ![t] = l]

wakeup_log_used(t, l) == wakeup(t, l, "begin_sleep", "begin")
wakeup_last_persisted_ts(t, l) == wakeup(t, l, "end_sleep", "end_test")

\* A thread calls begin_op: ctx is reset before the cache lock is taken.
call_begin_op(t) ==
    /\ pc[t] = "idle"
    /\ pc' = [pc EXCEPT ![t] = "begin"]
    /\ ts' = [ts EXCEPT ![t] = 0]
    /\ ctx' = [ctx EXCEPT ![t] = {}]
    /\ UNCHANGED <<header, log_size, log_used, op_count, last_allocated_ts,
                   last_persisted_ts, log_size_copy>>

\* Mutant: the test forgets the size of the reservation.
LogFull_NoReservation == log_used > log_size

LogFull == log_used + OP_MAX_NUM_BLOCKS > log_size

begin_op_sleep(t) ==
    /\ pc[t] = "begin"
    /\ LogFull
    /\ pc' = [pc EXCEPT ![t] = "begin_sleep"]
    /\ UNCHANGED <<header, log_size, log_used, op_count, last_allocated_ts,
                   last_persisted_ts, ts, ctx, log_size_copy>>

begin_op(t) ==
    /\ pc[t] = "begin"
    /\ ~LogFull
    /\ last_allocated_ts < MaxTs
    /\ log_used' = log_used + OP_MAX_NUM_BLOCKS
    /\ last_allocated_ts' = last_allocated_ts + 1
    /\ ts' = [ts EXCEPT ![t] = last_allocated_ts']
    /\ op_count' = op_count + 1
    /\ pc' = [pc EXCEPT ![t] = "running"]
    /\ UNCHANGED <<header, log_size, last_persisted_ts, ctx, log_size_copy>>

\* The operation records block b.  The assertion of the code, that there is
\* an entry left for a new block, is the caller's obligation.
sync(t, b) ==
    /\ pc[t] = "running"
    /\ b \in ctx[t] \/ Cardinality(ctx[t]) < OP_MAX_NUM_BLOCKS
    /\ ctx' = [ctx EXCEPT ![t] = @ \cup {b}]
    /\ UNCHANGED <<header, log_size, log_used, op_count, last_allocated_ts,
                   last_persisted_ts, pc, ts, log_size_copy>>

\* Mutants: entries reserved for blocks the operation did not record are not
\* given back; commit overwrites the header.
unused_None(t) == 0
commit_Overwrite(t) ==
    /\ header' = ctx[t]
    /\ log_used' = log_used

\* commit: merge the operation's blocks into the header and return the
\* entries it reserved and does not need.
absorbed(t) == Cardinality(ctx[t] \cap header)
unused(t) == OP_MAX_NUM_BLOCKS - Cardinality(ctx[t])

commit(t) ==
    /\ header' = header \cup ctx[t]
    /\ log_used' = log_used - (unused(t) + absorbed(t))

\* Evaluated after op_count is decremented.
do_checkpoint == op_count' = 0

\* end_op up to the place where it either starts a checkpoint, sleeps, or
\* (which never happens) finds its operation already persisted.
end_op(t) ==
    /\ pc[t] = "running"
    /\ commit(t)
    /\ op_count' = op_count - 1
    /\ log_size_copy' = [log_size_copy EXCEPT ![t] = log_size]
    /\ IF do_checkpoint
       THEN /\ log_size' = 0
            /\ pc' = wakeup_log_used(t, "persist")
       ELSE /\ pc' = wakeup_log_used(t, IF ts[t] > last_persisted_ts
                                        THEN "end_sleep" ELSE "idle")
            /\ UNCHANGED log_size
    /\ UNCHANGED <<last_allocated_ts, last_persisted_ts, ts, ctx>>

\* The while loop of end_op after a wakeup.
end_op_test(t) ==
    /\ pc[t] = "end_test"
    /\ pc' = [pc EXCEPT ![t] = IF ts[t] > last_persisted_ts
                               THEN "end_sleep" ELSE "idle"]
    /\ UNCHANGED <<header, log_size, log_used, op_count, last_allocated_ts,
                   last_persisted_ts, ts, ctx, log_size_copy>>

\* checkpoint, steps 1 to 3, and replay: the header is read without the
\* cache lock while its blocks are written, and emptied at the end.
checkpoint_persist(t) ==
    /\ pc[t] = "persist"
    /\ header' = {}
    /\ pc' = [pc EXCEPT ![t] = "stamp"]
    /\ UNCHANGED <<log_size, log_used, op_count, last_allocated_ts,
                   last_persisted_ts, ts, ctx, log_size_copy>>

\* checkpoint, step 5.
checkpoint_stamp(t) ==
    /\ pc[t] = "stamp"
    /\ last_persisted_ts' = last_allocated_ts
    /\ pc' = [pc EXCEPT ![t] = "notify"]
    /\ UNCHANGED <<header, log_size, log_used, op_count, last_allocated_ts,
                   ts, ctx, log_size_copy>>

checkpoint_notify(t) ==
    /\ pc[t] = "notify"
    /\ pc' = wakeup_last_persisted_ts(t, "reopen")
    /\ UNCHANGED <<header, log_size, log_used, op_count, last_allocated_ts,
                   last_persisted_ts, ts, ctx, log_size_copy>>

\* The rest of end_op after checkpoint returned.
end_op_reopen(t) ==
    /\ pc[t] = "reopen"
    /\ log_size' = log_size_copy[t]
    /\ log_used' = 0
    /\ pc' = [pc EXCEPT ![t] = "announce"]
    /\ UNCHANGED <<header, op_count, last_allocated_ts, last_persisted_ts,
                   ts, ctx, log_size_copy>>

end_op_announce(t) ==
    /\ pc[t] = "announce"
    /\ pc' = wakeup_log_used(t, "idle")
    /\ UNCHANGED <<header, log_size, log_used, op_count, last_allocated_ts,
                   last_persisted_ts, ts, ctx, log_size_copy>>

\* The steps of a thread that is inside begin_op or end_op, or leaves them.
Step(t) ==
    \/ begin_op_sleep(t) \/ begin_op(t)
    \/ end_op(t) \/ end_op_test(t)
    \/ checkpoint_persist(t) \/ checkpoint_stamp(t)
    \/ checkpoint_notify(t) \/ end_op_reopen(t) \/ end_op_announce(t)

\* Every operation begun has ended and the bound on operations is reached.
Finished ==
    /\ last_allocated_ts = MaxTs
    /\ \A t \in Thread : pc[t] \in {"idle", "begin", "begin_sleep"}
    /\ UNCHANGED vars

Next ==
    \/ \E t \in Thread : call_begin_op(t) \/ Step(t)
    \/ \E t \in Thread, b \in Block : sync(t, b)
    \/ Finished

Spec == Init /\ [][Next]_vars

\* A thread inside begin_op or end_op is scheduled again and again, an
\* operation that began eventually ends (its caller does not block
\* elsewhere), and the device completes the writes of a checkpoint.
FairSpec == Spec /\ \A t \in Thread : WF_vars(Step(t))
-----------------------------------------------------------------------------
\* Types: counters never underflow (commit subtracts unsigned numbers), an
\* operation never records more blocks than it reserved.
TypeOK ==
    /\ header \in SUBSET Block /\ IsFiniteSet(header)
    /\ log_size \in Nat /\ log_used \in Nat /\ op_count \in Nat
    /\ last_allocated_ts \in Nat /\ last_persisted_ts \in Nat
    /\ pc \in [Thread -> ThreadPC]
    /\ ts \in [Thread -> Nat]
    /\ ctx \in [Thread -> SUBSET Block]
    /\ \A t \in Thread : /\ IsFiniteSet(ctx[t])
                        /\ Cardinality(ctx[t]) <= OP_MAX_NUM_BLOCKS
    /\ log_size_copy \in [Thread -> Nat]

\* Outside a checkpoint the counter log_used, which begin_op and commit
\* update by differences, is exactly the entries in the header plus a full
\* reservation for each running operation, and it fits the log.
LogAccounting ==
    Checkpointing = {} =>
        /\ log_used = Cardinality(header) + OP_MAX_NUM_BLOCKS * op_count
        /\ log_used <= log_size
        /\ log_size = LOG_SIZE

\* Whenever a running operation calls end_op, all its blocks find a place in
\* the header: the assertion j < log_size in commit never fails.
CommitFits ==
    \A t \in Running : Cardinality(header \cup ctx[t]) <= log_size

\* The comment in end_op: during a checkpoint every other operation waits in
\* end_op, nobody runs, and a single thread does the checkpoint.
CheckpointAlone ==
    \A t \in Checkpointing : Running = {} /\ Checkpointing = {t}

\* A block of an operation that ended and is not yet reported as persisted
\* stays in the header until the checkpoint has written it.
CommittedInLog ==
    \A t \in Thread :
        /\ pc[t] \in {"end_sleep", "end_test", "persist"}
        /\ ts[t] > last_persisted_ts
        /\ \A u \in Thread : pc[u] # "stamp"
        => ctx[t] \subseteq header

\* No wakeup is lost: a thread sleeping in begin_op although there is room,
\* or in end_op although its operation is persisted, is about to be woken.
\* A thread waiting in end_op for an operation that is not persisted has
\* someone to end the group: a running operation or a checkpoint.
SleeperHasWaker ==
    \A t \in Thread :
        /\ pc[t] = "begin_sleep" /\ ~LogFull =>
               \E u \in Thread : pc[u] = "announce"
        /\ pc[t] = "end_sleep" /\ ts[t] <= last_persisted_ts =>
               \E u \in Thread : pc[u] = "notify"
        /\ pc[t] \in {"end_sleep", "end_test"} /\ ts[t] > last_persisted_ts =>
               \E u \in Thread : pc[u] \in {"running", "persist", "stamp"}

\* Every operation that began returns from end_op: the threads of a group
\* never wait for each other in a circle.
EndOpReturns == \A t \in Thread : pc[t] = "running" ~> pc[t] = "idle"

\* begin_op returns unless other operations take the room again and again
\* (here: until the bound on operations).
BeginOpReturns ==
    \A t \in Thread :
        pc[t] = "begin" ~> (pc[t] = "running" \/ last_allocated_ts = MaxTs)
=============================================================================
