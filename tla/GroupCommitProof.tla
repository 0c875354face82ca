--------------------------- MODULE GroupCommitProof --------------------------
(***************************************************************************)
(* The invariants of GroupCommit hold for every set of threads, every log  *)
(* size and every number of blocks per operation.                          *)
(***************************************************************************)
EXTENDS GroupCommit, FiniteSetTheorems, TLAPS

\* op_count, kept by increments and decrements, counts the running threads.
OpCount == op_count = Cardinality(Running)

\* While a checkpoint is in progress the log is closed, its capacity is saved
\* in a local variable, and from "stamp" on the header is empty.
CheckpointState ==
    \A t \in Checkpointing :
        /\ log_size = 0
        /\ log_size_copy[t] = LOG_SIZE
        /\ pc[t] # "persist" => header = {}

\* Timestamps: none is ahead of last_allocated_ts, and a running operation is
\* ahead of last_persisted_ts.
Timestamps ==
    /\ last_persisted_ts <= last_allocated_ts
    /\ \A t \in Thread : ts[t] <= last_allocated_ts
    /\ \A t \in Running : ts[t] > last_persisted_ts

\* The inductive invariant.
IInv ==
    /\ TypeOK
    /\ OpCount
    /\ CheckpointAlone
    /\ CheckpointState
    /\ LogAccounting
    /\ Timestamps
    /\ CommittedInLog
    /\ SleeperHasWaker

-----------------------------------------------------------------------------
\* The finite-set facts the proofs below use, about sets of threads.

\* Every set of threads is finite.
LEMMA ThreadsFinite ==
    ASSUME NEW S \in SUBSET Thread
    PROVE  IsFiniteSet(S) /\ Cardinality(S) \in Nat
BY ConstantsAssumption, FS_Subset, FS_CardinalityType

\* A set with a member has a positive cardinality.
LEMMA MemberCounts ==
    ASSUME NEW S \in SUBSET Thread, NEW t \in S
    PROVE  Cardinality(S) > 0 /\ Cardinality(S \ {t}) = Cardinality(S) - 1
<1>1. Cardinality(S \ {t}) = Cardinality(S) - 1
  BY ThreadsFinite, FS_RemoveElement
<1>2. Cardinality(S \ {t}) \in Nat
  BY ThreadsFinite
<1> QED BY <1>1, <1>2, ThreadsFinite

-----------------------------------------------------------------------------
\* Type correctness.  log_used stays a natural number because it covers the
\* reservations of all running operations (LogAccounting).

\* What a commit needs to know: its operation's reservation is in log_used.
LEMMA CommitCovered ==
    ASSUME TypeOK, OpCount, CheckpointAlone, LogAccounting,
           NEW t \in Thread, pc[t] = "running"
    PROVE  /\ op_count \in Nat \ {0}
           /\ Checkpointing = {}
           /\ log_size = LOG_SIZE
           /\ log_used >= Cardinality(header) + OP_MAX_NUM_BLOCKS
           /\ absorbed(t) \in Nat /\ unused(t) \in Nat
           /\ absorbed(t) <= Cardinality(header)
           /\ IsFiniteSet(header \cup ctx[t])
           /\ Cardinality(header \cup ctx[t])
                = Cardinality(header) + Cardinality(ctx[t]) - absorbed(t)
<1>1. t \in Running /\ Running \in SUBSET Thread
  BY DEF Running
<1>2. op_count \in Nat \ {0}
  <2>1. Cardinality(Running) \in Nat
    BY <1>1, ThreadsFinite
  <2>2. Cardinality(Running) > 0
    BY <1>1, MemberCounts
  <2> QED BY <2>1, <2>2 DEF OpCount
<1>3. Checkpointing = {}
  BY <1>1 DEF CheckpointAlone
<1>4. log_used = Cardinality(header) + OP_MAX_NUM_BLOCKS * op_count /\ log_size = LOG_SIZE
  BY <1>3 DEF LogAccounting
<1>5. IsFiniteSet(header) /\ IsFiniteSet(ctx[t])
  BY DEF TypeOK
<1>6. Cardinality(header) \in Nat /\ Cardinality(ctx[t]) \in Nat
  BY <1>5, FS_CardinalityType
<1>7. OP_MAX_NUM_BLOCKS * op_count >= OP_MAX_NUM_BLOCKS
  BY <1>2, ConstantsAssumption
<1>8. /\ IsFiniteSet(ctx[t] \cap header)
      /\ Cardinality(ctx[t] \cap header) <= Cardinality(header)
  <2>1. ctx[t] \cap header \in SUBSET header
    OBVIOUS
  <2> QED BY <2>1, <1>5, FS_Subset
<1>9. absorbed(t) \in Nat
  BY <1>8, FS_CardinalityType DEF absorbed
<1>10. unused(t) \in Nat
  BY <1>6, ConstantsAssumption DEF unused, TypeOK
<1>11. /\ IsFiniteSet(header \cup ctx[t])
       /\ Cardinality(header \cup ctx[t])
            = Cardinality(header) + Cardinality(ctx[t]) - Cardinality(header \cap ctx[t])
  BY <1>5, FS_Union
<1>12. header \cap ctx[t] = ctx[t] \cap header
  OBVIOUS
<1>13. log_used \in Nat /\ OP_MAX_NUM_BLOCKS \in Nat /\ OP_MAX_NUM_BLOCKS * op_count \in Nat
  BY <1>2, ConstantsAssumption DEF TypeOK
<1>14. log_used >= Cardinality(header) + OP_MAX_NUM_BLOCKS
  BY <1>4, <1>6, <1>7, <1>13
<1> QED
  BY <1>2, <1>3, <1>4, <1>8, <1>9, <1>10, <1>11, <1>12, <1>14 DEF absorbed

\* The step of a thread preserves the types.
LEMMA TypeStep == IInv /\ [Next]_vars => TypeOK'
<1> SUFFICES ASSUME IInv, [Next]_vars PROVE TypeOK'
  OBVIOUS
<1> USE ConstantsAssumption
<1>0. TypeOK
  BY DEF IInv
<1>1. ASSUME NEW t \in Thread, call_begin_op(t) PROVE TypeOK'
  <2>1. IsFiniteSet({}) /\ Cardinality({}) = 0
    BY FS_EmptySet
  <2> QED BY <1>0, <1>1, <2>1 DEF TypeOK, ThreadPC, call_begin_op
<1>2. ASSUME NEW t \in Thread, begin_op_sleep(t) PROVE TypeOK'
  BY <1>0, <1>2 DEF TypeOK, ThreadPC, begin_op_sleep
<1>3. ASSUME NEW t \in Thread, begin_op(t) PROVE TypeOK'
  BY <1>0, <1>3 DEF TypeOK, ThreadPC, begin_op
<1>4. ASSUME NEW t \in Thread, NEW b \in Block, sync(t, b) PROVE TypeOK'
  <2>1. IsFiniteSet(ctx[t]) /\ Cardinality(ctx[t]) \in Nat
    BY <1>0, FS_CardinalityType DEF TypeOK
  <2>2. IsFiniteSet(ctx[t] \cup {b}) /\ Cardinality(ctx[t] \cup {b}) <= OP_MAX_NUM_BLOCKS
    <3>1. CASE b \in ctx[t]
      <4>1. ctx[t] \cup {b} = ctx[t]
        BY <3>1
      <4> QED BY <4>1, <1>0 DEF TypeOK
    <3>2. CASE b \notin ctx[t]
      <4>1. /\ IsFiniteSet(ctx[t] \cup {b})
            /\ Cardinality(ctx[t] \cup {b}) = Cardinality(ctx[t]) + 1
        BY <3>2, <2>1, FS_AddElement
      <4> QED BY <3>2, <1>4, <2>1, <4>1 DEF sync
    <3> QED BY <3>1, <3>2
  <2> QED BY <1>0, <1>4, <2>2 DEF TypeOK, sync
<1>5. ASSUME NEW t \in Thread, end_op(t) PROVE TypeOK'
  <2>1. pc[t] = "running"
    BY <1>5 DEF end_op
  <2>2. /\ op_count \in Nat \ {0}
        /\ log_used >= Cardinality(header) + OP_MAX_NUM_BLOCKS
        /\ absorbed(t) \in Nat /\ unused(t) \in Nat
        /\ absorbed(t) <= Cardinality(header)
        /\ IsFiniteSet(header \cup ctx[t])
    BY <2>1, CommitCovered DEF IInv
  <2>3. unused(t) <= OP_MAX_NUM_BLOCKS /\ Cardinality(header) \in Nat
    BY <1>0, FS_CardinalityType DEF unused, TypeOK
  <2>4. log_used' \in Nat
    BY <1>0, <1>5, <2>2, <2>3 DEF TypeOK, end_op, commit
  <2>5. header' \in SUBSET Block /\ IsFiniteSet(header')
    BY <1>0, <1>5, <2>2 DEF TypeOK, end_op, commit
  <2>6. pc' \in [Thread -> ThreadPC]
    BY <1>0, <1>5 DEF TypeOK, ThreadPC, CheckpointPC, end_op, do_checkpoint, wakeup_log_used, wakeup
  <2>7. /\ op_count' \in Nat /\ log_size' \in Nat
        /\ log_size_copy' \in [Thread -> Nat]
    BY <1>0, <1>5, <2>2 DEF TypeOK, end_op
  <2>8. UNCHANGED <<last_allocated_ts, last_persisted_ts, ts, ctx>>
    BY <1>5 DEF end_op
  <2> QED BY <1>0, <2>4, <2>5, <2>6, <2>7, <2>8 DEF TypeOK
<1>6. ASSUME NEW t \in Thread, end_op_test(t) PROVE TypeOK'
  BY <1>0, <1>6 DEF TypeOK, ThreadPC, end_op_test
<1>7. ASSUME NEW t \in Thread, checkpoint_persist(t) PROVE TypeOK'
  <2>1. IsFiniteSet({})
    BY FS_EmptySet
  <2> QED BY <1>0, <1>7, <2>1 DEF TypeOK, ThreadPC, CheckpointPC, checkpoint_persist
<1>8. ASSUME NEW t \in Thread, checkpoint_stamp(t) PROVE TypeOK'
  BY <1>0, <1>8 DEF TypeOK, ThreadPC, CheckpointPC, checkpoint_stamp
<1>9. ASSUME NEW t \in Thread, checkpoint_notify(t) PROVE TypeOK'
  BY <1>0, <1>9 DEF TypeOK, ThreadPC, CheckpointPC, checkpoint_notify,
     wakeup_last_persisted_ts, wakeup
<1>10. ASSUME NEW t \in Thread, end_op_reopen(t) PROVE TypeOK'
  BY <1>0, <1>10 DEF TypeOK, ThreadPC, end_op_reopen
<1>11. ASSUME NEW t \in Thread, end_op_announce(t) PROVE TypeOK'
  BY <1>0, <1>11 DEF TypeOK, ThreadPC, end_op_announce, wakeup_log_used, wakeup
<1>12. CASE UNCHANGED vars
  BY <1>0, <1>12 DEF TypeOK, vars
<1> QED
  BY <1>1, <1>2, <1>3, <1>4, <1>5, <1>6, <1>7, <1>8, <1>9, <1>10, <1>11, <1>12
     DEF Next, Step, Finished

-----------------------------------------------------------------------------
\* The steps of Next by name, so that each proof below can treat the ones
\* that matter to it and the rest together.
Quiet(t) ==
    \/ call_begin_op(t) \/ begin_op_sleep(t) \/ end_op_test(t)
    \/ checkpoint_persist(t) \/ checkpoint_stamp(t) \/ checkpoint_notify(t)
    \/ end_op_reopen(t) \/ end_op_announce(t)

\* Every step is one of five kinds.
LEMMA NextCases ==
    ASSUME [Next]_vars
    PROVE  \/ \E t \in Thread : Quiet(t)
           \/ \E t \in Thread : begin_op(t)
           \/ \E t \in Thread : end_op(t)
           \/ \E t \in Thread, b \in Block : sync(t, b)
           \/ UNCHANGED vars
BY DEF Next, Step, Finished, Quiet

\* Only begin_op and end_op change which operations are running.
LEMMA RunningStep ==
    ASSUME TypeOK, NEW t \in Thread
    PROVE  /\ begin_op(t) => t \notin Running /\ Running' = Running \cup {t}
           /\ end_op(t) => t \in Running /\ Running' = Running \ {t}
           /\ Quiet(t) => Running' = Running
<1>1. ASSUME begin_op(t) PROVE t \notin Running /\ Running' = Running \cup {t}
  BY <1>1 DEF TypeOK, begin_op, Running
<1>2. ASSUME end_op(t) PROVE t \in Running /\ Running' = Running \ {t}
  BY <1>2 DEF TypeOK, end_op, do_checkpoint, wakeup_log_used, wakeup, Running
<1>3. ASSUME Quiet(t) PROVE Running' = Running
  BY <1>3 DEF Quiet, call_begin_op, begin_op_sleep, end_op_test, checkpoint_persist,
     checkpoint_stamp, checkpoint_notify, end_op_reopen, end_op_announce,
     wakeup_log_used, wakeup_last_persisted_ts, wakeup, TypeOK, Running
<1> QED BY <1>1, <1>2, <1>3

\* op_count counts the running operations.
LEMMA OpCountStep == IInv /\ [Next]_vars => OpCount'
<1> SUFFICES ASSUME IInv, [Next]_vars PROVE OpCount'
  OBVIOUS
<1>0. TypeOK /\ OpCount /\ Running \in SUBSET Thread
  BY DEF IInv, Running
<1>a. IsFiniteSet(Running) /\ Cardinality(Running) \in Nat
  BY <1>0, ThreadsFinite
<1>1. ASSUME NEW t \in Thread, Quiet(t) PROVE OpCount'
  <2>1. Running' = Running
    BY <1>0, <1>1, RunningStep
  <2>2. op_count' = op_count
    BY <1>1 DEF Quiet, call_begin_op, begin_op_sleep, end_op_test, checkpoint_persist,
       checkpoint_stamp, checkpoint_notify, end_op_reopen, end_op_announce
  <2> QED BY <1>0, <2>1, <2>2 DEF OpCount
<1>2. ASSUME NEW t \in Thread, begin_op(t) PROVE OpCount'
  <2>1. t \notin Running /\ Running' = Running \cup {t}
    BY <1>0, <1>2, RunningStep
  <2>2. Cardinality(Running \cup {t}) = Cardinality(Running) + 1
    BY <1>a, <2>1, FS_AddElement
  <2>3. op_count' = op_count + 1
    BY <1>2 DEF begin_op
  <2> QED BY <1>0, <2>1, <2>2, <2>3 DEF OpCount
<1>3. ASSUME NEW t \in Thread, end_op(t) PROVE OpCount'
  <2>1. t \in Running /\ Running' = Running \ {t}
    BY <1>0, <1>3, RunningStep
  <2>2. Cardinality(Running \ {t}) = Cardinality(Running) - 1
    BY <1>a, <2>1, FS_RemoveElement
  <2>3. op_count' = op_count - 1
    BY <1>3 DEF end_op
  <2> QED BY <1>0, <2>1, <2>2, <2>3 DEF OpCount
<1>4. ASSUME NEW t \in Thread, NEW b \in Block, sync(t, b) PROVE OpCount'
  BY <1>0, <1>4 DEF OpCount, sync, Running
<1>5. CASE UNCHANGED vars
  BY <1>0, <1>5 DEF OpCount, vars, Running
<1> QED BY <1>1, <1>2, <1>3, <1>4, <1>5, NextCases

\* A checkpoint runs alone with the log closed: begin_op finds no room while
\* log_size is 0, and only the end of the last operation starts another.
LEMMA CheckpointStep == IInv /\ [Next]_vars => CheckpointAlone' /\ CheckpointState'
<1> SUFFICES ASSUME IInv, [Next]_vars PROVE CheckpointAlone' /\ CheckpointState'
  OBVIOUS
<1>0. TypeOK /\ OpCount /\ CheckpointAlone /\ CheckpointState /\ LogAccounting
  BY DEF IInv
<1>1. ASSUME NEW t \in Thread, begin_op(t) PROVE CheckpointAlone' /\ CheckpointState'
  <2>1. Checkpointing = {}
    <3> SUFFICES ASSUME NEW u \in Checkpointing PROVE FALSE
      OBVIOUS
    <3> QED BY <1>0, <1>1, ConstantsAssumption
            DEF CheckpointState, begin_op, LogFull, TypeOK
  <2>2. Checkpointing' = {}
    BY <1>0, <1>1, <2>1 DEF Checkpointing, CheckpointPC, begin_op, TypeOK
  <2> QED BY <2>2 DEF CheckpointAlone, CheckpointState
<1>2. ASSUME NEW t \in Thread, end_op(t) PROVE CheckpointAlone' /\ CheckpointState'
  <2>1. pc[t] = "running"
    BY <1>2 DEF end_op
  <2>2. Checkpointing = {} /\ log_size = LOG_SIZE /\ op_count \in Nat \ {0}
    BY <1>0, <2>1, CommitCovered
  <2>3. Checkpointing' \subseteq {t} /\ (Checkpointing' # {} => op_count' = 0)
    BY <1>0, <1>2, <2>2
       DEF Checkpointing, CheckpointPC, end_op, do_checkpoint, wakeup_log_used, wakeup, TypeOK
  <2>4. op_count' = 0 => Running' = {}
    <3>1. OpCount' /\ Running' \in SUBSET Thread
      BY OpCountStep DEF Running
    <3>2. IsFiniteSet(Running')
      BY <3>1, ThreadsFinite
    <3> QED BY <3>1, <3>2, FS_EmptySet DEF OpCount
  <2>5. Checkpointing' # {} => log_size' = 0
    BY <1>2, <2>3 DEF end_op, do_checkpoint
  <2>6. log_size_copy'[t] = LOG_SIZE
    BY <1>0, <1>2, <2>2 DEF end_op, TypeOK
  <2>7. t \in Checkpointing' => pc'[t] = "persist"
    BY <1>0, <1>2
       DEF Checkpointing, CheckpointPC, end_op, do_checkpoint, wakeup_log_used, wakeup, TypeOK
  <2> QED BY <2>3, <2>4, <2>5, <2>6, <2>7 DEF CheckpointAlone, CheckpointState
<1>3. ASSUME NEW t \in Thread, NEW b \in Block, sync(t, b)
      PROVE  CheckpointAlone' /\ CheckpointState'
  BY <1>0, <1>3 DEF CheckpointAlone, CheckpointState, Checkpointing, Running, sync
<1>4. CASE UNCHANGED vars
  BY <1>0, <1>4 DEF CheckpointAlone, CheckpointState, Checkpointing, Running, vars
<1>5. ASSUME NEW t \in Thread, Quiet(t) PROVE CheckpointAlone' /\ CheckpointState'
  <2>1. Running' = Running
    BY <1>0, <1>5, RunningStep
  <2>2. CASE call_begin_op(t) \/ begin_op_sleep(t) \/ end_op_test(t) \/ end_op_announce(t)
    <3>1. /\ Checkpointing' = Checkpointing
          /\ \A u \in Checkpointing : pc'[u] = pc[u]
          /\ UNCHANGED <<log_size, log_size_copy, header>>
      BY <1>0, <2>2 DEF call_begin_op, begin_op_sleep, end_op_test, end_op_announce,
         wakeup_log_used, wakeup, Checkpointing, CheckpointPC, TypeOK
    <3> QED BY <1>0, <2>1, <3>1 DEF CheckpointAlone, CheckpointState
  <2>3. CASE checkpoint_persist(t) \/ checkpoint_stamp(t) \/ checkpoint_notify(t)
    <3>1. t \in Checkpointing
      BY <2>3 DEF checkpoint_persist, checkpoint_stamp, checkpoint_notify,
         Checkpointing, CheckpointPC
    <3>2. Checkpointing' = Checkpointing
      BY <1>0, <2>3 DEF checkpoint_persist, checkpoint_stamp, checkpoint_notify,
         wakeup_last_persisted_ts, wakeup, Checkpointing, CheckpointPC, TypeOK
    <3>3. UNCHANGED <<log_size, log_size_copy>> /\ header' = {}
      BY <1>0, <2>3, <3>1 DEF CheckpointState, checkpoint_persist, checkpoint_stamp,
         checkpoint_notify
    <3> QED BY <1>0, <2>1, <3>1, <3>2, <3>3 DEF CheckpointAlone, CheckpointState
  <2>4. CASE end_op_reopen(t)
    <3>1. Checkpointing = {t}
      BY <1>0, <2>4 DEF CheckpointAlone, end_op_reopen, Checkpointing, CheckpointPC
    <3>2. Checkpointing' = {}
      BY <1>0, <2>4, <3>1 DEF end_op_reopen, Checkpointing, CheckpointPC, TypeOK
    <3> QED BY <3>2 DEF CheckpointAlone, CheckpointState
  <2> QED BY <1>5, <2>2, <2>3, <2>4 DEF Quiet
<1> QED BY <1>1, <1>2, <1>3, <1>4, <1>5, NextCases

\* log_used is exact outside a checkpoint: begin_op adds a reservation,
\* commit replaces it by the entries the header grew by, and the end of a
\* checkpoint starts again from an empty header.
LEMMA AccountingStep == IInv /\ [Next]_vars => LogAccounting'
<1> SUFFICES ASSUME IInv, [Next]_vars, Checkpointing' = {}
             PROVE  /\ log_used' = Cardinality(header') + OP_MAX_NUM_BLOCKS * op_count'
                    /\ log_used' <= log_size'
                    /\ log_size' = LOG_SIZE
  BY DEF LogAccounting
<1> USE ConstantsAssumption
<1>0. /\ TypeOK /\ OpCount /\ CheckpointAlone /\ CheckpointState /\ LogAccounting
      /\ Cardinality(header) \in Nat
  BY FS_CardinalityType DEF IInv, TypeOK
<1>1. ASSUME NEW t \in Thread, begin_op(t)
      PROVE  /\ log_used' = Cardinality(header') + OP_MAX_NUM_BLOCKS * op_count'
             /\ log_used' <= log_size'
             /\ log_size' = LOG_SIZE
  <2>1. Checkpointing = {}
    BY <1>0, <1>1 DEF Checkpointing, CheckpointPC, begin_op, TypeOK
  <2>2. log_used = Cardinality(header) + OP_MAX_NUM_BLOCKS * op_count /\ log_size = LOG_SIZE
    BY <1>0, <2>1 DEF LogAccounting
  <2>3. OP_MAX_NUM_BLOCKS * (op_count + 1) = OP_MAX_NUM_BLOCKS * op_count + OP_MAX_NUM_BLOCKS
    BY <1>0 DEF TypeOK
  <2> QED BY <1>0, <1>1, <2>2, <2>3 DEF begin_op, LogFull, TypeOK
<1>2. ASSUME NEW t \in Thread, end_op(t)
      PROVE  /\ log_used' = Cardinality(header') + OP_MAX_NUM_BLOCKS * op_count'
             /\ log_used' <= log_size'
             /\ log_size' = LOG_SIZE
  <2>1. pc[t] = "running"
    BY <1>2 DEF end_op
  <2>2. /\ op_count \in Nat \ {0} /\ Checkpointing = {} /\ log_size = LOG_SIZE
        /\ absorbed(t) \in Nat /\ unused(t) \in Nat
        /\ Cardinality(header \cup ctx[t])
             = Cardinality(header) + Cardinality(ctx[t]) - absorbed(t)
    BY <1>0, <2>1, CommitCovered
  <2>3. op_count' # 0 /\ log_size' = log_size
    BY <1>0, <1>2 DEF Checkpointing, CheckpointPC, end_op, do_checkpoint, wakeup_log_used, wakeup, TypeOK
  <2>4. /\ log_used = Cardinality(header) + OP_MAX_NUM_BLOCKS * op_count
        /\ log_used <= log_size
    BY <1>0, <2>2 DEF LogAccounting
  <2>5. /\ header' = header \cup ctx[t]
        /\ log_used' = log_used - (unused(t) + absorbed(t))
        /\ op_count' = op_count - 1
    BY <1>2 DEF end_op, commit
  <2>6. OP_MAX_NUM_BLOCKS * (op_count - 1) = OP_MAX_NUM_BLOCKS * op_count - OP_MAX_NUM_BLOCKS
    BY <2>2
  <2>7. Cardinality(ctx[t]) \in Nat
    BY <1>0, FS_CardinalityType DEF TypeOK
  <2>8. OP_MAX_NUM_BLOCKS * op_count \in Nat /\ log_used \in Nat
    BY <1>0, <2>2 DEF TypeOK
  <2>9. log_used' = Cardinality(header') + OP_MAX_NUM_BLOCKS * op_count'
    BY <1>0, <2>2, <2>4, <2>5, <2>6, <2>7, <2>8 DEF unused
  <2> QED BY <2>2, <2>3, <2>4, <2>5, <2>8, <2>9
<1>3. ASSUME NEW t \in Thread, NEW b \in Block, sync(t, b)
      PROVE  /\ log_used' = Cardinality(header') + OP_MAX_NUM_BLOCKS * op_count'
             /\ log_used' <= log_size'
             /\ log_size' = LOG_SIZE
  BY <1>0, <1>3 DEF LogAccounting, Checkpointing, sync
<1>4. CASE UNCHANGED vars
  BY <1>0, <1>4 DEF LogAccounting, Checkpointing, vars
<1>5. ASSUME NEW t \in Thread, Quiet(t)
      PROVE  /\ log_used' = Cardinality(header') + OP_MAX_NUM_BLOCKS * op_count'
             /\ log_used' <= log_size'
             /\ log_size' = LOG_SIZE
  <2>1. CASE call_begin_op(t) \/ begin_op_sleep(t) \/ end_op_test(t) \/ end_op_announce(t)
    <3>1. Checkpointing = {} /\ UNCHANGED <<header, log_used, log_size, op_count>>
      BY <1>0, <2>1 DEF call_begin_op, begin_op_sleep, end_op_test, end_op_announce,
         wakeup_log_used, wakeup, Checkpointing, CheckpointPC, TypeOK
    <3> QED BY <1>0, <3>1 DEF LogAccounting
  <2>2. ~(checkpoint_persist(t) \/ checkpoint_stamp(t) \/ checkpoint_notify(t))
    BY <1>0 DEF checkpoint_persist, checkpoint_stamp, checkpoint_notify,
       wakeup_last_persisted_ts, wakeup, Checkpointing, CheckpointPC, TypeOK
  <2>3. CASE end_op_reopen(t)
    <3>1. t \in Checkpointing /\ pc[t] # "persist"
      BY <2>3 DEF end_op_reopen, Checkpointing, CheckpointPC
    <3>2. header = {} /\ log_size_copy[t] = LOG_SIZE /\ Running = {}
      BY <1>0, <3>1 DEF CheckpointState, CheckpointAlone
    <3>3. op_count = 0 /\ Cardinality(header) = 0
      BY <1>0, <3>2, FS_EmptySet DEF OpCount
    <3> QED BY <2>3, <3>2, <3>3 DEF end_op_reopen
  <2> QED BY <1>5, <2>1, <2>2, <2>3 DEF Quiet
<1> QED BY <1>1, <1>2, <1>3, <1>4, <1>5, NextCases

\* Timestamps grow, and a stamp covers only operations that are not running.
LEMMA TimestampsStep == IInv /\ [Next]_vars => Timestamps'
<1> SUFFICES ASSUME IInv, [Next]_vars PROVE Timestamps'
  OBVIOUS
<1>0. TypeOK /\ CheckpointAlone /\ Timestamps
  BY DEF IInv
<1>1. ASSUME NEW t \in Thread, begin_op(t) PROVE Timestamps'
  BY <1>0, <1>1 DEF Timestamps, Running, begin_op, TypeOK
<1>2. ASSUME NEW t \in Thread, end_op(t) PROVE Timestamps'
  <2>1. Running' \subseteq Running
    BY <1>0, <1>2, RunningStep
  <2> QED BY <1>0, <1>2, <2>1 DEF Timestamps, end_op, TypeOK
<1>3. ASSUME NEW t \in Thread, NEW b \in Block, sync(t, b) PROVE Timestamps'
  BY <1>0, <1>3 DEF Timestamps, Running, sync
<1>4. CASE UNCHANGED vars
  BY <1>0, <1>4 DEF Timestamps, Running, vars
<1>5. ASSUME NEW t \in Thread, Quiet(t) PROVE Timestamps'
  <2>1. Running' = Running
    BY <1>0, <1>5, RunningStep
  <2>2. CASE call_begin_op(t)
    BY <1>0, <2>1, <2>2 DEF Timestamps, Running, call_begin_op, TypeOK
  <2>3. CASE checkpoint_stamp(t)
    <3>1. Running = {}
      BY <1>0, <2>3 DEF CheckpointAlone, Checkpointing, CheckpointPC, checkpoint_stamp
    <3> QED BY <1>0, <2>1, <2>3, <3>1 DEF Timestamps, checkpoint_stamp, TypeOK
  <2>4. CASE ~(call_begin_op(t) \/ checkpoint_stamp(t))
    <3>1. UNCHANGED <<ts, last_allocated_ts, last_persisted_ts>>
      BY <1>5, <2>4 DEF Quiet, begin_op_sleep, end_op_test, checkpoint_persist,
         checkpoint_notify, end_op_reopen, end_op_announce
    <3> QED BY <1>0, <2>1, <3>1 DEF Timestamps
  <2> QED BY <2>2, <2>3, <2>4
<1> QED BY <1>1, <1>2, <1>3, <1>4, <1>5, NextCases

\* Blocks of committed operations stay in the header until it is persisted.
LEMMA CommittedStep == IInv /\ [Next]_vars => CommittedInLog'
<1> SUFFICES ASSUME IInv, [Next]_vars,
                    NEW w \in Thread,
                    pc'[w] \in {"end_sleep", "end_test", "persist"},
                    ts'[w] > last_persisted_ts',
                    \A u \in Thread : pc'[u] # "stamp"
             PROVE  ctx'[w] \subseteq header'
  BY DEF CommittedInLog
<1>0. TypeOK /\ CommittedInLog /\ Timestamps
  BY DEF IInv
<1>1. ASSUME NEW t \in Thread, begin_op(t) PROVE ctx'[w] \subseteq header'
  BY <1>0, <1>1 DEF CommittedInLog, begin_op, TypeOK
<1>2. ASSUME NEW t \in Thread, end_op(t) PROVE ctx'[w] \subseteq header'
  <2>1. header' = header \cup ctx[t] /\ UNCHANGED <<ctx, ts, last_persisted_ts>>
    BY <1>2 DEF end_op, commit
  <2>2. CASE w = t
    BY <2>1, <2>2
  <2>3. CASE w # t
    <3>1. pc'[w] = pc[w]
      BY <1>0, <1>2, <2>3 DEF end_op, do_checkpoint, wakeup_log_used, wakeup, TypeOK
    <3>2. \A u \in Thread : pc[u] # "stamp"
      BY <1>0, <1>2 DEF end_op, do_checkpoint, wakeup_log_used, wakeup, TypeOK
    <3> QED BY <1>0, <2>1, <3>1, <3>2 DEF CommittedInLog
  <2> QED BY <2>2, <2>3
<1>3. ASSUME NEW t \in Thread, NEW b \in Block, sync(t, b) PROVE ctx'[w] \subseteq header'
  BY <1>0, <1>3 DEF CommittedInLog, sync, TypeOK
<1>4. CASE UNCHANGED vars
  BY <1>0, <1>4 DEF CommittedInLog, vars
<1>5. ASSUME NEW t \in Thread, Quiet(t) PROVE ctx'[w] \subseteq header'
  <2>1. CASE call_begin_op(t)
    BY <1>0, <2>1 DEF CommittedInLog, call_begin_op, TypeOK
  <2>2. CASE end_op_test(t)
    BY <1>0, <2>2 DEF CommittedInLog, end_op_test, TypeOK
  <2>3. ~checkpoint_persist(t)
    BY <1>0 DEF checkpoint_persist, TypeOK
  <2>4. CASE checkpoint_stamp(t)
    BY <1>0, <2>4 DEF Timestamps, checkpoint_stamp, TypeOK
  <2>5. CASE checkpoint_notify(t)
    BY <1>0, <2>5 DEF CommittedInLog, checkpoint_notify, wakeup_last_persisted_ts,
       wakeup, TypeOK
  <2>6. CASE begin_op_sleep(t) \/ end_op_reopen(t) \/ end_op_announce(t)
    BY <1>0, <2>6 DEF CommittedInLog, begin_op_sleep, end_op_reopen, end_op_announce,
       wakeup_log_used, wakeup, TypeOK
  <2> QED BY <1>5, <2>1, <2>2, <2>3, <2>4, <2>5, <2>6 DEF Quiet
<1> QED BY <1>1, <1>2, <1>3, <1>4, <1>5, NextCases

\* The three parts of SleeperHasWaker for one thread.
RoomAwaited(w) ==
    pc[w] = "begin_sleep" /\ ~LogFull => \E u \in Thread : pc[u] = "announce"
StampAwaited(w) ==
    pc[w] = "end_sleep" /\ ts[w] <= last_persisted_ts =>
        \E u \in Thread : pc[u] = "notify"
GroupAwaited(w) ==
    pc[w] \in {"end_sleep", "end_test"} /\ ts[w] > last_persisted_ts =>
        \E u \in Thread : pc[u] \in {"running", "persist", "stamp"}

\* No step lets a thread sleep with nobody left to wake it.
LEMMA SleeperStep == IInv /\ [Next]_vars => SleeperHasWaker'
<1> SUFFICES ASSUME IInv, [Next]_vars, NEW w \in Thread
             PROVE  RoomAwaited(w)' /\ StampAwaited(w)' /\ GroupAwaited(w)'
  BY DEF SleeperHasWaker, RoomAwaited, StampAwaited, GroupAwaited
<1> USE ConstantsAssumption
<1>0. TypeOK /\ Timestamps
  BY DEF IInv
<1>a. RoomAwaited(w) /\ StampAwaited(w) /\ GroupAwaited(w)
  BY DEF IInv, SleeperHasWaker, RoomAwaited, StampAwaited, GroupAwaited
<1>1. ASSUME NEW t \in Thread, begin_op(t)
      PROVE  RoomAwaited(w)' /\ StampAwaited(w)' /\ GroupAwaited(w)'
  BY <1>0, <1>a, <1>1 DEF RoomAwaited, StampAwaited, GroupAwaited, LogFull, begin_op, TypeOK
<1>2. ASSUME NEW t \in Thread, end_op(t)
      PROVE  RoomAwaited(w)' /\ StampAwaited(w)' /\ GroupAwaited(w)'
  <2>1. pc'[w] # "begin_sleep"
    BY <1>0, <1>2 DEF end_op, do_checkpoint, wakeup_log_used, wakeup, TypeOK
  <2>2. StampAwaited(w)'
    BY <1>0, <1>a, <1>2 DEF StampAwaited, end_op, do_checkpoint, wakeup_log_used, wakeup, TypeOK
  <2>3. \E u \in Thread : pc'[u] \in {"running", "persist"}
    <3>1. CASE op_count' = 0
      BY <1>0, <1>2, <3>1 DEF end_op, do_checkpoint, wakeup_log_used, wakeup, TypeOK
    <3>2. CASE op_count' # 0
      <4>1. Running' # {}
        BY <3>2, OpCountStep, FS_EmptySet DEF OpCount
      <4> QED BY <4>1 DEF Running
    <3> QED BY <3>1, <3>2
  <2> QED BY <2>1, <2>2, <2>3 DEF RoomAwaited, GroupAwaited
<1>3. ASSUME NEW t \in Thread, NEW b \in Block, sync(t, b)
      PROVE  RoomAwaited(w)' /\ StampAwaited(w)' /\ GroupAwaited(w)'
  BY <1>a, <1>3 DEF RoomAwaited, StampAwaited, GroupAwaited, LogFull, sync
<1>4. CASE UNCHANGED vars
  BY <1>a, <1>4 DEF RoomAwaited, StampAwaited, GroupAwaited, LogFull, vars
<1>5. ASSUME NEW t \in Thread, Quiet(t)
      PROVE  RoomAwaited(w)' /\ StampAwaited(w)' /\ GroupAwaited(w)'
  <2>1. CASE call_begin_op(t)
    BY <1>0, <1>a, <2>1 DEF RoomAwaited, StampAwaited, GroupAwaited, LogFull,
       call_begin_op, TypeOK
  <2>7. CASE begin_op_sleep(t)
    BY <1>0, <1>a, <2>7 DEF RoomAwaited, StampAwaited, GroupAwaited, LogFull,
       begin_op_sleep, TypeOK
  <2>8. CASE end_op_test(t)
    BY <1>0, <1>a, <2>8 DEF RoomAwaited, StampAwaited, GroupAwaited, LogFull,
       end_op_test, TypeOK
  <2>2. CASE checkpoint_persist(t)
    BY <1>0, <1>a, <2>2 DEF RoomAwaited, StampAwaited, GroupAwaited, LogFull,
       checkpoint_persist, TypeOK
  <2>3. CASE checkpoint_stamp(t)
    BY <1>0, <1>a, <2>3 DEF RoomAwaited, StampAwaited, GroupAwaited, LogFull,
       checkpoint_stamp, Timestamps, TypeOK
  <2>4. CASE checkpoint_notify(t)
    BY <1>0, <1>a, <2>4 DEF RoomAwaited, StampAwaited, GroupAwaited, LogFull,
       checkpoint_notify, wakeup_last_persisted_ts, wakeup, TypeOK
  <2>5. CASE end_op_reopen(t)
    BY <1>0, <1>a, <2>5 DEF RoomAwaited, StampAwaited, GroupAwaited, LogFull,
       end_op_reopen, TypeOK
  <2>6. CASE end_op_announce(t)
    BY <1>0, <1>a, <2>6 DEF RoomAwaited, StampAwaited, GroupAwaited, LogFull,
       end_op_announce, wakeup_log_used, wakeup, TypeOK
  <2> QED BY <1>5, <2>1, <2>2, <2>3, <2>4, <2>5, <2>6, <2>7, <2>8 DEF Quiet
<1> QED BY <1>1, <1>2, <1>3, <1>4, <1>5, NextCases

-----------------------------------------------------------------------------
\* The initial state satisfies the invariant.
LEMMA InitInv == Init => IInv
<1> SUFFICES ASSUME Init PROVE IInv
  OBVIOUS
<1> USE ConstantsAssumption
<1>1. IsFiniteSet({}) /\ Cardinality({}) = 0
  BY FS_EmptySet
<1>2. Running = {} /\ Checkpointing = {}
  BY DEF Init, Running, Checkpointing, CheckpointPC
<1>3. TypeOK
  BY <1>1 DEF Init, TypeOK, ThreadPC
<1>4. OpCount /\ LogAccounting
  BY <1>1, <1>2 DEF Init, OpCount, LogAccounting
<1> QED BY <1>2, <1>3, <1>4
        DEF Init, IInv, CheckpointAlone, CheckpointState, Timestamps,
            CommittedInLog, SleeperHasWaker

\* Every step preserves the invariant.
LEMMA Inductive == IInv /\ [Next]_vars => IInv'
BY TypeStep, OpCountStep, CheckpointStep, AccountingStep, TimestampsStep,
   CommittedStep, SleeperStep DEF IInv

\* The invariant leaves room in the log for what a running operation commits.
LEMMA Fits == IInv => CommitFits
<1> SUFFICES ASSUME IInv, NEW t \in Running
             PROVE  Cardinality(header \cup ctx[t]) <= log_size
  BY DEF CommitFits
<1>1. t \in Thread /\ pc[t] = "running"
  BY DEF Running
<1>2. /\ Checkpointing = {}
      /\ log_used >= Cardinality(header) + OP_MAX_NUM_BLOCKS
      /\ absorbed(t) \in Nat
      /\ Cardinality(header \cup ctx[t])
           = Cardinality(header) + Cardinality(ctx[t]) - absorbed(t)
  BY <1>1, CommitCovered DEF IInv
<1>3. /\ log_used \in Nat /\ log_size \in Nat /\ OP_MAX_NUM_BLOCKS \in Nat
      /\ Cardinality(header) \in Nat /\ Cardinality(ctx[t]) \in Nat
      /\ Cardinality(ctx[t]) <= OP_MAX_NUM_BLOCKS
  <2>1. IsFiniteSet(header) /\ IsFiniteSet(ctx[t])
    BY <1>1 DEF IInv, TypeOK
  <2>2. Cardinality(header) \in Nat /\ Cardinality(ctx[t]) \in Nat
    BY <2>1, FS_CardinalityType
  <2> QED BY <1>1, <2>2, ConstantsAssumption DEF IInv, TypeOK
<1>4. log_used <= log_size
  BY <1>2 DEF IInv, LogAccounting
<1> QED BY <1>2, <1>3, <1>4

\* The invariant is inductive and so holds in every reachable state.
THEOREM Invariance == Spec => []IInv
BY InitInv, Inductive, PTL DEF Spec

\* Types: in particular the unsigned counter log_used never underflows.
THEOREM TypeCorrect == Spec => []TypeOK
<1>1. IInv => TypeOK
  BY DEF IInv
<1> QED BY Invariance, <1>1, PTL

\* log_used is exact and within the log outside a checkpoint.
THEOREM AccountingCorrect == Spec => []LogAccounting
<1>1. IInv => LogAccounting
  BY DEF IInv
<1> QED BY Invariance, <1>1, PTL

\* The assertion in commit never fails: the log does not overflow.
THEOREM LogNeverOverflows == Spec => []CommitFits
BY Invariance, Fits, PTL

\* A checkpoint runs without any running operation and without another one.
THEOREM CheckpointExclusive == Spec => []CheckpointAlone
<1>1. IInv => CheckpointAlone
  BY DEF IInv
<1> QED BY Invariance, <1>1, PTL

\* No committed block leaves the header before it is persisted.
THEOREM CommittedKept == Spec => []CommittedInLog
<1>1. IInv => CommittedInLog
  BY DEF IInv
<1> QED BY Invariance, <1>1, PTL

\* No wakeup of begin_op or end_op is lost.
THEOREM NoLostWakeup == Spec => []SleeperHasWaker
<1>1. IInv => SleeperHasWaker
  BY DEF IInv
<1> QED BY Invariance, <1>1, PTL
=============================================================================
