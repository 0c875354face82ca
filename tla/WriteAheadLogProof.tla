------------------------- MODULE WriteAheadLogProof -------------------------
(***************************************************************************)
(* The inductive invariant of WriteAheadLog and its proof, and that the    *)
(* log implements AtomicDisk, for every set of threads, blocks and         *)
(* contents, every size of the log and any number of power losses.  The    *)
(* invariant of GroupCommit is part of it and its proofs are used as they  *)
(* are.                                                                    *)
(***************************************************************************)
EXTENDS WriteAheadLog, GroupCommitProof

WTypeOK ==
    /\ home \in [Block -> Data]
    /\ logarea \in [1 .. LOG_SIZE -> Data]
    /\ dheader \in Seq(Block)
    /\ cache \in [Block -> Data \cup {Absent}]
    /\ block_no \in Seq(Block)
    /\ stage \in [Proc -> {"log", "replay"}]
    /\ i \in [Proc -> Nat \ {0}]
    /\ boot \in {"off", "replay", "up"}

\* A list of blocks that names none twice and fits into the log.
Listing(s) ==
    /\ Len(s) <= LOG_SIZE
    /\ \A j, k \in 1 .. Len(s) : s[j] = s[k] => j = k

\* The two headers.  The list in memory is the set of GroupCommit; the one on
\* disk is empty, except while it is replayed.
Headers ==
    /\ Listing(dheader)
    /\ boot # "off" => Listing(block_no)
    /\ boot = "up" =>
          /\ Len(block_no) = Cardinality(header)
          /\ header = {block_no[k] : k \in 1 .. Len(block_no)}
          /\ (\A t \in Thread : ~InReplay(t)) => dheader = <<>>
    /\ \A p \in Proc : InReplay(p) => dheader = block_no

\* GroupCommit while the system is up, and its initial state during recovery.
GroupState ==
    /\ boot = "up" => IInv
    /\ boot = "replay" =>
          /\ log_size = LOG_SIZE /\ log_used = 0 /\ op_count = 0
          /\ last_allocated_ts = 0 /\ last_persisted_ts = 0
          /\ pc = [t \in Thread |-> "idle"] /\ ts = [t \in Thread |-> 0]
          /\ ctx = [t \in Thread |-> {}] /\ log_size_copy = [t \in Thread |-> 0]
          /\ pinned = {}
          /\ stage[Boot] = "replay"

\* A thread that is past the checkpoint it made has its operation persisted.
Persisted ==
    boot = "up" => \A t \in Thread :
        pc[t] \in {"notify", "reopen", "announce"} => ts[t] <= last_persisted_ts

\* Pinned blocks belong to a running operation or to the header; all others
\* are as on the disk.
Pinned ==
    boot = "up" =>
        \A b \in pinned : b \in header \/ \E t \in Running : b \in ctx[t]

Clean == boot # "off" => \A b \in Block : b \notin pinned => content(b) = home[b]

\* How far a checkpoint has come: the log holds the blocks written so far.
Logged ==
    boot = "up" => \A t \in Thread : pc[t] = "persist" /\ stage[t] = "log" =>
        \A k \in 1 .. Len(block_no) : k < i[t] => logarea[k] = content(block_no[k])

\* How far a replay has come: what is done is at its place, what is not is
\* still as in the log.
Replayed ==
    \A p \in Proc : InReplay(p) =>
        /\ \A k \in 1 .. Len(block_no) : k < i[p] => home[block_no[k]] = logarea[k]
        /\ p # Boot =>
              /\ \A k \in 1 .. Len(block_no) : content(block_no[k]) = logarea[k]
              /\ \A k \in 1 .. Len(block_no) : k < i[p] => block_no[k] \notin pinned

WInv ==
    /\ WTypeOK /\ Headers /\ GroupState /\ Persisted
    /\ Pinned /\ Clean /\ Logged /\ Replayed

-----------------------------------------------------------------------------
\* What the types say of the header in memory, its blocks and the counters.
LEMMA Typed ==
    ASSUME WInv
    PROVE  /\ WTypeOK
           /\ block_no \in Seq(Block) /\ Len(block_no) \in Nat /\ DOMAIN block_no = 1 .. Len(block_no)
           /\ \A k \in 1 .. Len(block_no) : block_no[k] \in Block
           /\ \A p \in Proc : i[p] \in Nat /\ i[p] >= 1
           /\ home \in [Block -> Data] /\ logarea \in [1 .. LOG_SIZE -> Data]
           /\ i \in [Proc -> Nat \ {0}] /\ stage \in [Proc -> {"log", "replay"}]
           /\ \A t \in Thread : t \in Proc
<1>1. WTypeOK
  BY DEF WInv
<1>2. block_no \in Seq(Block)
  BY <1>1 DEF WTypeOK
<1>3. /\ Len(block_no) \in Nat /\ DOMAIN block_no = 1 .. Len(block_no)
      /\ \A k \in 1 .. Len(block_no) : block_no[k] \in Block
  BY <1>2
<1>4. /\ home \in [Block -> Data] /\ logarea \in [1 .. LOG_SIZE -> Data]
      /\ i \in [Proc -> Nat \ {0}] /\ stage \in [Proc -> {"log", "replay"}]
  BY <1>1 DEF WTypeOK
<1>5. \A p \in Proc : i[p] \in Nat /\ i[p] >= 1
  BY <1>4
<1> QED BY <1>1, <1>2, <1>3, <1>4, <1>5 DEF Proc

\* The thread of a checkpoint is the only one, and no operation runs.
LEMMA Alone ==
    ASSUME IInv, NEW t \in Thread, pc[t] \in CheckpointPC
    PROVE  /\ Running = {}
           /\ \A u \in Thread : pc[u] # "running"
           /\ \A u \in Thread : pc[u] \in CheckpointPC => u = t
<1>1. t \in Checkpointing
  BY DEF Checkpointing
<1>2. Running = {} /\ Checkpointing = {t}
  BY <1>1 DEF IInv, CheckpointAlone
<1> QED BY <1>2 DEF Running, Checkpointing

\* While an operation runs there is no checkpoint.
LEMMA NoCheckpoint ==
    ASSUME IInv, NEW t \in Thread, pc[t] = "running"
    PROVE  \A u \in Thread : pc[u] \notin CheckpointPC
BY Alone

\* While the system stays up, the log makes steps of GroupCommit.
LEMMA GroupStep ==
    ASSUME WNext, boot = "up", boot' = "up"
    PROVE  [Next]_vars
<1> USE WALAssumption
<1>1. ASSUME NEW b \in Block, load(b) \/ evict(b) PROVE [Next]_vars
  BY <1>1 DEF load, evict
<1>2. ASSUME NEW t \in Thread, InMemory(t) PROVE [Next]_vars
  BY <1>2 DEF InMemory, Next, Step
<1>3. ASSUME NEW t \in Thread, end_op_commit(t) PROVE [Next]_vars
  BY <1>3 DEF end_op_commit, Next, Step
<1>4. ASSUME NEW t \in Thread, checkpoint_log(t) \/ write_header(t)
      PROVE  [Next]_vars
  BY <1>4 DEF checkpoint_log, write_header, Next, Step
<1>5. ASSUME NEW t \in Thread, NEW b \in Block, NEW d \in Data, update(t, b, d)
      PROVE  [Next]_vars
  BY <1>5 DEF update, Next
<1>6. ASSUME NEW p \in Proc, replay_block(p) \/ replay_clear(p)
      PROVE  [Next]_vars
  <2>1. p \in Thread
    BY <1>6 DEF replay_block, replay_clear, InReplay, Proc
  <2> QED BY <1>6, <2>1 DEF replay_block, replay_clear, Next, Step
<1> QED BY <1>1, <1>2, <1>3, <1>4, <1>5, <1>6 DEF WNext, init_bcache, Crash

\* The orders of a finite set are its enumerations without repetition.
LEMMA Enumeration ==
    ASSUME NEW S, IsFiniteSet(S), NEW s \in orders(S)
    PROVE  /\ s \in Seq(S) /\ Len(s) = Cardinality(S)
           /\ S = {s[k] : k \in 1 .. Len(s)}
           /\ \A j, k \in 1 .. Len(s) : s[j] = s[k] => j = k
<1> DEFINE n == Cardinality(S)
<1>1. n \in Nat
  BY FS_CardinalityType
<1>2. s \in [1 .. n -> S] /\ Range(s) = S
  BY DEF orders
<1>3. s \in Seq(S) /\ Len(s) = n
  BY <1>1, <1>2
<1>4. S = {s[k] : k \in 1 .. n}
  BY <1>1, <1>2 DEF Range
<1>5. s \in Surjection(1 .. n, S)
  BY <1>2, <1>4 DEF Surjection
<1>6. IsFiniteSet(1 .. n) /\ Cardinality(1 .. n) = n
  BY <1>1, FS_Interval
<1>7. s \in Injection(1 .. n, S)
  BY <1>5, <1>6, FS_SurjSameCardinalityImpliesInj
<1> QED BY <1>2, <1>3, <1>4, <1>7 DEF Injection, IsInjective

\* What a restart leaves: the log where the header on disk names a block, the
\* block's own place elsewhere.
DurableFacts ==
    /\ Durable = [b \in Block |-> Durable[b]]
    /\ Durable \in [Block -> Data]
    /\ \A k \in 1 .. Len(dheader) : Durable[dheader[k]] = logarea[k]
    /\ \A b \in Block :
          (\A k \in 1 .. Len(dheader) : dheader[k] # b) => Durable[b] = home[b]

\* These facts follow from the types and from what the header may be.
LEMMA DurableIs == WTypeOK /\ Headers => DurableFacts
<1> SUFFICES ASSUME WTypeOK, Headers PROVE DurableFacts
  OBVIOUS
<1>1. /\ dheader \in Seq(Block) /\ Len(dheader) \in Nat
      /\ DOMAIN dheader = 1 .. Len(dheader)
      /\ Len(dheader) <= LOG_SIZE /\ LOG_SIZE \in Nat
      /\ \A j, k \in 1 .. Len(dheader) : dheader[j] = dheader[k] => j = k
      /\ \A k \in 1 .. Len(dheader) : dheader[k] \in Block
  BY ConstantsAssumption DEF WTypeOK, Headers, Listing
<1>2. Durable = [b \in Block |-> Durable[b]]
  BY DEF Durable
<1>3. ASSUME NEW k \in 1 .. Len(dheader)
      PROVE  Durable[dheader[k]] = logarea[k]
  <2>1. (CHOOSE s \in DOMAIN dheader : dheader[s] = dheader[k]) = k
    BY <1>1
  <2> QED BY <1>1, <2>1 DEF Durable
<1>4. ASSUME NEW b \in Block, \A k \in 1 .. Len(dheader) : dheader[k] # b
      PROVE  Durable[b] = home[b]
  BY <1>1, <1>4 DEF Durable
<1>5. ASSUME NEW b \in Block PROVE Durable[b] \in Data
  <2>1. CASE \E k \in 1 .. Len(dheader) : dheader[k] = b
    BY <1>1, <1>3, <2>1 DEF WTypeOK
  <2> QED BY <1>4, <2>1 DEF WTypeOK
<1> QED BY <1>2, <1>3, <1>4, <1>5 DEF DurableFacts

-----------------------------------------------------------------------------
\* The invariant holds before the first start.
LEMMA WInitInv == WInit => WInv
<1> SUFFICES ASSUME WInit PROVE WInv
  OBVIOUS
<1> USE ConstantsAssumption
<1>1. WTypeOK
  BY DEF WInit, WTypeOK
<1>2. Headers
  BY DEF WInit, Headers, Listing, InReplay, Proc
<1>3. GroupState /\ Persisted /\ Pinned /\ Clean /\ Logged
  BY DEF WInit, GroupState, Persisted, Pinned, Clean, Logged
<1>4. Replayed
  BY DEF WInit, Replayed, InReplay, Proc
<1> QED BY <1>1, <1>2, <1>3, <1>4 DEF WInv

\* A start preserves it, with or without a log to replay.
LEMMA BootStep == WInv /\ init_bcache => WInv'
<1> SUFFICES ASSUME WInv, init_bcache PROVE WInv'
  OBVIOUS
<1> USE WALAssumption, ConstantsAssumption
<1>0. WTypeOK /\ Headers
  BY DEF WInv
<1>1. WTypeOK'
  BY <1>0 DEF init_bcache, WTypeOK, disk
<1>2. boot' = "up" => dheader = <<>> /\ header' = {} /\ block_no' = <<>>
  BY DEF init_bcache, Range
<1>3. Headers'
  <2>1. Listing(dheader') /\ Listing(block_no')
    BY <1>0 DEF Headers, init_bcache, disk
  <2>2. Cardinality({}) = 0
    BY FS_EmptySet
  <2>3. dheader' = block_no' /\ dheader' = dheader
    BY DEF init_bcache, disk
  <2>4. boot' = "up" => /\ Len(block_no') = Cardinality(header')
                        /\ header' = {block_no'[k] : k \in 1 .. Len(block_no')}
    <3> SUFFICES ASSUME boot' = "up"
                 PROVE  /\ Len(block_no') = Cardinality(header')
                        /\ header' = {block_no'[k] : k \in 1 .. Len(block_no')}
      OBVIOUS
    <3>1. header' = {} /\ Len(block_no') = 0
      BY <1>2
    <3>2. {block_no'[k] : k \in 1 .. Len(block_no')} = {}
      BY <3>1
    <3> QED BY <2>2, <3>1, <3>2
  <2> QED BY <1>2, <2>1, <2>3, <2>4 DEF Headers
<1>4. GroupState'
  <2>1. boot' = "up" => Init'
    BY <1>2 DEF Init, init_bcache
  <2>2. boot' = "up" => IInv'
    BY <2>1, InitInv, PTL
  <2>3. Boot \in Proc
    BY DEF Proc
  <2> QED BY <2>2, <2>3 DEF GroupState, init_bcache
<1>5. Persisted' /\ Pinned' /\ Logged'
  BY DEF init_bcache, Persisted, Pinned, Logged
<1>6. Clean'
  BY DEF init_bcache, Clean, content
<1>7. Replayed'
  BY <1>1 DEF init_bcache, Replayed, InReplay, Proc, WTypeOK
<1> QED BY <1>1, <1>3, <1>4, <1>5, <1>6, <1>7 DEF WInv

\* A loss of power preserves it.
LEMMA CrashStep == WInv /\ (Crash \/ UNCHANGED allvars) => WInv'
<1> SUFFICES ASSUME WInv, Crash \/ UNCHANGED allvars PROVE WInv'
  OBVIOUS
<1>1. CASE Crash
  <2>1. WTypeOK' /\ boot' = "off"
    BY <1>1 DEF Crash, WInv, WTypeOK, disk, blocks
  <2>2. \A p \in Proc : ~InReplay(p)'
    BY <2>1 DEF InReplay
  <2>3. Headers'
    BY <1>1, <2>1, <2>2 DEF Crash, WInv, Headers, Listing, disk
  <2> QED BY <2>1, <2>2, <2>3 DEF WInv, GroupState, Persisted, Pinned, Clean,
                                  Logged, Replayed
<1>2. CASE UNCHANGED allvars
  <2>1. UNCHANGED vars /\ UNCHANGED walvars
    BY <1>2 DEF allvars
  <2>2. /\ UNCHANGED <<home, logarea, dheader, cache, pinned, block_no, stage, i, boot>>
        /\ UNCHANGED <<header, log_size, log_used, op_count, last_allocated_ts,
                       last_persisted_ts, pc, ts, ctx, log_size_copy>>
    BY <2>1 DEF vars, walvars, disk, blocks
  <2>3. boot' = "up" => IInv'
    BY <2>1, <2>2, Inductive DEF WInv, GroupState
  <2>4. WTypeOK' /\ Headers' /\ Persisted' /\ Pinned' /\ Clean' /\ Logged' /\ Replayed'
    <3>1. WTypeOK'
      BY <2>2 DEF WInv, WTypeOK
    <3>2. Headers'
      BY <2>2 DEF WInv, Headers, Listing, InReplay
    <3>3. Persisted' /\ Pinned'
      BY <2>2 DEF WInv, Persisted, Pinned, Running
    <3>4. Clean'
      BY <2>2 DEF WInv, Clean, content
    <3>5. Logged'
      BY <2>2 DEF WInv, Logged, content
    <3>6. Replayed'
      BY <2>2 DEF WInv, Replayed, InReplay, content
    <3> QED BY <3>1, <3>2, <3>3, <3>4, <3>5, <3>6
  <2>5. GroupState'
    BY <2>2, <2>3 DEF WInv, GroupState
  <2> QED BY <2>4, <2>5 DEF WInv
<1> QED BY <1>1, <1>2

\* The part of GroupCommit is preserved while the system stays up.
LEMMA UpGroup ==
    ASSUME WInv, WNext, boot = "up", boot' = "up"
    PROVE  IInv /\ IInv' /\ GroupState' /\ TypeOK /\ TypeOK'
<1>1. IInv
  BY DEF WInv, GroupState
<1>2. IInv'
  BY <1>1, GroupStep, Inductive
<1> QED BY <1>1, <1>2 DEF GroupState, IInv

\* Loading and evicting change no content, since what may be evicted is as on
\* the disk.
LEMMA CacheContent ==
    ASSUME WInv, NEW b \in Block, load(b) \/ evict(b)
    PROVE  /\ \A c \in Block : content(c)' = content(c)
           /\ WTypeOK' /\ boot = "up" /\ UNCHANGED vars
           /\ UNCHANGED <<home, logarea, dheader, pinned, block_no, stage, i, boot>>
<1> USE WALAssumption
<1>1. WTypeOK /\ Clean
  BY DEF WInv
<1>2. CASE load(b)
  BY <1>1, <1>2 DEF load, content, WTypeOK, disk
<1>3. CASE evict(b)
  BY <1>1, <1>3 DEF evict, content, WTypeOK, disk, Clean
<1> QED BY <1>2, <1>3

\* Reading a block into the cache and evicting one keep the invariant: a block
\* that is evicted is not pinned and is on the disk.
LEMMA CacheStep ==
    ASSUME WInv, NEW b \in Block, load(b) \/ evict(b)
    PROVE  WInv'
<1>1. /\ \A c \in Block : content(c)' = content(c)
      /\ WTypeOK' /\ boot = "up" /\ UNCHANGED vars
      /\ UNCHANGED <<home, logarea, dheader, pinned, block_no, stage, i, boot>>
  BY CacheContent
<1>2. GroupState'
  BY <1>1, UpGroup DEF WNext
<1>3. UNCHANGED <<header, last_persisted_ts, pc, ts, ctx>>
  BY <1>1 DEF vars
<1>4. block_no \in Seq(Block) /\ \A k \in 1 .. Len(block_no) : block_no[k] \in Block
  BY DEF WInv, WTypeOK
<1>5. Headers'
  <2>1. Listing(dheader') /\ Listing(block_no')
    BY <1>1 DEF WInv, Headers
  <2>2. \A p \in Proc : InReplay(p)' <=> InReplay(p)
    BY <1>1, <1>3 DEF InReplay
  <2> QED BY <1>1, <1>3, <2>1, <2>2 DEF WInv, Headers, Proc
<1>9. Persisted' /\ Pinned'
  BY <1>1, <1>3 DEF WInv, Persisted, Pinned, Running
<1>6. Clean'
  BY <1>1 DEF WInv, Clean
<1>7. Logged'
  BY <1>1, <1>3, <1>4 DEF WInv, Logged
<1>8. Replayed'
  BY <1>1, <1>3, <1>4 DEF WInv, Replayed, InReplay
<1> QED BY <1>1, <1>2, <1>5, <1>6, <1>7, <1>8, <1>9 DEF WInv

\* What the steps in memory leave alone: the header, the operations that run
\* and where a checkpoint is while it writes.
LEMMA MemoryFacts ==
    ASSUME WInv, NEW t \in Thread, InMemory(t)
    PROVE  /\ boot = "up" /\ header' = header
           /\ UNCHANGED <<home, logarea, dheader, cache, pinned, block_no, stage, i, boot>>
           /\ \A u \in Thread : pc'[u] = "persist" <=> pc[u] = "persist"
           /\ \A u \in Running : u \in Running' /\ ctx'[u] = ctx[u]
<1>1. boot = "up" /\ IInv /\ TypeOK
  BY DEF InMemory, WInv, GroupState, IInv
<1>2. UNCHANGED <<home, logarea, dheader, cache, pinned, block_no, stage, i, boot>>
  BY DEF InMemory, walvars, disk, blocks
<1>3. CASE call_begin_op(t) \/ begin_op_sleep(t) \/ begin_op(t)
  BY <1>1, <1>2, <1>3 DEF TypeOK, Running, call_begin_op, begin_op_sleep, begin_op
<1>4. CASE end_op_test(t) \/ checkpoint_stamp(t) \/ end_op_reopen(t)
  BY <1>1, <1>2, <1>4 DEF TypeOK, Running, end_op_test, checkpoint_stamp, end_op_reopen
<1>5. CASE checkpoint_notify(t) \/ end_op_announce(t)
  BY <1>1, <1>2, <1>5 DEF TypeOK, Running, checkpoint_notify, end_op_announce,
     wakeup_last_persisted_ts, wakeup_log_used, wakeup
<1> QED BY <1>3, <1>4, <1>5 DEF InMemory

\* A step in memory keeps Persisted: the checkpoint that reports all
\* operations so far reports its own.
LEMMA MemoryPersisted ==
    ASSUME WInv, NEW t \in Thread, InMemory(t)
    PROVE  Persisted'
<1>1. boot = "up" /\ IInv /\ TypeOK /\ Timestamps /\ Persisted
  BY DEF InMemory, WInv, GroupState, IInv
<1> SUFFICES ASSUME NEW u \in Thread, pc'[u] \in {"notify", "reopen", "announce"}
             PROVE  ts'[u] <= last_persisted_ts'
  BY DEF Persisted
<1>2. CASE call_begin_op(t) \/ begin_op_sleep(t) \/ begin_op(t)
  BY <1>1, <1>2 DEF TypeOK, Persisted, call_begin_op, begin_op_sleep, begin_op
<1>3. CASE checkpoint_stamp(t)
  BY <1>1, <1>3 DEF TypeOK, Timestamps, checkpoint_stamp
<1>4. CASE end_op_test(t) \/ end_op_reopen(t)
  BY <1>1, <1>4 DEF TypeOK, Persisted, end_op_test, end_op_reopen
<1>5. CASE checkpoint_notify(t) \/ end_op_announce(t)
  BY <1>1, <1>5 DEF TypeOK, Persisted, checkpoint_notify, end_op_announce,
     wakeup_last_persisted_ts, wakeup_log_used, wakeup
<1> QED BY <1>2, <1>3, <1>4, <1>5 DEF InMemory

\* The steps of GroupCommit that only count and sleep keep the invariant.
LEMMA MemoryStep ==
    ASSUME WInv, NEW t \in Thread, InMemory(t)
    PROVE  WInv'
<1>1. /\ boot = "up" /\ header' = header
      /\ UNCHANGED <<home, logarea, dheader, cache, pinned, block_no, stage, i, boot>>
      /\ \A u \in Thread : pc'[u] = "persist" <=> pc[u] = "persist"
      /\ \A u \in Running : u \in Running' /\ ctx'[u] = ctx[u]
  BY MemoryFacts
<1>2. GroupState'
  BY <1>1, UpGroup DEF WNext
<1>3. \A p \in Proc : InReplay(p)' <=> InReplay(p)
  BY <1>1 DEF InReplay, Proc
<1>4. \A c \in Block : content(c)' = content(c)
  BY <1>1 DEF content
<1>5. WTypeOK'
  BY <1>1 DEF WInv, WTypeOK
<1>6. Headers'
  <2>1. Listing(dheader') /\ Listing(block_no')
    BY <1>1 DEF WInv, Headers
  <2> QED BY <1>1, <1>3, <2>1 DEF WInv, Headers, Proc
<1>7. Pinned'
  BY <1>1 DEF WInv, Pinned
<1>8. Clean'
  BY <1>1, <1>4 DEF WInv, Clean
<1>9. block_no \in Seq(Block) /\ \A k \in 1 .. Len(block_no) : block_no[k] \in Block
  BY DEF WInv, WTypeOK
<1>10. Logged'
  BY <1>1, <1>4, <1>9 DEF WInv, Logged
<1>11. Replayed'
  BY <1>1, <1>3, <1>4, <1>9 DEF WInv, Replayed
<1> QED BY <1>2, <1>5, <1>6, <1>7, <1>8, <1>10, <1>11, MemoryPersisted DEF WInv

Distinct(s) == \A j, k \in 1 .. Len(s) : s[j] = s[k] => j = k

Apart(r, s) == \A j \in 1 .. Len(r), k \in 1 .. Len(s) : r[j] # s[k]

\* q is the list of elements of S that r and s make.
Joined(S, r, s, q) ==
    /\ q \in Seq(S) /\ Len(q) = Len(r) + Len(s)
    /\ Distinct(q)
    /\ \A k \in 1 .. Len(q) : \/ \E m \in 1 .. Len(r) : q[k] = r[m]
                              \/ \E m \in 1 .. Len(s) : q[k] = s[m]
    /\ \A m \in 1 .. Len(r) : \E k \in 1 .. Len(q) : q[k] = r[m]
    /\ \A m \in 1 .. Len(s) : \E k \in 1 .. Len(q) : q[k] = s[m]

\* Two lists without repetition that share nothing make one.
LEMMA Appended ==
    ASSUME NEW S, NEW r \in Seq(S), NEW s \in Seq(S),
           Distinct(r), Distinct(s), Apart(r, s)
    PROVE  Joined(S, r, s, r \o s)
<1> DEFINE q == r \o s
<1>1. /\ q \in Seq(S) /\ Len(q) = Len(r) + Len(s)
      /\ \A k \in 1 .. Len(r) + Len(s) :
            q[k] = IF k <= Len(r) THEN r[k] ELSE s[k - Len(r)]
  OBVIOUS
<1>2. Len(r) \in Nat /\ Len(s) \in Nat
  OBVIOUS
<1> HIDE DEF q
<1>3. \A k \in 1 .. Len(r) : k \in 1 .. Len(q) /\ q[k] = r[k]
  BY <1>1, <1>2
<1>4. ASSUME NEW k \in 1 .. Len(s)
      PROVE  Len(r) + k \in 1 .. Len(q) /\ q[Len(r) + k] = s[k]
  <2>1. /\ Len(r) + k \in 1 .. Len(r) + Len(s) /\ ~ (Len(r) + k <= Len(r))
        /\ (Len(r) + k) - Len(r) = k
    BY <1>2
  <2> QED BY <1>1, <2>1
<1>5. ASSUME NEW k \in 1 .. Len(q)
      PROVE  k \in 1 .. Len(r) \/ \E m \in 1 .. Len(s) : k = Len(r) + m
  <2>1. CASE k > Len(r)
    <3>1. k - Len(r) \in 1 .. Len(s) /\ k = Len(r) + (k - Len(r))
      BY <1>1, <1>2, <2>1
    <3> QED BY <3>1
  <2> QED BY <1>1, <1>2, <2>1
<1>6. ASSUME NEW j \in 1 .. Len(q), NEW k \in 1 .. Len(q), q[j] = q[k]
      PROVE  j = k
  <2>1. CASE j \in 1 .. Len(r) /\ k \in 1 .. Len(r)
    BY <1>3, <1>6, <2>1 DEF Distinct
  <2>2. ASSUME NEW m \in 1 .. Len(s), j = Len(r) + m, k \in 1 .. Len(r)
        PROVE  FALSE
    BY <1>3, <1>4, <1>6, <2>2 DEF Apart
  <2>3. ASSUME NEW m \in 1 .. Len(s), k = Len(r) + m, j \in 1 .. Len(r)
        PROVE  FALSE
    BY <1>3, <1>4, <1>6, <2>3 DEF Apart
  <2>4. ASSUME NEW m \in 1 .. Len(s), NEW n \in 1 .. Len(s),
               j = Len(r) + m, k = Len(r) + n
        PROVE  j = k
    <3>1. q[j] = s[m] /\ q[k] = s[n]
      BY <1>4, <2>4
    <3> QED BY <1>6, <2>4, <3>1 DEF Distinct
  <2> QED BY <1>5, <2>1, <2>2, <2>3, <2>4
<1>7. \A k \in 1 .. Len(q) : \/ \E m \in 1 .. Len(r) : q[k] = r[m]
                             \/ \E m \in 1 .. Len(s) : q[k] = s[m]
  BY Zenon, <1>3, <1>4, <1>5
<1>8. /\ \A m \in 1 .. Len(r) : \E k \in 1 .. Len(q) : q[k] = r[m]
      /\ \A m \in 1 .. Len(s) : \E k \in 1 .. Len(q) : q[k] = s[m]
  BY <1>3, <1>4
<1>9. Joined(S, r, s, q)
  BY <1>1, <1>6, <1>7, <1>8 DEF Joined, Distinct
<1> QED BY <1>9 DEF q

\* A commit: the header grows by the blocks that are new, and still fits.
LEMMA CommitHeaders ==
    ASSUME WInv, NEW t \in Thread, end_op_commit(t)
    PROVE  /\ block_no' \in Seq(Block) /\ Listing(block_no')
           /\ Len(block_no') = Cardinality(header')
           /\ header' = {block_no'[k] : k \in 1 .. Len(block_no')}
<1>1. /\ boot = "up" /\ pc[t] = "running" /\ header' = header \cup ctx[t]
      /\ IInv /\ TypeOK /\ CommitFits /\ LogAccounting
  BY Fits DEF end_op_commit, end_op, commit, WInv, GroupState, IInv
<1>2. PICK s \in orders(ctx[t] \ header) : block_no' = block_no \o s
  BY DEF end_op_commit
<1> DEFINE D == ctx[t] \ header
<1>3. /\ IsFiniteSet(header) /\ IsFiniteSet(ctx[t]) /\ IsFiniteSet(D)
      /\ D \subseteq Block
  <2>1. IsFiniteSet(header) /\ IsFiniteSet(ctx[t]) /\ ctx[t] \subseteq Block
    BY <1>1 DEF TypeOK
  <2> QED BY <2>1, FS_Subset
<1>4. /\ s \in Seq(D) /\ Len(s) = Cardinality(D)
      /\ D = {s[k] : k \in 1 .. Len(s)}
      /\ \A j, k \in 1 .. Len(s) : s[j] = s[k] => j = k
  BY Zenon, <1>3, Enumeration
<1>5. /\ block_no \in Seq(Block) /\ Len(block_no) = Cardinality(header)
      /\ header = {block_no[k] : k \in 1 .. Len(block_no)}
      /\ \A j, k \in 1 .. Len(block_no) : block_no[j] = block_no[k] => j = k
  BY <1>1 DEF WInv, WTypeOK, Headers, Listing
<1>6. s \in Seq(Block)
  BY <1>3, <1>4
<1>7. Apart(block_no, s)
  <2>1. \A j \in 1 .. Len(block_no) : block_no[j] \in header
    BY Zenon, <1>5
  <2>2. \A k \in 1 .. Len(s) : s[k] \in D
    BY <1>4
  <2> QED BY <2>1, <2>2 DEF Apart
<1>12. /\ block_no \in Seq(Block) /\ s \in Seq(Block)
       /\ Distinct(block_no) /\ Distinct(s)
  BY Zenon, <1>4, <1>5, <1>6 DEF Distinct
<1>10. /\ block_no' \in Seq(Block)
       /\ Len(block_no') = Len(block_no) + Len(s)
       /\ \A j, k \in 1 .. Len(block_no') : block_no'[j] = block_no'[k] => j = k
       /\ \A k \in 1 .. Len(block_no') :
             \/ \E m \in 1 .. Len(block_no) : block_no'[k] = block_no[m]
             \/ \E m \in 1 .. Len(s) : block_no'[k] = s[m]
       /\ \A m \in 1 .. Len(block_no) :
             \E k \in 1 .. Len(block_no') : block_no'[k] = block_no[m]
       /\ \A m \in 1 .. Len(s) : \E k \in 1 .. Len(block_no') : block_no'[k] = s[m]
  <2>1. Joined(Block, block_no, s, block_no \o s)
    BY <1>7, <1>12, Appended
  <2>2. Joined(Block, block_no, s, block_no')
    BY <1>2, <2>1
  <2> QED BY <2>2 DEF Joined, Distinct
<1>8. Cardinality(header') = Cardinality(header) + Cardinality(D)
  <2>1. header' = header \cup D /\ header \cap D = {}
    BY <1>1, Zenon
  <2>2. Cardinality(header) \in Nat /\ Cardinality(D) \in Nat /\ Cardinality({}) = 0
    BY <1>3, FS_CardinalityType, FS_EmptySet
  <2>3. Cardinality(header \cup D)
          = Cardinality(header) + Cardinality(D) - Cardinality(header \cap D)
    BY <1>3, FS_Union
  <2>4. /\ Cardinality(header') = Cardinality(header \cup D)
        /\ Cardinality(header \cap D) = Cardinality({})
    BY <2>1, Zenon
  <2> QED BY <2>2, <2>3, <2>4
<1>9. Cardinality(header') <= LOG_SIZE
  <2>1. Checkpointing = {}
    BY <1>1, NoCheckpoint DEF Checkpointing
  <2>2. Cardinality(header \cup ctx[t]) <= log_size
    BY <1>1 DEF CommitFits, Running
  <2> QED BY <1>1, <2>1, <2>2 DEF LogAccounting
<1>11. header' = {block_no'[k] : k \in 1 .. Len(block_no')}
  <2>1. ASSUME NEW b \in header'
        PROVE  \E k \in 1 .. Len(block_no') : b = block_no'[k]
    <3>1. CASE b \in header
      <4>1. PICK m \in 1 .. Len(block_no) : b = block_no[m]
        BY Zenon, <1>5, <3>1
      <4> QED BY <1>10, <4>1
    <3>2. CASE b \in D
      <4>1. PICK m \in 1 .. Len(s) : b = s[m]
        BY Zenon, <1>4, <3>2
      <4> QED BY <1>10, <4>1
    <3> QED BY <1>1, <3>1, <3>2
  <2>2. \A k \in 1 .. Len(block_no') : block_no'[k] \in header'
    BY Zenon, <1>1, <1>4, <1>5, <1>10
  <2> QED BY <2>1, <2>2, Zenon
<1>13. Len(block_no') = Cardinality(header')
  BY Zenon, <1>4, <1>5, <1>8, <1>10
<1>14. Listing(block_no')
  BY <1>9, <1>10, <1>13 DEF Listing
<1> QED BY <1>10, <1>11, <1>13, <1>14, Zenon

\* No replay and no writing of the log goes on while an operation runs.
LEMMA NoReplay ==
    ASSUME WInv, boot = "up", NEW t \in Thread, pc[t] = "running"
    PROVE  /\ \A u \in Thread : pc[u] # "persist"
           /\ \A p \in Proc : ~InReplay(p)
           /\ dheader = <<>>
<1> USE WALAssumption
<1>1. IInv
  BY DEF WInv, GroupState
<1>2. \A u \in Thread : pc[u] # "persist"
  BY <1>1, NoCheckpoint DEF CheckpointPC
<1>3. \A p \in Proc : ~InReplay(p)
  BY <1>2 DEF InReplay, Proc
<1> QED BY <1>2, <1>3 DEF WInv, Headers, Proc

\* A commit appends the blocks of its operation to the header and keeps the
\* invariant.
LEMMA CommitStep ==
    ASSUME WInv, NEW t \in Thread, end_op_commit(t)
    PROVE  WInv'
<1> USE WALAssumption
<1>1. /\ boot = "up" /\ boot' = "up" /\ pc[t] = "running"
      /\ header' = header \cup ctx[t] /\ ctx' = ctx /\ ts' = ts
      /\ last_persisted_ts' = last_persisted_ts
      /\ stage' = [stage EXCEPT ![t] = "log"]
      /\ i' = [i EXCEPT ![t] = 1]
      /\ UNCHANGED <<home, logarea, dheader, cache, pinned>>
  BY DEF end_op_commit, end_op, commit, disk, blocks
<1>2. GroupState' /\ TypeOK /\ WTypeOK /\ t \in Proc
  BY <1>1, UpGroup DEF WNext, WInv, Proc
<1>3. \A u \in Thread :
         /\ pc[u] # "persist"
         /\ pc'[u] = "persist" => u = t
         /\ pc'[u] \in {"notify", "reopen", "announce"} => pc'[u] = pc[u]
         /\ u # t /\ pc[u] = "running" => pc'[u] = "running"
  <2>1. PICK a \in {"persist", "end_sleep", "idle"} : pc' = wakeup_log_used(t, a)
    BY DEF end_op_commit, end_op
  <2>2. \A u \in Thread : pc[u] # "persist"
    BY <1>1, NoReplay
  <2>3. \A u \in Thread : pc'[u] = IF u = t THEN a ELSE IF pc[u] = "begin_sleep" THEN "begin" ELSE pc[u]
    BY <2>1 DEF wakeup_log_used, wakeup
  <2> QED BY <2>2, <2>3
<1>4. /\ block_no' \in Seq(Block) /\ Listing(block_no')
      /\ Len(block_no') = Cardinality(header')
      /\ header' = {block_no'[k] : k \in 1 .. Len(block_no')}
  BY CommitHeaders
<1>5. \A p \in Proc : ~InReplay(p)'
  BY <1>1, <1>2, <1>3 DEF InReplay, Proc, WTypeOK
<1>6. WTypeOK'
  <2>1. stage' \in [Proc -> {"log", "replay"}] /\ i' \in [Proc -> Nat \ {0}]
    <3>1. stage \in [Proc -> {"log", "replay"}] /\ i \in [Proc -> Nat \ {0}]
      BY <1>1, Typed
    <3> QED BY <1>1, <1>2, <3>1
  <2> QED BY <1>1, <1>2, <1>4, <2>1 DEF WTypeOK
<1>7. Headers'
  <2>1. dheader' = <<>>
    BY <1>1, NoReplay
  <2>2. Listing(dheader')
    BY <1>1 DEF WInv, Headers
  <2> QED BY Zenon, <1>4, <1>5, <2>1, <2>2 DEF Headers
<1>8. Persisted'
  BY <1>1, <1>3 DEF WInv, Persisted
<1>9. Pinned'
  BY <1>1, <1>3 DEF WInv, Pinned, Running
<1>10. Clean'
  BY <1>1 DEF WInv, Clean, content
<1>11. Logged'
  <2>1. i'[t] = 1
    BY <1>1, <1>2 DEF WTypeOK
  <2>2. ASSUME NEW u \in Thread, pc'[u] = "persist", NEW k \in 1 .. Len(block_no')
        PROVE  ~(k < i'[u])
    <3>1. i'[u] = 1 /\ Len(block_no') \in Nat
      BY <1>3, <1>4, <2>1, <2>2
    <3> QED BY <3>1
  <2> QED BY <2>2 DEF Logged
<1>12. Replayed'
  BY <1>5 DEF Replayed
<1> QED BY <1>2, <1>6, <1>7, <1>8, <1>9, <1>10, <1>11, <1>12 DEF WInv

\* A write of an operation: the block is recorded and pinned with it.
LEMMA UpdateStep ==
    ASSUME WInv, NEW t \in Thread, NEW b \in Block, NEW d \in Data, update(t, b, d)
    PROVE  WInv'
<1> USE WALAssumption
<1>1. /\ boot = "up" /\ boot' = "up" /\ pc[t] = "running"
      /\ cache' = [cache EXCEPT ![b] = d] /\ pinned' = pinned \cup {b}
      /\ ctx' = [ctx EXCEPT ![t] = @ \cup {b}]
      /\ UNCHANGED <<header, last_persisted_ts, pc, ts>>
      /\ UNCHANGED <<home, logarea, dheader, block_no, stage, i>>
  BY DEF update, sync, pin, disk
<1>2. GroupState' /\ TypeOK /\ WTypeOK
  BY <1>1, UpGroup DEF WNext, WInv
<1>3. /\ \A u \in Thread : pc'[u] # "persist"
      /\ \A p \in Proc : ~InReplay(p)'
      /\ dheader' = <<>>
  BY <1>1, NoReplay DEF InReplay
<1>4. WTypeOK'
  BY <1>1, <1>2 DEF WTypeOK
<1>5. Headers'
  <2>1. Listing(dheader') /\ Listing(block_no')
    BY <1>1 DEF WInv, Headers
  <2> QED BY <1>1, <1>3, <2>1 DEF WInv, Headers
<1>6. Persisted'
  BY <1>1 DEF WInv, Persisted
<1>7. Pinned'
  <2>1. t \in Running' /\ b \in ctx'[t] /\ Running' = Running
    BY <1>1, <1>2 DEF Running, TypeOK
  <2>2. \A u \in Thread : ctx[u] \subseteq ctx'[u]
    BY <1>1, <1>2 DEF TypeOK
  <2> QED BY <1>1, <2>1, <2>2 DEF WInv, Pinned, Running
<1>8. Clean'
  BY <1>1, <1>2 DEF WInv, Clean, content, WTypeOK
<1>9. Logged' /\ Replayed'
  BY <1>3 DEF Logged, Replayed
<1> QED BY <1>2, <1>4, <1>5, <1>6, <1>7, <1>8, <1>9 DEF WInv

\* While a checkpoint writes the log there is no replay.
LEMMA LogStage ==
    ASSUME WInv, boot = "up", NEW t \in Thread, pc[t] = "persist", stage[t] = "log"
    PROVE  /\ \A u \in Thread : pc[u] = "persist" => u = t
           /\ \A p \in Proc : ~InReplay(p)
           /\ dheader = <<>>
           /\ Running = {}
<1> USE WALAssumption
<1>1. IInv
  BY DEF WInv, GroupState
<1>2. Running = {} /\ \A u \in Thread : pc[u] = "persist" => u = t
  BY <1>1, Alone DEF CheckpointPC
<1>3. \A p \in Proc : ~InReplay(p)
  BY <1>2 DEF InReplay, Proc
<1> QED BY <1>2, <1>3 DEF WInv, Headers, Proc

\* The copy of a block into the log changes no content.
LEMMA LogContent ==
    ASSUME WInv, NEW t \in Thread, checkpoint_log(t)
    PROVE  /\ boot = "up" /\ pc[t] = "persist" /\ stage[t] = "log" /\ UNCHANGED vars
           /\ UNCHANGED <<home, dheader, pinned, block_no, stage, boot>>
           /\ i[t] \in 1 .. Len(block_no) /\ i[t] \in 1 .. LOG_SIZE
           /\ i' = [i EXCEPT ![t] = @ + 1]
           /\ logarea' = [logarea EXCEPT ![i[t]] = content(block_no[i[t]])]
           /\ \A c \in Block : content(c)' = content(c)
           /\ WTypeOK'
<1> USE WALAssumption, ConstantsAssumption
<1>1. /\ boot = "up" /\ pc[t] = "persist" /\ stage[t] = "log" /\ UNCHANGED vars
      /\ UNCHANGED <<home, dheader, pinned, block_no, stage, boot>>
      /\ i[t] <= Len(block_no)
      /\ cache' = [cache EXCEPT ![block_no[i[t]]] = content(block_no[i[t]])]
      /\ logarea' = [logarea EXCEPT ![i[t]] = content(block_no[i[t]])]
      /\ i' = [i EXCEPT ![t] = @ + 1]
  BY DEF checkpoint_log
<1>2. WTypeOK /\ t \in Proc /\ Len(block_no) <= LOG_SIZE /\ Len(block_no) \in Nat
  <2>1. WTypeOK /\ Headers /\ t \in Proc
    BY DEF WInv, Proc
  <2>2. Listing(block_no)
    BY <1>1, <2>1 DEF Headers
  <2>3. block_no \in Seq(Block)
    BY <2>1 DEF WTypeOK
  <2> QED BY <2>1, <2>2, <2>3 DEF Listing
<1>3. i[t] \in 1 .. Len(block_no) /\ i[t] \in 1 .. LOG_SIZE
  BY <1>1, <1>2 DEF WTypeOK
<1>4. PICK b \in Block : b = block_no[i[t]]
  BY <1>2, <1>3 DEF WTypeOK
<1>5. \A c \in Block : content(c) \in Data
  BY <1>2 DEF content, WTypeOK
<1>6. \A c \in Block : content(c)' = content(c)
  BY <1>1, <1>2, <1>4, <1>5 DEF content, WTypeOK
<1>7. WTypeOK'
  BY <1>1, <1>2, <1>3, <1>4, <1>5 DEF WTypeOK
<1> QED BY <1>1, <1>3, <1>6, <1>7
-----------------------------------------------------------------------------

\* checkpoint writes the next block into the log; the invariant counts it.
LEMMA LogStep ==
    ASSUME WInv, NEW t \in Thread, checkpoint_log(t)
    PROVE  WInv'
<1> USE WALAssumption
<1>1. /\ boot = "up" /\ pc[t] = "persist" /\ stage[t] = "log" /\ UNCHANGED vars
      /\ UNCHANGED <<home, dheader, pinned, block_no, stage, boot>>
      /\ i[t] \in 1 .. Len(block_no) /\ i[t] \in 1 .. LOG_SIZE
      /\ i' = [i EXCEPT ![t] = @ + 1]
      /\ logarea' = [logarea EXCEPT ![i[t]] = content(block_no[i[t]])]
      /\ \A c \in Block : content(c)' = content(c)
      /\ WTypeOK'
  BY LogContent
<1>2. UNCHANGED <<header, last_persisted_ts, pc, ts, ctx>>
  BY <1>1 DEF vars
<1>3. GroupState'
  BY <1>1, UpGroup DEF WNext
<1>4. /\ \A u \in Thread : pc[u] = "persist" => u = t
      /\ \A p \in Proc : ~InReplay(p) /\ ~InReplay(p)'
  BY <1>1, <1>2, LogStage DEF InReplay
<1>5. Headers'
  <2>1. Listing(dheader') /\ Listing(block_no')
    BY <1>1 DEF WInv, Headers
  <2> QED BY <1>1, <1>2, <1>4, <2>1 DEF WInv, Headers, Proc
<1>6. Persisted' /\ Pinned'
  BY <1>1, <1>2 DEF WInv, Persisted, Pinned, Running
<1>7. Clean'
  BY <1>1 DEF WInv, Clean
<1>8. Logged'
  <2>1. /\ \A k \in 1 .. Len(block_no) : k < i[t] => logarea[k] = content(block_no[k])
    BY <1>1 DEF WInv, Logged
  <2>2. /\ block_no \in Seq(Block) /\ Len(block_no) \in Nat
        /\ \A k \in 1 .. Len(block_no) : block_no[k] \in Block
        /\ logarea \in [1 .. LOG_SIZE -> Data] /\ i'[t] = i[t] + 1
    BY <1>1, Typed
  <2>3. ASSUME NEW k \in 1 .. Len(block_no), k < i'[t]
        PROVE  logarea'[k] = content(block_no[k])
    <3>1. CASE k = i[t]
      BY <1>1, <2>2, <3>1
    <3>2. CASE k # i[t]
      <4>1. k < i[t] /\ logarea'[k] = logarea[k]
        BY <1>1, <2>2, <2>3, <3>2
      <4> QED BY <2>1, <4>1
    <3> QED BY <3>1, <3>2
  <2> QED BY <1>1, <1>2, <1>4, <2>2, <2>3 DEF Logged
<1>9. Replayed'
  BY <1>4 DEF Replayed
<1> QED BY <1>1, <1>3, <1>5, <1>6, <1>7, <1>8, <1>9 DEF WInv

\* The write of the header of a group without blocks ends the checkpoint.
LEMMA EmptyHeaderStep ==
    ASSUME WInv, NEW t \in Thread, write_header(t), block_no = <<>>
    PROVE  WInv'
<1> USE WALAssumption
<1>1. /\ boot = "up" /\ boot' = "up" /\ pc[t] = "persist" /\ stage[t] = "log"
      /\ header' = {} /\ pc' = [pc EXCEPT ![t] = "stamp"] /\ dheader' = <<>>
      /\ UNCHANGED <<last_persisted_ts, ts, ctx>>
      /\ UNCHANGED <<home, logarea, cache, pinned, block_no, stage, i>>
  BY DEF write_header, checkpoint_persist, full_header, blocks
<1>2. GroupState' /\ TypeOK /\ WTypeOK
  BY <1>1, UpGroup DEF WNext, WInv
<1>3. \A u \in Thread : pc[u] = "persist" => u = t
  BY <1>1, LogStage
<1>4. /\ \A u \in Thread : pc'[u] # "persist"
      /\ \A p \in Proc : ~InReplay(p)'
  BY <1>1, <1>2, <1>3 DEF InReplay, Proc, TypeOK
<1>5. WTypeOK'
  BY <1>1, <1>2 DEF WTypeOK
<1>6. header = {}
  <2>1. header = {block_no[k] : k \in 1 .. Len(block_no)} /\ Len(block_no) = 0
    BY <1>1 DEF WInv, Headers
  <2> QED BY <2>1
<1>7. Headers'
  <2>1. Listing(dheader') /\ Listing(block_no')
    BY <1>1 DEF WInv, Headers
  <2>2. /\ Len(block_no) = Cardinality(header)
        /\ header = {block_no[k] : k \in 1 .. Len(block_no)}
    BY <1>1 DEF WInv, Headers
  <2>3. header' = header /\ block_no' = block_no
    BY <1>1, <1>6
  <2> QED BY Zenon, <1>1, <1>4, <2>1, <2>2, <2>3 DEF Headers
<1>8. Persisted'
  BY <1>1, <1>2 DEF WInv, Persisted, TypeOK
<1>9. Pinned'
  BY <1>1, <1>6, LogStage DEF WInv, Pinned
<1>10. Clean'
  BY <1>1 DEF WInv, Clean, content
<1>11. Logged' /\ Replayed'
  BY <1>4 DEF Logged, Replayed
<1> QED BY <1>2, <1>5, <1>7, <1>8, <1>9, <1>10, <1>11 DEF WInv

\* The write of any other header begins its replay.
LEMMA HeaderStep ==
    ASSUME WInv, NEW t \in Thread, write_header(t), block_no # <<>>
    PROVE  WInv'
<1> USE WALAssumption
<1>1. /\ boot = "up" /\ boot' = "up" /\ pc[t] = "persist" /\ stage[t] = "log"
      /\ i[t] > Len(block_no) /\ dheader' = block_no
      /\ stage' = [stage EXCEPT ![t] = "replay"] /\ i' = [i EXCEPT ![t] = 1]
      /\ UNCHANGED <<header, last_persisted_ts, pc, ts, ctx>>
      /\ UNCHANGED <<home, logarea, cache, pinned, block_no>>
  BY DEF write_header, LogWritten, full_header, vars, blocks
<1>2. GroupState' /\ TypeOK /\ WTypeOK /\ t \in Proc
  BY <1>1, UpGroup DEF WNext, WInv, Proc
<1>3. /\ \A u \in Thread : pc[u] = "persist" => u = t
      /\ \A p \in Proc : InReplay(p)' => p = t
      /\ InReplay(t)'
  BY <1>1, <1>2, LogStage DEF InReplay, Proc, WTypeOK
<1>4. WTypeOK'
  BY <1>1, <1>2 DEF WTypeOK
<1>5. Headers'
  <2>1. Listing(dheader') /\ Listing(block_no')
    BY <1>1 DEF WInv, Headers
  <2> QED BY <1>1, <1>3, <2>1 DEF WInv, Headers
<1>6. Persisted' /\ Pinned'
  BY <1>1 DEF WInv, Persisted, Pinned, Running
<1>7. Clean'
  BY <1>1 DEF WInv, Clean, content
<1>8. Logged'
  BY <1>1, <1>2, <1>3 DEF Logged, WTypeOK
<1>9. Replayed'
  <2>1. i'[t] = 1 /\ i \in [Proc -> Nat \ {0}] /\ Len(block_no) \in Nat
    BY <1>1, <1>2 DEF WTypeOK
  <2>2. \A k \in 1 .. Len(block_no) : k < i[t]
    BY <1>1, <1>2, <2>1
  <2>3. \A k \in 1 .. Len(block_no) : content(block_no[k])' = logarea'[k]
    BY <1>1, <2>2 DEF WInv, Logged, content
  <2>4. \A k \in 1 .. Len(block_no) : ~ (k < i'[t])
    BY <2>1
  <2> QED BY <1>1, <1>3, <2>3, <2>4 DEF Replayed
<1> QED BY <1>2, <1>4, <1>5, <1>6, <1>7, <1>8, <1>9 DEF WInv

\* Only one thread replays, and only while no operation runs.
LEMMA ReplayAlone ==
    ASSUME WInv, NEW p \in Proc, InReplay(p)
    PROVE  /\ dheader = block_no /\ Listing(block_no) /\ boot # "off"
           /\ \A q \in Proc : InReplay(q) => q = p
           /\ p # Boot => /\ p \in Thread /\ boot = "up" /\ pc[p] = "persist"
                          /\ Running = {} /\ IInv
                          /\ \A u \in Thread : pc[u] = "persist" => u = p
           /\ p = Boot => /\ boot = "replay" /\ pinned = {}
<1> USE WALAssumption
<1>1. /\ dheader = block_no /\ boot # "off" /\ Listing(block_no)
      /\ p # Boot => p \in Thread /\ boot = "up" /\ pc[p] = "persist"
      /\ p = Boot => boot = "replay" /\ pinned = {}
  BY DEF WInv, Headers, GroupState, InReplay, Proc
<1>2. CASE p = Boot
  BY <1>1, <1>2 DEF InReplay, Proc
<1>3. CASE p # Boot
  <2>1. IInv
    BY <1>1, <1>3 DEF WInv, GroupState
  <2>2. Running = {} /\ \A u \in Thread : pc[u] = "persist" => u = p
    BY <1>1, <1>3, <2>1, Alone DEF CheckpointPC
  <2> QED BY <1>1, <1>3, <2>1, <2>2 DEF InReplay, Proc
<1> QED BY <1>2, <1>3

\* A replay copies a block that is in the log to its place.
LEMMA ReplayFacts ==
    ASSUME WInv, NEW p \in Proc, replay_block(p)
    PROVE  /\ InReplay(p) /\ UNCHANGED vars
           /\ UNCHANGED <<logarea, dheader, block_no, stage, boot>>
           /\ i[p] \in 1 .. Len(block_no) /\ block_no[i[p]] \in Block
           /\ logarea[i[p]] \in Data
           /\ home' = [home EXCEPT ![block_no[i[p]]] = logarea[i[p]]]
           /\ pinned' = pinned \ {block_no[i[p]]}
           /\ i' = [i EXCEPT ![p] = @ + 1]
           /\ \A c \in Block :
                 content(c)' = IF c = block_no[i[p]] THEN logarea[i[p]] ELSE content(c)
           /\ WTypeOK'
<1> USE WALAssumption, ConstantsAssumption
<1>1. /\ InReplay(p) /\ UNCHANGED vars
      /\ UNCHANGED <<logarea, dheader, block_no, stage, boot>>
      /\ i[p] <= Len(block_no)
      /\ cache' = [cache EXCEPT ![block_no[i[p]]] = logarea[i[p]]]
      /\ home' = [home EXCEPT ![block_no[i[p]]] = logarea[i[p]]]
      /\ pinned' = pinned \ {block_no[i[p]]}
      /\ i' = [i EXCEPT ![p] = @ + 1]
  BY DEF replay_block, unpin
<1>2. WTypeOK /\ Len(block_no) <= LOG_SIZE /\ Len(block_no) \in Nat
  <2>1. Listing(block_no)
    BY <1>1, ReplayAlone
  <2> QED BY <2>1, Typed DEF Listing
<1>3. i[p] \in 1 .. Len(block_no) /\ i[p] \in 1 .. LOG_SIZE
  BY <1>1, <1>2 DEF WTypeOK
<1>4. PICK b \in Block : b = block_no[i[p]]
  BY <1>2, <1>3 DEF WTypeOK
<1>5. logarea[i[p]] \in Data
  BY <1>2, <1>3 DEF WTypeOK
<1>6. \A c \in Block :
         content(c)' = IF c = block_no[i[p]] THEN logarea[i[p]] ELSE content(c)
  BY <1>1, <1>2, <1>4, <1>5 DEF content, WTypeOK
<1>7. WTypeOK'
  <2>1. /\ home \in [Block -> Data] /\ cache \in [Block -> Data \cup {Absent}] /\ i \in [Proc -> Nat \ {0}]
        /\ logarea \in [1 .. LOG_SIZE -> Data] /\ dheader \in Seq(Block) /\ block_no \in Seq(Block)
        /\ stage \in [Proc -> {"log", "replay"}] /\ boot \in {"off", "replay", "up"}
    BY <1>2 DEF WTypeOK
  <2>2. home' \in [Block -> Data] /\ cache' \in [Block -> Data \cup {Absent}]
    BY <1>1, <1>4, <1>5, <2>1
  <2>3. i' \in [Proc -> Nat \ {0}]
    BY <1>1, <2>1
  <2> QED BY <1>1, <2>1, <2>2, <2>3 DEF WTypeOK
<1> QED BY <1>1, <1>3, <1>4, <1>5, <1>6, <1>7

\* A turn of the replay, by a checkpoint or at the start, copies a block from
\* the log to its place and keeps the invariant.
LEMMA ReplayStep ==
    ASSUME WInv, NEW p \in Proc, replay_block(p)
    PROVE  WInv'
<1> USE WALAssumption
<1>1. /\ InReplay(p) /\ UNCHANGED vars
      /\ UNCHANGED <<logarea, dheader, block_no, stage, boot>>
      /\ i[p] \in 1 .. Len(block_no) /\ block_no[i[p]] \in Block
      /\ logarea[i[p]] \in Data
      /\ home' = [home EXCEPT ![block_no[i[p]]] = logarea[i[p]]]
      /\ pinned' = pinned \ {block_no[i[p]]}
      /\ i' = [i EXCEPT ![p] = @ + 1]
      /\ \A c \in Block :
            content(c)' = IF c = block_no[i[p]] THEN logarea[i[p]] ELSE content(c)
      /\ WTypeOK'
  BY ReplayFacts
<1>2. UNCHANGED <<header, log_size, log_used, op_count, last_allocated_ts,
                  last_persisted_ts, pc, ts, ctx, log_size_copy>>
  BY <1>1 DEF vars
<1>3. /\ dheader = block_no /\ Listing(block_no)
      /\ \A q \in Proc : InReplay(q) => q = p
      /\ p # Boot => /\ p \in Thread /\ boot = "up"
                     /\ \A u \in Thread : pc[u] = "persist" => u = p
      /\ p = Boot => boot = "replay" /\ pinned = {}
  BY <1>1, ReplayAlone
<1>4. \A q \in Proc : InReplay(q)' <=> InReplay(q)
  BY <1>1, <1>2 DEF InReplay
<1>5. GroupState'
  <2>1. CASE p = Boot
    <3>1. boot' = "replay" /\ pinned' = {} /\ boot = "replay"
      BY <1>1, <1>3, <2>1
    <3> QED BY <1>1, <1>2, <3>1 DEF WInv, GroupState
  <2>2. CASE p # Boot
    <3>1. WNext
      BY DEF WNext
    <3> QED BY <1>1, <1>3, <2>2, <3>1, UpGroup
  <2> QED BY <2>1, <2>2
<1>6. Headers'
  <2>1. Listing(dheader') /\ Listing(block_no')
    BY <1>1, <1>3
  <2> QED BY <1>1, <1>2, <1>4, <2>1 DEF WInv, Headers, Proc
<1>7. Persisted' /\ Pinned'
  BY <1>1, <1>2 DEF WInv, Persisted, Pinned, Running
<1>8. Clean'
  BY <1>1 DEF WInv, Clean, WTypeOK
<1>9. Logged'
  <2>1. \A u \in Thread : pc[u] = "persist" => boot # "up" \/ stage[u] = "replay"
    BY <1>1, <1>3 DEF InReplay
  <2> QED BY <1>1, <1>2, <2>1 DEF Logged
<1>10. Replayed'
  <2>1. /\ \A k \in 1 .. Len(block_no) : k < i[p] => home[block_no[k]] = logarea[k]
        /\ p # Boot =>
              /\ \A k \in 1 .. Len(block_no) : content(block_no[k]) = logarea[k]
              /\ \A k \in 1 .. Len(block_no) : k < i[p] => block_no[k] \notin pinned
    BY <1>1 DEF WInv, Replayed
  <2>2. /\ \A k \in 1 .. Len(block_no) : block_no[k] \in Block
        /\ \A k \in 1 .. Len(block_no) : block_no[k] = block_no[i[p]] => k = i[p]
        /\ home \in [Block -> Data] /\ i'[p] = i[p] + 1 /\ i[p] \in Nat
        /\ Len(block_no) \in Nat
    <3>1. \A k \in 1 .. Len(block_no) : block_no[k] = block_no[i[p]] => k = i[p]
      BY <1>1, <1>3 DEF Listing
    <3> QED BY <1>1, <3>1, Typed
  <2>3. ASSUME NEW k \in 1 .. Len(block_no), k < i'[p]
        PROVE  /\ home'[block_no[k]] = logarea[k]
               /\ p # Boot => block_no[k] \notin pinned'
    <3>1. CASE k = i[p]
      BY <1>1, <2>2, <3>1
    <3>2. CASE k # i[p]
      <4>1. k < i[p]
        <5>1. k \in Int /\ i[p] \in Int /\ k < i[p] + 1
          BY <2>2, <2>3
        <5> QED BY <3>2, <5>1
      <4>2. block_no[k] # block_no[i[p]]
        BY Zenon, <2>2, <3>2
      <4>3. home[block_no[k]] = logarea[k] /\ (p # Boot => block_no[k] \notin pinned)
        BY <2>1, <4>1
      <4> QED BY <1>1, <2>2, <4>2, <4>3
    <3> QED BY <3>1, <3>2
  <2>4. p # Boot => \A k \in 1 .. Len(block_no) : content(block_no[k])' = logarea[k]
    <3> SUFFICES ASSUME p # Boot, NEW k \in 1 .. Len(block_no)
                 PROVE  content(block_no[k])' = logarea[k]
      OBVIOUS
    <3>1. PICK c \in Block : c = block_no[k]
      BY <2>2
    <3>2. content(c)' = logarea[k]
      BY <1>1, <2>1, <2>2, <3>1
    <3> QED BY <1>1, <3>1, <3>2 DEF content
  <2> QED BY <1>1, <1>3, <1>4, <2>3, <2>4 DEF Replayed
<1> QED BY <1>1, <1>5, <1>6, <1>7, <1>8, <1>9, <1>10 DEF WInv

\* The end of a replay: nothing is pinned any more and the header is empty.
LEMMA ClearStep ==
    ASSUME WInv, NEW p \in Proc, replay_clear(p)
    PROVE  WInv'
<1> USE WALAssumption
<1>1. /\ InReplay(p) /\ i[p] > Len(block_no) /\ block_no' = <<>> /\ dheader' = <<>>
      /\ boot' = "up" /\ header' = {} /\ ts' = ts /\ ctx' = ctx
      /\ last_persisted_ts' = last_persisted_ts
      /\ pc' = IF p = Boot THEN pc ELSE [pc EXCEPT ![p] = "stamp"]
      /\ UNCHANGED <<home, logarea, cache, pinned, stage, i>>
  BY DEF replay_clear, checkpoint_persist, empty_header, InReplay, blocks
<1>2. /\ boot # "off"
      /\ p # Boot => /\ p \in Thread /\ boot = "up" /\ Running = {} /\ IInv
                     /\ \A u \in Thread : pc[u] = "persist" => u = p
      /\ p = Boot => boot = "replay" /\ pinned = {}
  BY <1>1, ReplayAlone
<1>3. GroupState'
  <2>1. CASE p = Boot
    <3>1. Init'
      BY <1>1, <1>2, <2>1 DEF WInv, GroupState, Init, replay_clear
    <3>2. IInv'
      BY <3>1, InitInv, PTL
    <3> QED BY <1>1, <3>2 DEF GroupState
  <2>2. CASE p # Boot
    <3>1. WNext
      BY DEF WNext
    <3> QED BY <1>1, <1>2, <2>2, <3>1, UpGroup
  <2> QED BY <2>1, <2>2
<1>4. \A u \in Thread : pc'[u] # "persist" /\ (pc'[u] = pc[u] \/ pc'[u] = "stamp")
  <2>1. CASE p = Boot
    BY <1>1, <1>2, <2>1 DEF WInv, GroupState
  <2>2. CASE p # Boot
    BY <1>1, <1>2, <2>2 DEF IInv, TypeOK
  <2> QED BY <2>1, <2>2
<1>5. \A q \in Proc : ~InReplay(q)'
  BY <1>1, <1>4 DEF InReplay, Proc
<1>6. pinned = {}
  <2>1. CASE p # Boot
    <3> SUFFICES ASSUME NEW b \in pinned PROVE FALSE
      OBVIOUS
    <3>1. b \in header
      BY <1>2, <2>1 DEF WInv, Pinned
    <3>2. PICK k \in 1 .. Len(block_no) : b = block_no[k]
      BY <1>2, <2>1, <3>1 DEF WInv, Headers
    <3>3. k < i[p]
      BY <1>1, <3>2, Typed
    <3> QED BY <1>1, <2>1, <3>2, <3>3 DEF WInv, Replayed
  <2> QED BY <1>2, <2>1
<1>7. WTypeOK'
  <2>1. WTypeOK
    BY DEF WInv
  <2> QED BY <1>1, <2>1 DEF WTypeOK
<1>8. Headers'
  <2>1. Listing(<<>>)
    BY ConstantsAssumption DEF Listing
  <2>2. Len(block_no') = 0 /\ {block_no'[k] : k \in 1 .. Len(block_no')} = {}
    BY <1>1
  <2>3. Cardinality({}) = 0
    BY FS_EmptySet
  <2>4. Len(block_no') = Cardinality(header')
    BY <1>1, <2>2, <2>3
  <2> QED BY <1>1, <1>5, <2>1, <2>2, <2>4 DEF Headers
<1>9. Persisted'
  <2>1. CASE p = Boot
    BY <1>1, <1>2, <2>1 DEF WInv, GroupState, Persisted
  <2>2. CASE p # Boot
    BY <1>1, <1>2, <1>4, <2>2 DEF WInv, Persisted
  <2> QED BY <2>1, <2>2
<1>10. Pinned'
  BY <1>1, <1>6 DEF Pinned
<1>11. Clean'
  BY <1>1, <1>2 DEF WInv, Clean, content
<1>12. Logged' /\ Replayed'
  BY <1>4, <1>5 DEF Logged, Replayed
<1> QED BY <1>3, <1>7, <1>8, <1>9, <1>10, <1>11, <1>12 DEF WInv

\* Every step preserves the invariant.
LEMMA WInductive == WInv /\ [WNext]_allvars => WInv'
<1> SUFFICES ASSUME WInv, WNext PROVE WInv'
  BY CrashStep
<1> QED BY BootStep, CrashStep, CacheStep, MemoryStep, CommitStep, UpdateStep, LogStep,
           EmptyHeaderStep, HeaderStep, ReplayStep, ClearStep DEF WNext

\* The invariant holds in every reachable state.
THEOREM WInvariance == WSpec => []WInv
BY WInitInv, WInductive, PTL DEF WSpec
-----------------------------------------------------------------------------
\* The state of AtomicDisk that a state of the log stands for, with Durable.
Mem == [b \in Block |-> IF boot = "up" THEN content(b) ELSE Durable[b]]
Phases == [t \in Thread |-> Phase(t)]

\* A step that changes none of the three is a stuttering step of AtomicDisk.
LEMMA Stutters ==
    ASSUME Mem' = Mem, Durable' = Durable, Phases' = Phases
    PROVE  [Abstract!Next]_(Abstract!vars)
<1>1. UNCHANGED Abstract!vars
  BY DEF Abstract!vars, Mem, Phases
<1> QED BY <1>1

\* What a restart would find depends on the disk alone.
LEMMA DiskSame ==
    ASSUME UNCHANGED <<home, logarea, dheader>>
    PROVE  Durable' = Durable
BY DEF Durable

\* What a read returns is unchanged if the contents are, or a restart is due.
LEMMA MemSame ==
    ASSUME boot' = boot, Durable' = Durable,
           boot = "up" => \A b \in Block : content(b)' = content(b)
    PROVE  Mem' = Mem
BY DEF Mem

\* Steps of the cache, the log and the replay leave operations where they are.
LEMMA PhaseSame ==
    ASSUME UNCHANGED <<pc, ts, last_persisted_ts, stage, boot>>
    PROVE  Phases' = Phases
BY DEF Phases, Phase, HeaderOnDisk

\* The initial state of the log is one of AtomicDisk.
LEMMA InitRefines == WInit => Abstract!Init
<1> SUFFICES ASSUME WInit PROVE Abstract!Init
  OBVIOUS
<1>1. WInv
  BY WInitInv
<1>2. Durable \in [Block -> Data] /\ Durable = [b \in Block |-> Durable[b]]
  BY <1>1, DurableIs DEF WInv, DurableFacts
<1>3. boot = "off"
  BY DEF WInit
<1> QED BY <1>2, <1>3 DEF Abstract!Init, Phase

\* A start changes nothing: if there is no log, the blocks are at their places.
LEMMA BootRefines ==
    ASSUME WInv, WInv', init_bcache
    PROVE  [Abstract!Next]_(Abstract!vars)
<1>1. /\ boot = "off" /\ UNCHANGED <<home, logarea, dheader>>
      /\ cache' = [b \in Block |-> Absent] /\ pc' = [t \in Thread |-> "idle"]
      /\ boot' = "up" => dheader = <<>>
  BY DEF init_bcache, disk
<1>2. Durable' = Durable
  BY <1>1, DiskSame
<1>3. ASSUME NEW b \in Block, boot' = "up" PROVE content(b)' = Durable[b]
  <2>1. Len(dheader) = 0
    BY <1>1, <1>3
  <2>2. \A k \in 1 .. Len(dheader) : FALSE
    BY <2>1
  <2>3. Durable[b] = home[b]
    BY <2>2, DurableIs DEF WInv, DurableFacts
  <2> QED BY <1>1, <2>3 DEF content
<1>4. Mem' = Mem
  BY <1>1, <1>2, <1>3 DEF Mem
<1>5. Phases' = Phases
  BY <1>1 DEF Phases, Phase
<1> QED BY <1>2, <1>4, <1>5, Stutters

\* A loss of power is one of AtomicDisk.
LEMMA CrashRefines ==
    ASSUME Crash
    PROVE  [Abstract!Next]_(Abstract!vars)
<1>1. boot' = "off" /\ Durable' = Durable
  BY DiskSame DEF Crash, disk
<1>2. Durable = [b \in Block |-> Durable[b]]
  BY DEF Durable
<1>3. Abstract!Crash
  BY <1>1, <1>2 DEF Abstract!Crash, Phase
<1> QED BY <1>3 DEF Abstract!Next

\* What the block cache does is not seen.
LEMMA CacheRefines ==
    ASSUME WInv, NEW b \in Block, load(b) \/ evict(b)
    PROVE  [Abstract!Next]_(Abstract!vars)
<1>1. /\ \A c \in Block : content(c)' = content(c)
      /\ UNCHANGED <<home, logarea, dheader, pinned, block_no, stage, i, boot>>
      /\ UNCHANGED <<pc, ts, last_persisted_ts>>
  BY CacheContent DEF vars
<1>2. Durable' = Durable /\ Mem' = Mem /\ Phases' = Phases
  BY <1>1, DiskSame, MemSame, PhaseSame
<1> QED BY <1>2, Stutters

\* The steps of begin_op.
LEMMA BeginRefines ==
    ASSUME WInv, NEW t \in Thread, InMemory(t), Mem' = Mem, Durable' = Durable,
           call_begin_op(t) \/ begin_op_sleep(t) \/ begin_op(t)
    PROVE  [Abstract!Next]_(Abstract!vars)
<1>1. /\ boot = "up" /\ boot' = "up" /\ stage' = stage /\ TypeOK
      /\ last_persisted_ts' = last_persisted_ts
  BY MemoryFacts DEF WInv, GroupState, IInv, call_begin_op, begin_op_sleep, begin_op
<1>2. /\ pc[t] \in {"idle", "begin"}
      /\ \A u \in Thread : u # t => pc'[u] = pc[u] /\ ts'[u] = ts[u]
      /\ pc'[t] \in {"begin", "begin_sleep", "running"}
  BY <1>1 DEF TypeOK, call_begin_op, begin_op_sleep, begin_op
<1>3. HeaderOnDisk' <=> HeaderOnDisk
  BY <1>1, <1>2 DEF HeaderOnDisk
<1>4. /\ \A u \in Thread : u # t => Phase(u)' = Phase(u)
      /\ Phase(t) = "idle"
      /\ Phase(t)' = IF pc'[t] = "running" THEN "running" ELSE "idle"
  BY <1>1, <1>2, <1>3 DEF Phase
<1>5. CASE pc'[t] = "running"
  <2>1. Phases[t] = "idle" /\ Phases' = [Phases EXCEPT ![t] = "running"]
    BY Zenon, <1>4, <1>5 DEF Phases
  <2>2. Abstract!Begin(t)
    BY <2>1 DEF Abstract!Begin, Phases, Mem
  <2> QED BY <2>2 DEF Abstract!Next
<1>6. CASE pc'[t] # "running"
  <2>1. Phases' = Phases
    BY <1>4, <1>6 DEF Phases
  <2> QED BY <2>1, Stutters
<1> QED BY <1>5, <1>6

\* The steps of end_op that return if the operation is persisted.
LEMMA ReturnRefines ==
    ASSUME WInv, NEW t \in Thread, InMemory(t), Mem' = Mem, Durable' = Durable,
           end_op_test(t) \/ end_op_announce(t)
    PROVE  [Abstract!Next]_(Abstract!vars)
<1>1. /\ boot = "up" /\ boot' = "up" /\ stage' = stage /\ TypeOK
      /\ last_persisted_ts' = last_persisted_ts /\ ts' = ts
  BY MemoryFacts DEF WInv, GroupState, IInv, end_op_test, end_op_announce
<1>2. /\ pc[t] \in {"end_test", "announce"}
      /\ pc'[t] \in {"end_sleep", "idle"}
      /\ pc'[t] = "idle" => ts[t] <= last_persisted_ts
      /\ pc'[t] = "end_sleep" => pc[t] = "end_test"
  <2>1. CASE end_op_test(t)
    <3>1. /\ pc[t] = "end_test"
          /\ pc' = [pc EXCEPT ![t] = IF ts[t] > last_persisted_ts THEN "end_sleep" ELSE "idle"]
      BY <2>1 DEF end_op_test
    <3>2. t \in DOMAIN pc /\ ts[t] \in Nat /\ last_persisted_ts \in Nat
      BY <1>1 DEF TypeOK
    <3>3. pc'[t] = IF ts[t] > last_persisted_ts THEN "end_sleep" ELSE "idle"
      BY Zenon, <3>1, <3>2
    <3> QED BY <3>1, <3>2, <3>3
  <2>2. CASE end_op_announce(t)
    <3>1. pc[t] = "announce" /\ pc'[t] = "idle"
      BY <2>2 DEF end_op_announce, wakeup_log_used, wakeup
    <3>2. ts[t] <= last_persisted_ts
      BY <1>1, <3>1 DEF WInv, Persisted
    <3> QED BY <3>1, <3>2
  <2> QED BY <2>1, <2>2
<1>3. \A u \in Thread : u # t => \/ pc'[u] = pc[u]
                                 \/ pc[u] = "begin_sleep" /\ pc'[u] = "begin"
  BY <1>1 DEF TypeOK, end_op_test, end_op_announce, wakeup_log_used, wakeup
<1>4. HeaderOnDisk' <=> HeaderOnDisk
  BY <1>1, <1>2, <1>3 DEF HeaderOnDisk
<1>5. \A u \in Thread : u # t => Phase(u)' = Phase(u)
  BY <1>1, <1>3, <1>4 DEF Phase
<1>6. CASE pc'[t] = "idle"
  <2>1. Phase(t) = "persisted" /\ Phase(t)' = "idle"
    BY <1>1, <1>2, <1>6 DEF Phase
  <2>2. Phases[t] = "persisted" /\ Phases' = [Phases EXCEPT ![t] = "idle"]
    BY Zenon, <1>5, <2>1 DEF Phases
  <2>3. Abstract!Return(t)
    BY <2>2 DEF Abstract!Return, Phases, Mem
  <2> QED BY <2>3 DEF Abstract!Next
<1>7. CASE pc'[t] = "end_sleep"
  <2>1. Phase(t)' = Phase(t)
    BY <1>1, <1>2, <1>4, <1>7 DEF Phase
  <2>2. Phases' = Phases
    BY <1>5, <2>1 DEF Phases
  <2> QED BY <2>2, Stutters
<1> QED BY <1>2, <1>6, <1>7

\* The end of a checkpoint: moving last_persisted_ts changes nothing, since
\* the header was on disk before.
LEMMA ReportRefines ==
    ASSUME WInv, NEW t \in Thread, InMemory(t), Mem' = Mem, Durable' = Durable,
           checkpoint_stamp(t) \/ checkpoint_notify(t) \/ end_op_reopen(t)
    PROVE  [Abstract!Next]_(Abstract!vars)
<1>1. boot = "up" /\ boot' = "up" /\ stage' = stage /\ TypeOK /\ IInv /\ ts' = ts
  BY MemoryFacts
     DEF WInv, GroupState, IInv, checkpoint_stamp, checkpoint_notify, end_op_reopen
<1>2. CASE checkpoint_stamp(t)
  <2>1. /\ HeaderOnDisk /\ last_persisted_ts' = last_allocated_ts
        /\ pc[t] = "stamp" /\ pc' = [pc EXCEPT ![t] = "notify"]
    BY <1>2 DEF HeaderOnDisk, checkpoint_stamp
  <2>2. \A u \in Thread : ts'[u] <= last_persisted_ts'
    BY <1>1, <2>1 DEF IInv, Timestamps
  <2>3. \A u \in Thread : Phase(u)' = Phase(u)
    BY <1>1, <2>1, <2>2 DEF Phase, TypeOK
  <2> QED BY <2>3, Stutters DEF Phases
<1>3. CASE checkpoint_notify(t) \/ end_op_reopen(t)
  <2>1. /\ pc[t] \in {"notify", "reopen"} /\ pc'[t] \in {"reopen", "announce"}
        /\ last_persisted_ts' = last_persisted_ts
        /\ \A u \in Thread : u # t => \/ pc'[u] = pc[u]
                                      \/ pc[u] = "end_sleep" /\ pc'[u] = "end_test"
    BY <1>1, <1>3 DEF TypeOK, checkpoint_notify, end_op_reopen,
       wakeup_last_persisted_ts, wakeup
  <2>2. HeaderOnDisk' <=> HeaderOnDisk
    BY <1>1, <2>1 DEF HeaderOnDisk
  <2>3. \A u \in Thread : Phase(u)' = Phase(u)
    BY <1>1, <2>1, <2>2 DEF Phase
  <2> QED BY <2>3, Stutters DEF Phases
<1> QED BY <1>2, <1>3

\* begin_op, end_op and the announcement of a checkpoint are a step of
\* AtomicDisk or none.
LEMMA MemoryRefines ==
    ASSUME WInv, NEW t \in Thread, InMemory(t)
    PROVE  [Abstract!Next]_(Abstract!vars)
<1>1. UNCHANGED <<home, logarea, dheader, cache, boot>>
  BY MemoryFacts
<1>2. Durable' = Durable
  BY <1>1, DiskSame
<1>3. Mem' = Mem
  BY <1>1, <1>2, MemSame DEF content
<1> QED BY <1>2, <1>3, BeginRefines, ReturnRefines, ReportRefines DEF InMemory

\* A commit is one of AtomicDisk: the header of the group is not on disk yet.
LEMMA CommitRefines ==
    ASSUME WInv, NEW t \in Thread, end_op_commit(t)
    PROVE  [Abstract!Next]_(Abstract!vars)
<1>1. /\ boot = "up" /\ boot' = "up" /\ pc[t] = "running" /\ ts' = ts
      /\ last_persisted_ts' = last_persisted_ts
      /\ stage' = [stage EXCEPT ![t] = "log"]
      /\ UNCHANGED <<home, logarea, dheader, cache>>
  BY DEF end_op_commit, end_op, commit, disk, blocks
<1>2. IInv /\ TypeOK /\ stage \in [Proc -> {"log", "replay"}] /\ t \in Proc
  <2>1. IInv /\ stage \in [Proc -> {"log", "replay"}]
    BY <1>1 DEF WInv, GroupState, WTypeOK
  <2> QED BY <2>1 DEF IInv, Proc
<1>3. ts[t] > last_persisted_ts /\ ~ (ts[t] <= last_persisted_ts)
  <2>1. Timestamps /\ t \in Running
    BY <1>1, <1>2 DEF IInv, Running
  <2>2. ts[t] \in Nat /\ last_persisted_ts \in Nat
    BY <1>2 DEF TypeOK
  <2> QED BY <2>1, <2>2 DEF Timestamps
<1>4. /\ pc'[t] \in {"persist", "end_sleep"}
      /\ \A u \in Thread : u # t => \/ pc'[u] = pc[u]
                                    \/ pc[u] = "begin_sleep" /\ pc'[u] = "begin"
  BY <1>1, <1>2, <1>3 DEF end_op_commit, end_op, wakeup_log_used, wakeup, TypeOK
<1>5. ~HeaderOnDisk /\ ~HeaderOnDisk'
  <2>1. \A u \in Thread : pc[u] # "stamp" /\ pc[u] # "persist"
    BY <1>1, <1>2, NoCheckpoint DEF CheckpointPC
  <2> QED BY <1>1, <1>2, <1>4, <2>1 DEF HeaderOnDisk
<1>6. /\ Phase(t) = "running" /\ Phase(t)' = "committed"
      /\ \A u \in Thread : u # t => Phase(u)' = Phase(u)
  BY <1>1, <1>3, <1>4, <1>5 DEF Phase
<1>7. Phases[t] = "running" /\ Phases' = [Phases EXCEPT ![t] = "committed"]
  BY Zenon, <1>6 DEF Phases
<1>8. Durable' = Durable
  BY <1>1, DiskSame
<1>9. Mem' = Mem
  BY <1>1, <1>8, MemSame DEF content
<1>10. Abstract!Commit(t)
  BY <1>7, <1>8, <1>9 DEF Abstract!Commit, Phases, Mem
<1> QED BY <1>10 DEF Abstract!Next

\* A write is one of AtomicDisk.
LEMMA UpdateRefines ==
    ASSUME WInv, NEW t \in Thread, NEW b \in Block, NEW d \in Data, update(t, b, d)
    PROVE  [Abstract!Next]_(Abstract!vars)
<1> USE WALAssumption
<1>1. /\ boot = "up" /\ boot' = "up" /\ pc[t] = "running"
      /\ cache' = [cache EXCEPT ![b] = d]
      /\ UNCHANGED <<home, logarea, dheader, stage, pc, ts, last_persisted_ts, boot>>
  BY DEF update, sync, disk
<1>2. Durable' = Durable /\ Phases' = Phases
  BY <1>1, DiskSame, PhaseSame
<1>3. Phases[t] = "running"
  BY <1>1 DEF Phases, Phase
<1>4. \A c \in Block : content(c)' = IF c = b THEN d ELSE content(c)
  BY <1>1 DEF WInv, WTypeOK, content
<1>5. Mem' = [Mem EXCEPT ![b] = d]
  BY Zenon, <1>1, <1>4 DEF Mem
<1>6. Abstract!Write(t, b, d)
  BY <1>2, <1>3, <1>5 DEF Abstract!Write, Phases, Mem
<1> QED BY <1>6 DEF Abstract!Next

\* Writing the log changes nothing, because no header on disk refers to it.
LEMMA LogRefines ==
    ASSUME WInv, WInv', NEW t \in Thread, checkpoint_log(t)
    PROVE  [Abstract!Next]_(Abstract!vars)
<1>1. /\ boot = "up" /\ pc[t] = "persist" /\ stage[t] = "log" /\ UNCHANGED vars
      /\ UNCHANGED <<home, dheader, pinned, block_no, stage, boot>>
      /\ \A c \in Block : content(c)' = content(c)
  BY LogContent
<1>2. dheader = <<>>
  BY <1>1, LogStage
<1>3. \A s \in DOMAIN dheader : FALSE
  BY <1>2
<1>4. Durable' = Durable
  BY <1>1, <1>3 DEF Durable
<1>5. Mem' = Mem
  BY <1>1, <1>4, MemSame
<1>6. Phases' = Phases
  BY <1>1, PhaseSame DEF vars
<1> QED BY <1>4, <1>5, <1>6, Stutters

\* The header write makes the memory image durable: what is not in the header
\* is not pinned and so already at its place.
LEMMA HeaderDurable ==
    ASSUME WInv, WInv', NEW t \in Thread, write_header(t)
    PROVE  Durable' = Mem /\ Mem' = Mem
<1>1. /\ boot = "up" /\ boot' = boot /\ pc[t] = "persist" /\ stage[t] = "log"
      /\ i[t] > Len(block_no) /\ dheader' = block_no
      /\ UNCHANGED <<home, logarea, cache, block_no>>
  BY DEF write_header, LogWritten, full_header, blocks
<1>2. /\ Durable' = [b \in Block |-> Durable'[b]]
      /\ \A k \in 1 .. Len(block_no) : Durable'[block_no[k]] = logarea[k]
      /\ \A b \in Block : (\A k \in 1 .. Len(block_no) : block_no[k] # b)
                          => Durable'[b] = home[b]
  <2>1. WTypeOK' /\ Headers'
    BY DEF WInv
  <2>2. DurableFacts'
    BY <2>1, DurableIs, PTL
  <2> QED BY <1>1, <2>2 DEF DurableFacts
<1>3. ASSUME NEW b \in Block PROVE Durable'[b] = content(b)
  <2>1. CASE \E k \in 1 .. Len(block_no) : block_no[k] = b
    <3>1. PICK k \in 1 .. Len(block_no) : block_no[k] = b
      BY <2>1
    <3>2. i[t] \in Nat /\ Len(block_no) \in Nat
      BY Typed
    <3>3. k < i[t]
      BY <1>1, <3>1, <3>2
    <3> QED BY <1>1, <1>2, <3>1, <3>3 DEF WInv, Logged
  <2>2. CASE \A k \in 1 .. Len(block_no) : block_no[k] # b
    <3>1. b \notin header /\ Running = {}
      BY <1>1, <2>2, LogStage DEF WInv, Headers
    <3>2. b \notin pinned
      BY <1>1, <3>1 DEF WInv, Pinned
    <3>3. content(b) = home[b]
      BY <1>1, <3>2 DEF WInv, Clean
    <3> QED BY <1>2, <2>2, <3>3
  <2> QED BY <2>1, <2>2
<1>4. Durable' = Mem
  BY <1>1, <1>2, <1>3 DEF Mem
<1>5. Mem' = Mem
  BY <1>1 DEF Mem, content
<1> QED BY <1>4, <1>5

\* The header write persists the group.
LEMMA HeaderRefines ==
    ASSUME WInv, WInv', NEW t \in Thread, write_header(t)
    PROVE  [Abstract!Next]_(Abstract!vars)
<1>1. /\ boot = "up" /\ boot' = "up" /\ pc[t] = "persist" /\ stage[t] = "log"
      /\ UNCHANGED <<ts, last_persisted_ts>>
      /\ \/ pc' = [pc EXCEPT ![t] = "stamp"] /\ stage' = stage
         \/ pc' = pc /\ stage' = [stage EXCEPT ![t] = "replay"]
  BY DEF write_header, checkpoint_persist, vars
<1>2. TypeOK /\ Running = {} /\ stage \in [Proc -> {"log", "replay"}] /\ t \in Proc
  BY <1>1, LogStage DEF WInv, GroupState, IInv, WTypeOK, Proc
<1>3. HeaderOnDisk'
  BY <1>1, <1>2 DEF HeaderOnDisk, TypeOK
<1>4. ASSUME NEW u \in Thread
      PROVE  /\ Phase(u) # "running"
             /\ Phase(u)' = IF Phase(u) = "committed" THEN "persisted" ELSE Phase(u)
  <2>1. pc[u] # "running" /\ pc'[u] # "running"
    BY <1>1, <1>2 DEF Running, TypeOK
  <2>2. pc'[u] \in {"idle", "begin", "begin_sleep"}
          <=> pc[u] \in {"idle", "begin", "begin_sleep"}
    BY <1>1, <1>2 DEF TypeOK
  <2> QED BY <1>1, <1>3, <2>1, <2>2 DEF Phase
<1>5. Durable' = Mem /\ Mem' = Mem
  BY HeaderDurable
<1>6. /\ \A u \in Thread : Phases[u] # "running"
      /\ Phases' = [u \in Thread |-> IF Phases[u] = "committed"
                                     THEN "persisted" ELSE Phases[u]]
  BY <1>4 DEF Phases
<1>7. Abstract!Persist
  BY <1>5, <1>6 DEF Abstract!Persist, Phases, Mem
<1> QED BY <1>7 DEF Abstract!Next

\* A replay, of a checkpoint or of a restart, changes nothing: a block is the
\* same in the log and at its place once it is copied.
LEMMA ReplayRefines ==
    ASSUME WInv, WInv', NEW p \in Proc, replay_block(p)
    PROVE  [Abstract!Next]_(Abstract!vars)
<1>1. /\ InReplay(p) /\ UNCHANGED vars
      /\ UNCHANGED <<logarea, dheader, block_no, stage, boot>>
      /\ i[p] \in 1 .. Len(block_no) /\ block_no[i[p]] \in Block
      /\ home' = [home EXCEPT ![block_no[i[p]]] = logarea[i[p]]]
      /\ \A c \in Block :
            content(c)' = IF c = block_no[i[p]] THEN logarea[i[p]] ELSE content(c)
  BY ReplayFacts
<1>2. /\ dheader = block_no
      /\ p = Boot => boot = "replay"
  BY <1>1, ReplayAlone
<1>3. \A b \in Block : (\A s \in DOMAIN dheader : dheader[s] # b) => home'[b] = home[b]
  <2>1. home \in [Block -> Data] /\ i[p] \in DOMAIN dheader /\ dheader[i[p]] = block_no[i[p]]
    <3>1. WTypeOK
      BY DEF WInv
    <3>2. home \in [Block -> Data] /\ DOMAIN block_no = 1 .. Len(block_no)
      BY <3>1 DEF WTypeOK
    <3> QED BY Zenon, <1>1, <1>2, <3>2
  <2>2. ASSUME NEW b \in Block, \A s \in DOMAIN dheader : dheader[s] # b
        PROVE  b # block_no[i[p]]
    BY Zenon, <2>1, <2>2
  <2> QED BY <1>1, <2>1, <2>2
<1>4. Durable' = Durable
  <2> DEFINE Is(b, h) == IF \E s \in DOMAIN dheader : dheader[s] = b
                         THEN logarea[CHOOSE s \in DOMAIN dheader : dheader[s] = b]
                         ELSE h
  <2>1. Durable = [b \in Block |-> Is(b, home[b])]
    BY Zenon DEF Durable
  <2>2. Durable' = [b \in Block |-> Is(b, home'[b])]
    <3>1. dheader' = dheader /\ logarea' = logarea
      BY <1>1
    <3> QED BY <3>1 DEF Durable
  <2>3. \A b \in Block : Is(b, home'[b]) = Is(b, home[b])
    BY Zenon, <1>3
  <2> HIDE DEF Is
  <2> QED BY Zenon, <2>1, <2>2, <2>3
<1>5. boot = "up" => \A c \in Block : content(c)' = content(c)
  BY <1>1, <1>2 DEF WInv, Replayed
<1>6. Mem' = Mem /\ Phases' = Phases
  BY <1>1, <1>4, <1>5, MemSame, PhaseSame DEF vars
<1> QED BY <1>4, <1>6, Stutters

\* Clearing the header after a replay is not seen: the blocks are at their places.
LEMMA ClearRefines ==
    ASSUME WInv, WInv', NEW p \in Proc, replay_clear(p)
    PROVE  [Abstract!Next]_(Abstract!vars)
<1> USE WALAssumption
<1>1. /\ InReplay(p) /\ i[p] > Len(block_no) /\ dheader' = <<>>
      /\ boot' = "up" /\ UNCHANGED <<ts, last_persisted_ts>>
      /\ pc' = IF p = Boot THEN pc ELSE [pc EXCEPT ![p] = "stamp"]
      /\ UNCHANGED <<home, logarea, cache, pinned, stage>>
  BY DEF replay_clear, checkpoint_persist, empty_header, InReplay, blocks
<1>2. /\ dheader = block_no /\ boot # "off"
      /\ p # Boot => p \in Thread /\ boot = "up" /\ pc[p] = "persist" /\ IInv
      /\ p = Boot => boot = "replay" /\ pinned = {}
  BY <1>1, ReplayAlone
<1>3. ASSUME NEW b \in Block PROVE Durable[b] = home[b]
  <2>1. CASE \E k \in 1 .. Len(dheader) : dheader[k] = b
    <3>1. PICK k \in 1 .. Len(dheader) : dheader[k] = b
      BY <2>1
    <3>2. Durable[b] = logarea[k]
      BY <3>1, DurableIs DEF WInv, DurableFacts
    <3>3. k < i[p] /\ k \in 1 .. Len(block_no) /\ block_no[k] = b
      <4>1. k \in 1 .. Len(block_no) /\ block_no[k] = b
        BY Zenon, <1>2, <3>1
      <4>2. WTypeOK
        BY DEF WInv
      <4>3. i[p] \in Nat /\ Len(block_no) \in Nat
        BY <4>2 DEF WTypeOK
      <4> QED BY <1>1, <4>1, <4>3
    <3>4. home[b] = logarea[k]
      BY <1>1, <3>3 DEF WInv, Replayed
    <3> QED BY <3>2, <3>4
  <2> QED BY <2>1, DurableIs DEF WInv, DurableFacts
<1>4. Durable' = [b \in Block |-> home[b]]
  <2>1. \A s \in DOMAIN dheader' : FALSE
    BY <1>1
  <2> QED BY <1>1, <2>1 DEF Durable
<1>5. Durable' = Durable
  BY <1>3, <1>4 DEF Durable
<1>6. Mem' = Mem
  <2>1. CASE p = Boot
    <3>1. \A b \in Block : content(b)' = Durable[b]
      BY <1>1, <1>2, <1>3, <2>1 DEF WInv, Clean, content
    <3> QED BY <1>1, <1>2, <2>1, <3>1 DEF Mem
  <2>2. CASE p # Boot
    <3>1. boot' = boot /\ \A b \in Block : content(b)' = content(b)
      BY <1>1, <1>2, <2>2 DEF content
    <3> QED BY <1>5, <3>1, MemSame
  <2> QED BY <2>1, <2>2
<1>7. \A u \in Thread : Phase(u)' = Phase(u)
  <2>1. CASE p = Boot
    BY <1>1, <1>2, <2>1 DEF WInv, GroupState, Phase
  <2>2. CASE p # Boot
    <3>1. TypeOK /\ stage[p] = "replay"
      BY <1>1, <1>2, <2>2 DEF IInv, InReplay
    <3>2. HeaderOnDisk /\ HeaderOnDisk'
      BY <1>1, <1>2, <2>2, <3>1 DEF HeaderOnDisk, TypeOK
    <3> QED BY <1>1, <1>2, <2>2, <3>1, <3>2 DEF Phase, TypeOK
  <2> QED BY <2>1, <2>2
<1> QED BY <1>5, <1>6, <1>7, Stutters DEF Phases

-----------------------------------------------------------------------------
\* Every step of the log is a step of AtomicDisk or changes nothing there.
LEMMA StepRefines == WInv /\ WInv' /\ [WNext]_allvars => [Abstract!Next]_(Abstract!vars)
<1> SUFFICES ASSUME WInv, WInv', [WNext]_allvars PROVE [Abstract!Next]_(Abstract!vars)
  OBVIOUS
<1>1. CASE UNCHANGED allvars
  <2>1. /\ UNCHANGED <<home, logarea, dheader, cache, stage, boot>>
        /\ UNCHANGED <<pc, ts, last_persisted_ts>>
    BY <1>1 DEF allvars, vars, walvars, disk, blocks
  <2>2. Durable' = Durable /\ Phases' = Phases
    BY <2>1, DiskSame, PhaseSame
  <2>3. Mem' = Mem
    BY <2>1, <2>2, MemSame DEF content
  <2> QED BY <2>2, <2>3, Stutters
<1>2. CASE WNext
  BY <1>2, BootRefines, CrashRefines, CacheRefines, MemoryRefines, CommitRefines,
     UpdateRefines, LogRefines, HeaderRefines, ReplayRefines, ClearRefines DEF WNext
<1> QED BY <1>1, <1>2

\* The log of cache.c implements AtomicDisk: across any number of power losses
\* an operation is on disk whole or not at all, and those whose end_op returned
\* are.
THEOREM AtomicAndDurable == WSpec => ImplementsAtomicDisk
<1>1. WSpec => Abstract!Spec
  BY InitRefines, StepRefines, WInvariance, PTL DEF WSpec, Abstract!Spec
<1> QED BY <1>1 DEF ImplementsAtomicDisk

\* checkpoint never overwrites a log block that the header on disk refers to,
\* so a replay can be interrupted and started again.
THEOREM LogKept == WSpec => LogIntact
<1>1. WInv /\ [WNext]_allvars => [\A s \in DOMAIN dheader : logarea'[s] = logarea[s]]_allvars
  <2> SUFFICES ASSUME WInv, WNext
               PROVE  \A s \in DOMAIN dheader : logarea'[s] = logarea[s]
    OBVIOUS
  <2>1. ASSUME NEW t \in Thread, checkpoint_log(t)
        PROVE  \A s \in DOMAIN dheader : logarea'[s] = logarea[s]
    <3>1. dheader = <<>>
      BY <2>1, LogContent, LogStage
    <3> QED BY <3>1
  <2>2. CASE ~ \E t \in Thread : checkpoint_log(t)
    BY Zenon, <2>2 DEF WNext, init_bcache, Crash, load, evict, InMemory, end_op_commit,
       write_header, update, replay_block, replay_clear, walvars, disk
  <2> QED BY <2>1, <2>2
<1> QED BY <1>1, WInvariance, PTL DEF WSpec, LogIntact
=============================================================================
