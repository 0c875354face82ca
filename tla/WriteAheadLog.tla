---------------------------- MODULE WriteAheadLog ----------------------------
(***************************************************************************)
(* The log of src/fs/cache.c on a disk that can lose power: GroupCommit    *)
(* with the contents of blocks, the log area, its header block and the     *)
(* recovery that init_bcache runs.  A step makes at most one write to the  *)
(* disk, so power can be lost between any two of them; the write of one    *)
(* block is atomic.                                                        *)
(*                                                                         *)
(* A thread that holds a block (cache_acquire ... cache_release) excludes  *)
(* all others from it, so its access is one step here; module BlockCache   *)
(* is about that exclusion.  A log block goes to disk in the same step it  *)
(* changes, so a cached copy of it never differs and is left out.          *)
(***************************************************************************)
EXTENDS GroupCommit, Sequences, Functions

CONSTANTS
    Data,       \* contents of a block
    Absent,     \* content of a block that is not cached
    Boot,       \* the thread that runs init_bcache
    MaxCrashes  \* bound: losses of power

ASSUME WALAssumption ==
    /\ Boot \notin Thread
    /\ Absent \notin Data
    /\ MaxCrashes \in Nat

VARIABLES
    home,      \* disk: the blocks at their own places
    logarea,   \* disk: the blocks of the log after its header
    dheader,   \* disk: header.block_no, as many as header.num_blocks
    cache,     \* memory: block contents, or Absent
    pinned,    \* memory: blocks that must not be evicted
    block_no,  \* memory: header.block_no in order; header is the set of them
    stage,     \* whether a thread in checkpoint is in its loop or in replay's
    i,         \* the loop variable of checkpoint and replay
    boot,      \* "off", "replay" (recovering), "up"
    crashes    \* losses of power so far

disk == <<home, logarea, dheader>>
blocks == <<cache, pinned>>
walvars == <<disk, blocks, block_no, stage, i, boot, crashes>>
allvars == <<vars, walvars>>

Proc == Thread \cup {Boot}

\* What a thread that acquires block b gets.
content(b) == IF cache[b] = Absent THEN home[b] ELSE cache[b]

WInit ==
    /\ Init
    /\ home \in [Block -> Data]
    /\ logarea \in {[s \in 1 .. LOG_SIZE |-> d] : d \in Data}
    /\ dheader = <<>>
    /\ cache = [b \in Block |-> Absent]
    /\ pinned = {}
    /\ block_no = <<>>
    /\ stage = [p \in Proc |-> "log"]
    /\ i = [p \in Proc |-> 1]
    /\ boot = "off"
    /\ crashes = 0

-----------------------------------------------------------------------------
\* Start of the kernel up to the loop of replay, which returns at once when
\* the header that was read is empty.
init_bcache ==
    /\ boot = "off"
    /\ boot' = IF dheader = <<>> THEN "up" ELSE "replay"
    /\ header' = Range(dheader)
    /\ block_no' = dheader
    /\ log_size' = LOG_SIZE /\ log_used' = 0 /\ op_count' = 0
    /\ last_allocated_ts' = 0 /\ last_persisted_ts' = 0
    /\ pc' = [t \in Thread |-> "idle"]
    /\ ts' = [t \in Thread |-> 0]
    /\ ctx' = [t \in Thread |-> {}]
    /\ log_size_copy' = [t \in Thread |-> 0]
    /\ cache' = [b \in Block |-> Absent]
    /\ pinned' = {}
    /\ stage' = [p \in Proc |-> IF p = Boot THEN "replay" ELSE "log"]
    /\ i' = [p \in Proc |-> 1]
    /\ UNCHANGED <<disk, crashes>>

\* Power is lost; what is in memory no longer matters.
Crash ==
    /\ boot # "off"
    /\ crashes < MaxCrashes
    /\ boot' = "off"
    /\ crashes' = crashes + 1
    /\ UNCHANGED <<vars, disk, blocks, block_no, stage, i>>

\* cache_acquire by a reader loads a block that is not cached.
load(b) ==
    /\ boot = "up"
    /\ cache[b] = Absent
    /\ cache' = [cache EXCEPT ![b] = home[b]]
    /\ UNCHANGED <<vars, disk, pinned, block_no, stage, i, boot, crashes>>

\* cache_acquire of another block evicts one that is neither pinned nor held.
evict(b) ==
    /\ boot = "up"
    /\ cache[b] # Absent
    /\ b \notin pinned
    /\ cache' = [cache EXCEPT ![b] = Absent]
    /\ UNCHANGED <<vars, disk, pinned, block_no, stage, i, boot, crashes>>

pin(b) == pinned \cup {b}
unpin(b) == pinned \ {b}

\* An operation acquires block b, changes its content to d, calls sync and
\* releases it.
update(t, b, d) ==
    /\ boot = "up"
    /\ sync(t, b)
    /\ cache' = [cache EXCEPT ![b] = d]
    /\ pinned' = pin(b)
    /\ UNCHANGED <<disk, block_no, stage, i, boot, crashes>>

\* The orders in which an operation may have recorded its blocks.
orders(S) == {s \in [1 .. Cardinality(S) -> S] : Range(s) = S}

\* end_op: commit appends the blocks that are not in the header yet.
end_op_commit(t) ==
    /\ boot = "up"
    /\ end_op(t)
    /\ \E s \in orders(ctx[t] \ header) : block_no' = block_no \o s
    /\ stage' = [stage EXCEPT ![t] = "log"]
    /\ i' = [i EXCEPT ![t] = 1]
    /\ UNCHANGED <<disk, blocks, boot, crashes>>

\* checkpoint, step 1: copy one block into the log area.
checkpoint_log(t) ==
    /\ boot = "up" /\ pc[t] = "persist" /\ stage[t] = "log"
    /\ i[t] <= Len(block_no)
    /\ LET b == block_no[i[t]]
       IN  /\ cache' = [cache EXCEPT ![b] = content(b)]
           /\ logarea' = [logarea EXCEPT ![i[t]] = content(b)]
    /\ i' = [i EXCEPT ![t] = @ + 1]
    /\ UNCHANGED <<vars, home, dheader, pinned, block_no, stage, boot, crashes>>

\* Mutants: the header is written before the log blocks; step 4 does not reach
\* the disk.
LogWritten_Early(t) == TRUE
empty_header_Unwritten == dheader

LogWritten(t) == i[t] > Len(block_no)
full_header == block_no
empty_header == <<>>

\* checkpoint, step 2: write the header; replay returns at once if it is empty.
write_header(t) ==
    /\ boot = "up" /\ pc[t] = "persist" /\ stage[t] = "log"
    /\ LogWritten(t)
    /\ dheader' = full_header
    /\ IF block_no = <<>>
       THEN checkpoint_persist(t) /\ UNCHANGED <<stage, i>>
       ELSE /\ stage' = [stage EXCEPT ![t] = "replay"]
            /\ i' = [i EXCEPT ![t] = 1]
            /\ UNCHANGED vars
    /\ UNCHANGED <<home, logarea, blocks, block_no, boot, crashes>>

\* The loop of replay is run by a checkpoint and by init_bcache.
InReplay(p) ==
    /\ stage[p] = "replay"
    /\ IF p = Boot THEN boot = "replay" ELSE boot = "up" /\ pc[p] = "persist"

\* replay, step 3: copy one block from the log to its place and un-pin it.
replay_block(p) ==
    /\ InReplay(p)
    /\ i[p] <= Len(block_no)
    /\ LET b == block_no[i[p]]
       IN  /\ cache' = [cache EXCEPT ![b] = logarea[i[p]]]
           /\ home' = [home EXCEPT ![b] = logarea[i[p]]]
           /\ pinned' = unpin(b)
    /\ i' = [i EXCEPT ![p] = @ + 1]
    /\ UNCHANGED <<vars, logarea, dheader, block_no, stage, boot, crashes>>

\* replay, step 4: empty the header and write it.
replay_clear(p) ==
    /\ InReplay(p)
    /\ i[p] > Len(block_no)
    /\ block_no' = <<>>
    /\ dheader' = empty_header
    /\ IF p = Boot
       THEN /\ header' = {}
            /\ boot' = "up"
            /\ UNCHANGED <<log_size, log_used, op_count, last_allocated_ts,
                           last_persisted_ts, pc, ts, ctx, log_size_copy>>
       ELSE checkpoint_persist(p) /\ UNCHANGED boot
    /\ UNCHANGED <<home, logarea, blocks, stage, i, crashes>>

\* The steps of GroupCommit that touch neither disk nor blocks.
InMemory(t) ==
    /\ boot = "up"
    /\ \/ call_begin_op(t) \/ begin_op_sleep(t) \/ begin_op(t)
       \/ end_op_test(t) \/ checkpoint_stamp(t) \/ checkpoint_notify(t)
       \/ end_op_reopen(t) \/ end_op_announce(t)
    /\ UNCHANGED walvars

WNext ==
    \/ init_bcache
    \/ Crash
    \/ \E b \in Block : load(b) \/ evict(b)
    \/ \E t \in Thread : InMemory(t) \/ end_op_commit(t)
    \/ \E t \in Thread : checkpoint_log(t) \/ write_header(t)
    \/ \E t \in Thread, b \in Block, d \in Data : update(t, b, d)
    \/ \E p \in Proc : replay_block(p) \/ replay_clear(p)

WSpec == WInit /\ [][WNext]_allvars
-----------------------------------------------------------------------------
\* What a restart would leave on the disk.
Durable ==
    [b \in Block |->
        IF \E s \in DOMAIN dheader : dheader[s] = b
        THEN logarea[CHOOSE s \in DOMAIN dheader : dheader[s] = b]
        ELSE home[b]]

\* The operations that are persisted before last_persisted_ts says so: the
\* header of their group is on disk.
HeaderOnDisk ==
    \E u \in Thread : pc[u] = "stamp" \/ (pc[u] = "persist" /\ stage[u] = "replay")

Phase(t) ==
    IF boot # "up" \/ pc[t] \in {"idle", "begin", "begin_sleep"} THEN "idle"
    ELSE IF pc[t] = "running" THEN "running"
    ELSE IF HeaderOnDisk \/ ts[t] <= last_persisted_ts THEN "persisted"
    ELSE "committed"

Abstract == INSTANCE AtomicDisk WITH
    mem <- [b \in Block |-> IF boot = "up" THEN content(b) ELSE Durable[b]],
    durable <- Durable,
    phase <- [t \in Thread |-> Phase(t)]

\* Atomicity and durability across power losses: the log implements the
\* promise of AtomicDisk.  The state a restart finds changes only at the
\* header write of a checkpoint, to a state without a running operation;
\* end_op returns only afterwards; recovery, itself interrupted or not, and
\* eviction change nothing that a thread can see.
ImplementsAtomicDisk == Abstract!Spec

\* A log block that the header on disk refers to is not overwritten: replay
\* can be restarted at any point.
LogIntact ==
    [][\A s \in DOMAIN dheader : logarea'[s] = logarea[s]]_allvars

=============================================================================
