----------------------------- MODULE BlockCache ------------------------------
(***************************************************************************)
(* cache_acquire and cache_release of src/fs/cache.c: which Block struct   *)
(* holds which block, who has it locked, and which struct is reused when   *)
(* the cache is full.                                                      *)
(*                                                                         *)
(* The sections under the cache lock are one step each; the sleeplock of a *)
(* struct, the read from the device and the two halves of cache_release    *)
(* are steps of their own.  The content of a struct is abstracted to the   *)
(* number of the block it was read from.                                   *)
(***************************************************************************)
EXTENDS Integers, FiniteSets, Sequences, Functions

CONSTANTS
    Thread,
    Block,              \* block numbers
    Slot,               \* Block structs the arena can allocate
    EVICTION_THRESHOLD,
    None                \* no thread, no struct, no block

ASSUME CacheAssumption ==
    /\ IsFiniteSet(Slot) /\ IsFiniteSet(Block)
    /\ Cardinality(Slot) >= Cardinality(Block)
    /\ EVICTION_THRESHOLD \in Nat \ {0}
    /\ None \notin Thread \cup Slot \cup Block

VARIABLES
    list,      \* the structs in use, most recently acquired first
    block_no, acquired, pinned, valid,  \* members of each struct
    locked,    \* the thread that holds the sleeplock of each struct
    data,      \* the block each struct's content was read from
    pc,        \* where each thread is
    cur,       \* the struct each thread acquires or holds
    want,      \* the block each thread asked for
    overlapped \* history: two threads used the same block at the same time

members == <<block_no, acquired, pinned, valid, data>>
vars == <<list, members, locked, pc, cur, want, overlapped>>

Init ==
    /\ list = <<>>
    /\ block_no = [s \in Slot |-> None]
    /\ acquired = [s \in Slot |-> FALSE]
    /\ pinned = [s \in Slot |-> FALSE]
    /\ valid = [s \in Slot |-> FALSE]
    /\ locked = [s \in Slot |-> None]
    /\ data = [s \in Slot |-> None]
    /\ pc = [t \in Thread |-> "idle"]
    /\ cur = [t \in Thread |-> None]
    /\ want = [t \in Thread |-> None]
    /\ overlapped = FALSE

-----------------------------------------------------------------------------
\* Mutants: a block in use is not found; a struct in use may be reused.
Cached_Idle(b) == {k \in DOMAIN list : block_no[list[k]] = b /\ ~acquired[list[k]]}
Evictable_Acquired(s) == ~pinned[s]

\* Where the scan of the list finds block b.
Cached(b) == {k \in DOMAIN list : block_no[list[k]] = b}

Evictable(s) == ~acquired[s] /\ ~pinned[s]

\* Where the struct is that the scan would reuse: the last evictable one.
Victims ==
    {k \in DOMAIN list :
        /\ Evictable(list[k])
        /\ \A j \in k + 1 .. Len(list) : ~Evictable(list[j])}

CacheFull == Len(list) >= EVICTION_THRESHOLD

\* Struct s is detached from place k of the list, which is behind its end for
\* a new one, and merged at the front.
move_to_front(s, k) ==
    [j \in 1 .. (IF k > Len(list) THEN k ELSE Len(list)) |->
        IF j = 1 THEN s ELSE IF j <= k THEN list[j - 1] ELSE list[j]]

\* The part of cache_acquire under the cache lock, ending with struct s.
take(t, b, s, k) ==
    /\ list' = move_to_front(s, k)
    /\ acquired' = [acquired EXCEPT ![s] = TRUE]
    /\ cur' = [cur EXCEPT ![t] = s]
    /\ want' = [want EXCEPT ![t] = b]
    /\ pc' = [pc EXCEPT ![t] = "lock"]
    /\ overlapped' = (overlapped \/ \E u \in Thread : want[u] = b)

acquire_cached(t, b) ==
    /\ pc[t] = "idle"
    /\ \E k \in Cached(b) : take(t, b, list[k], k)
    /\ UNCHANGED <<block_no, pinned, valid, data, locked>>

acquire_evict(t, b) ==
    /\ pc[t] = "idle"
    /\ Cached(b) = {} /\ CacheFull
    /\ \E k \in Victims :
          /\ take(t, b, list[k], k)
          /\ block_no' = [block_no EXCEPT ![list[k]] = b]
          /\ valid' = [valid EXCEPT ![list[k]] = FALSE]
    /\ UNCHANGED <<pinned, data, locked>>

acquire_alloc(t, b) ==
    /\ pc[t] = "idle"
    /\ Cached(b) = {}
    /\ ~CacheFull \/ Victims = {}
    /\ \E s \in Slot \ Range(list) :
          /\ take(t, b, s, Len(list) + 1)
          /\ block_no' = [block_no EXCEPT ![s] = b]
          /\ pinned' = [pinned EXCEPT ![s] = FALSE]
          /\ valid' = [valid EXCEPT ![s] = FALSE]
          /\ locked' = [locked EXCEPT ![s] = None]
          /\ data' = [data EXCEPT ![s] = None]

Unlocked(s) == locked[s] = None

\* The rest of cache_acquire.
acquire_sleeplock(t) ==
    /\ pc[t] = "lock"
    /\ Unlocked(cur[t])
    /\ locked' = [locked EXCEPT ![cur[t]] = t]
    /\ pc' = [pc EXCEPT ![t] = "check"]
    /\ UNCHANGED <<list, members, cur, want, overlapped>>

check_valid(t) ==
    /\ pc[t] = "check"
    /\ pc' = [pc EXCEPT ![t] = IF valid[cur[t]] THEN "held" ELSE "read"]
    /\ UNCHANGED <<list, members, locked, cur, want, overlapped>>

device_read(t) ==
    /\ pc[t] = "read"
    /\ data' = [data EXCEPT ![cur[t]] = block_no[cur[t]]]
    /\ pc' = [pc EXCEPT ![t] = "loaded"]
    /\ UNCHANGED <<list, block_no, acquired, pinned, valid, locked, cur, want,
                   overlapped>>

set_valid(t) ==
    /\ pc[t] = "loaded"
    /\ valid' = [valid EXCEPT ![cur[t]] = TRUE]
    /\ pc' = [pc EXCEPT ![t] = "held"]
    /\ UNCHANGED <<list, block_no, acquired, pinned, data, locked, cur, want,
                   overlapped>>

\* The holder calls sync, or replay un-pins the block it has written back.
set_pinned(t, p) ==
    /\ pc[t] = "held"
    /\ pinned[cur[t]] # p
    /\ pinned' = [pinned EXCEPT ![cur[t]] = p]
    /\ UNCHANGED <<list, block_no, acquired, valid, data, locked, pc, cur, want,
                   overlapped>>

\* cache_release: first the sleeplock, then the flag under the cache lock.
release_sleeplock(t) ==
    /\ pc[t] = "held"
    /\ locked' = [locked EXCEPT ![cur[t]] = None]
    /\ pc' = [pc EXCEPT ![t] = "unlocked"]
    /\ UNCHANGED <<list, members, cur, want, overlapped>>

clear_acquired(t) ==
    /\ pc[t] = "unlocked"
    /\ acquired' = [acquired EXCEPT ![cur[t]] = FALSE]
    /\ pc' = [pc EXCEPT ![t] = "idle"]
    /\ cur' = [cur EXCEPT ![t] = None]
    /\ want' = [want EXCEPT ![t] = None]
    /\ UNCHANGED <<list, block_no, pinned, valid, data, locked, overlapped>>

Next ==
    \E t \in Thread :
        \/ \E b \in Block :
              acquire_cached(t, b) \/ acquire_evict(t, b) \/ acquire_alloc(t, b)
        \/ acquire_sleeplock(t) \/ check_valid(t) \/ device_read(t) \/ set_valid(t)
        \/ \E p \in BOOLEAN : set_pinned(t, p)
        \/ release_sleeplock(t) \/ clear_acquired(t)

Spec == Init /\ [][Next]_vars
-----------------------------------------------------------------------------
\* A block is cached in one struct only, although the cache lock is released
\* between two calls of cache_acquire for the same block.
UniqueBlockNo ==
    \A j, k \in DOMAIN list : block_no[list[j]] = block_no[list[k]] => j = k

Inside(t) == pc[t] \in {"check", "read", "loaded", "held"}

\* The NOTE in cache_acquire: a struct that a thread holds, or waits for, is
\* not reused for another block.
HeldBlockKept ==
    \A t \in Thread : Inside(t) \/ pc[t] = "lock" => block_no[cur[t]] = want[t]

\* As long as no two threads use the same block at the same time, the NOTE
\* holds and cache_acquire returns the content of the block asked for.
AloneGetsOwnBlock ==
    ~overlapped => /\ HeldBlockKept
                   /\ \A t \in Thread : pc[t] = "held" => data[cur[t]] = want[t]
=============================================================================
