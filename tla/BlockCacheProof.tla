-------------------------- MODULE BlockCacheProof ---------------------------
(***************************************************************************)
(* Proofs about BlockCache, for any number of threads, blocks and structs  *)
(* and any threshold: a block is in one struct only, and a thread that is  *)
(* alone with its block keeps the struct and gets the block's content.     *)
(***************************************************************************)
EXTENDS BlockCache, TLAPS

TypeOK ==
    /\ list \in Seq(Slot)
    /\ block_no \in [Slot -> Block \cup {None}]
    /\ acquired \in [Slot -> BOOLEAN]
    /\ valid \in [Slot -> BOOLEAN]
    /\ data \in [Slot -> Block \cup {None}]
    /\ pc \in [Thread -> {"idle", "lock", "check", "read", "loaded", "held", "unlocked"}]
    /\ cur \in [Thread -> Slot \cup {None}]
    /\ want \in [Thread -> Block \cup {None}]
    /\ overlapped \in BOOLEAN

\* A thread in cache_acquire, or between it and the end of cache_release, has
\* a struct of the list; the others have none.
Using(t) == pc[t] # "idle"

HasStruct ==
    \A t \in Thread :
        IF Using(t) THEN want[t] \in Block /\ \E k \in 1 .. Len(list) : list[k] = cur[t]
                    ELSE want[t] = None

\* No two threads use the same block.
Apart == \A t, u \in Thread : want[t] = want[u] /\ want[t] # None => t = u

\* The struct of a thread is marked and has the thread's block.
Marked == \A t \in Thread : Using(t) => acquired[cur[t]] /\ block_no[cur[t]] = want[t]

\* A struct in the list that is valid has the content of its block, and so has
\* one that was read and is not marked valid yet.
Content ==
    /\ \A k \in 1 .. Len(list) : valid[list[k]] => data[list[k]] = block_no[list[k]]
    /\ \A t \in Thread : pc[t] = "loaded" => data[cur[t]] = want[t]
    /\ \A t \in Thread : pc[t] \in {"held", "unlocked"} => valid[cur[t]]

AloneInv == ~overlapped => Apart /\ Marked /\ Content

IInv == TypeOK /\ UniqueBlockNo /\ HasStruct /\ AloneInv
-----------------------------------------------------------------------------
\* The initial state: the list is empty and no thread uses a block.
LEMMA Initial == Init => IInv
<1> SUFFICES ASSUME Init PROVE IInv
  OBVIOUS
<1> USE DEF Init
<1>1. TypeOK
  <2>1. overlapped \in BOOLEAN
    BY Zenon
  <2> QED
    BY <2>1 DEF TypeOK
<1>2. UniqueBlockNo /\ HasStruct
  BY DEF UniqueBlockNo, HasStruct, Using
<1>3. AloneInv
  BY DEF AloneInv, Apart, Marked, Content, Using
<1> QED
  BY <1>1, <1>2, <1>3 DEF IInv

\* Struct s comes from place k of the list, or is new and gets a place behind it.
Placed(s, k) ==
    /\ k \in 1 .. Len(list) + 1
    /\ k <= Len(list) => s = list[k]
    /\ k > Len(list) => \A i \in 1 .. Len(list) : list[i] # s

\* Moving a struct to the front of a list without repetition gives a list
\* without repetition of the same structs and this one.
LEMMA MoveToFront ==
    ASSUME TypeOK, NEW s \in Slot, NEW k, Placed(s, k), list' = move_to_front(s, k),
           \A i, j \in 1 .. Len(list) : list[i] = list[j] => i = j
    PROVE  /\ list' \in Seq(Slot)
           /\ \A i, j \in 1 .. Len(list') : list'[i] = list'[j] => i = j
           /\ \A j \in 1 .. Len(list') : list'[j] # s => \E i \in 1 .. Len(list) : list[i] = list'[j]
           /\ \A i \in 1 .. Len(list) : \E j \in 1 .. Len(list') : list'[j] = list[i]
           /\ \E j \in 1 .. Len(list') : list'[j] = s
<1> DEFINE n == Len(list)
           m == IF k > n THEN k ELSE n
           from(j) == IF j = 1 THEN k ELSE IF j <= k THEN j - 1 ELSE j
<1>1. /\ n \in Nat /\ k \in Nat /\ k >= 1 /\ m \in Nat /\ m >= 1 /\ k <= m
      /\ \A i \in 1 .. n : list[i] \in Slot
  BY DEF TypeOK, Placed
<1>2. list' = [j \in 1 .. m |-> IF j = 1 THEN s ELSE IF j <= k THEN list[j - 1] ELSE list[j]]
  BY DEF move_to_front
<1>m. m = n \/ (m = n + 1 /\ k = m)
  BY <1>1 DEF Placed
<1>3. list' \in [1 .. m -> Slot]
  BY <1>1, <1>2, <1>m
<1>4. list' \in Seq(Slot) /\ Len(list') = m
  BY <1>1, <1>3
<1>5. \A j \in 1 .. m : from(j) \in 1 .. m /\ (from(j) = k <=> j = 1) /\ (from(j) # k => from(j) \in 1 .. n)
  BY <1>1, <1>m
<1>6. \A j \in 1 .. m : list'[j] = IF j = 1 THEN s ELSE list[from(j)]
  BY <1>1, <1>2
<1>7. \A i, j \in 1 .. m : from(i) = from(j) => i = j
  BY <1>1
<1>8. \A i \in 1 .. n : \E j \in 1 .. m : from(j) = i
  <2> SUFFICES ASSUME NEW i \in 1 .. n PROVE \E j \in 1 .. m : from(j) = i
    OBVIOUS
  <2>1. CASE i = k
    BY <1>1, <2>1
  <2>2. CASE i < k
    BY <1>1, <2>2, i + 1 \in 1 .. m, from(i + 1) = i
  <2>3. CASE i > k
    BY <1>1, <2>3, i \in 1 .. m, from(i) = i
  <2> QED
    BY <1>1, <2>1, <2>2, <2>3
<1>9. \A i \in 1 .. n : i # k => list[i] # s
  BY <1>1 DEF Placed
<1>s. k \in 1 .. n => list[k] = s
  BY <1>1 DEF Placed
<1> HIDE DEF from, m, n
<1>10. ASSUME NEW i \in 1 .. m, NEW j \in 1 .. m, list'[i] = list'[j] PROVE i = j
  BY <1>5, <1>6, <1>7, <1>9, <1>10 DEF n
<1>11. ASSUME NEW j \in 1 .. m, list'[j] # s PROVE \E i \in 1 .. n : list[i] = list'[j]
  BY <1>5, <1>6, <1>11
<1>12. ASSUME NEW i \in 1 .. n PROVE \E j \in 1 .. m : list'[j] = list[i]
  <2>1. PICK j \in 1 .. m : from(j) = i
    BY <1>8
  <2> QED
    BY <1>5, <1>6, <1>s, <2>1
<1>13. 1 \in 1 .. m /\ list'[1] = s
  BY <1>1, <1>6
<1> QED
  BY <1>4, <1>10, <1>11, <1>12, <1>13 DEF n

\* In a list that has each block once, each struct is once.
LEMMA NoRepetition ==
    ASSUME TypeOK, UniqueBlockNo
    PROVE  \A i, j \in 1 .. Len(list) : list[i] = list[j] => i = j
BY DEF TypeOK, UniqueBlockNo

\* While a thread is alone with its block, nobody else has the thread's struct.
LEMMA OwnStruct ==
    ASSUME IInv, ~overlapped, NEW t \in Thread, NEW u \in Thread, Using(t), Using(u), cur[t] = cur[u]
    PROVE  t = u
<1>1. want[t] \in Block /\ want[u] = want[t]
  BY DEF IInv, AloneInv, Marked, HasStruct
<1> QED
  BY <1>1, CacheAssumption DEF IInv, AloneInv, Apart

\* The first half of cache_acquire, on a struct that has the block or was
\* taken from a thread-less place, keeps the invariant.
LEMMA TakeKeeps ==
    ASSUME IInv, NEW t \in Thread, NEW b \in Block, NEW s \in Slot, NEW k,
           pc[t] = "idle", take(t, b, s, k), Placed(s, k),
           \A i \in 1 .. Len(list) : list[i] # s => block_no[list[i]] # b,
           block_no' = [block_no EXCEPT ![s] = b],
           \/ UNCHANGED <<valid, data>> /\ block_no[s] = b /\ (\E i \in 1 .. Len(list) : list[i] = s)
           \/ /\ valid' = [valid EXCEPT ![s] = FALSE]
              /\ data' \in [Slot -> Block \cup {None}]
              /\ \A x \in Slot : x # s => data'[x] = data[x]
              /\ ~overlapped => \A u \in Thread : Using(u) => cur[u] # s
    PROVE  IInv'
<1> USE CacheAssumption
<1>1. /\ acquired' = [acquired EXCEPT ![s] = TRUE]
      /\ cur' = [cur EXCEPT ![t] = s] /\ want' = [want EXCEPT ![t] = b]
      /\ pc' = [pc EXCEPT ![t] = "lock"]
      /\ list' = move_to_front(s, k)
      /\ overlapped' \in BOOLEAN
      /\ ~overlapped' => ~overlapped /\ \A u \in Thread : want[u] # b
  <2>1. overlapped' = (overlapped \/ \E u \in Thread : want[u] = b)
    BY DEF take
  <2>2. overlapped' \in BOOLEAN /\ (~overlapped' => ~overlapped /\ \A u \in Thread : want[u] # b)
    BY <2>1, Zenon
  <2> QED
    BY <2>2 DEF take
<1>2. \A i, j \in 1 .. Len(list) : list[i] = list[j] => i = j
  BY NoRepetition DEF IInv
<1>3. /\ list' \in Seq(Slot)
      /\ \A i, j \in 1 .. Len(list') : list'[i] = list'[j] => i = j
      /\ \A j \in 1 .. Len(list') : list'[j] # s => \E i \in 1 .. Len(list) : list[i] = list'[j]
      /\ \A i \in 1 .. Len(list) : \E j \in 1 .. Len(list') : list'[j] = list[i]
      /\ \E j \in 1 .. Len(list') : list'[j] = s
  BY <1>1, <1>2, MoveToFront DEF IInv
<1>4. TypeOK'
  BY <1>1, <1>3 DEF IInv, TypeOK
<1>l. list' \in [1 .. Len(list') -> Slot] /\ DOMAIN list' = 1 .. Len(list')
  BY <1>3
<1>5. UniqueBlockNo'
  <2>1. ASSUME NEW i \in 1 .. Len(list'), NEW j \in 1 .. Len(list'),
               block_no'[list'[i]] = block_no'[list'[j]]
        PROVE  list'[i] = list'[j]
    <3>1. \A x \in Slot : block_no'[x] = IF x = s THEN b ELSE block_no[x]
      BY DEF IInv, TypeOK
    <3>2. ASSUME NEW h \in 1 .. Len(list'), list'[h] # s PROVE block_no[list'[h]] # b
      <4>1. PICK i1 \in 1 .. Len(list) : list[i1] = list'[h]
        BY <1>3, <3>2
      <4> QED
        BY <3>2, <4>1
    <3>3. CASE list'[i] = s \/ list'[j] = s
      BY <1>l, <2>1, <3>1, <3>2, <3>3
    <3>4. CASE list'[i] # s /\ list'[j] # s
      <4>1. PICK g \in 1 .. Len(list) : list[g] = list'[i]
        BY <1>3, <3>4
      <4>2. PICK h \in 1 .. Len(list) : list[h] = list'[j]
        BY <1>3, <3>4
      <4>3. block_no[list[g]] = block_no[list[h]]
        BY <1>l, <2>1, <3>1, <3>4, <4>1, <4>2
      <4>4. g = h
        BY <4>3 DEF IInv, UniqueBlockNo, TypeOK
      <4> QED
        BY <4>1, <4>2, <4>4
    <3> QED
      BY <3>3, <3>4
  <2> QED
    BY <1>3, <1>l, <2>1 DEF UniqueBlockNo
<1>6. HasStruct'
  <2>1. ASSUME NEW u \in Thread
        PROVE  IF Using(u)' THEN want'[u] \in Block /\ \E j \in 1 .. Len(list') : list'[j] = cur'[u]
                            ELSE want'[u] = None
    <3>1. CASE u = t
      BY <1>1, <1>3, <3>1 DEF IInv, TypeOK, Using
    <3>2. CASE u # t
      <4>1. pc'[u] = pc[u] /\ want'[u] = want[u] /\ cur'[u] = cur[u]
        BY <1>1, <3>2 DEF IInv, TypeOK
      <4>2. IF Using(u) THEN want[u] \in Block /\ \E i \in 1 .. Len(list) : list[i] = cur[u]
                        ELSE want[u] = None
        BY DEF IInv, HasStruct
      <4>3. (\E i \in 1 .. Len(list) : list[i] = cur[u]) => \E j \in 1 .. Len(list') : list'[j] = cur[u]
        BY <1>3
      <4> QED
        BY <4>1, <4>2, <4>3 DEF Using
    <3> QED
      BY <3>1, <3>2
  <2> QED
    BY <2>1 DEF HasStruct
<1>7. ASSUME ~overlapped' PROVE (Apart /\ Marked /\ Content)'
  <2>0. ~overlapped /\ (\A u \in Thread : want[u] # b)
    BY <1>1, <1>7
  <2>1. Apart'
    BY <1>1, <2>0 DEF IInv, AloneInv, Apart, TypeOK
  <2>2. \A u \in Thread : Using(u) => cur[u] # s
    BY <2>0 DEF IInv, AloneInv, Marked
  <2>3. \A u \in Thread : Using(u) => cur[u] \in Slot
    BY DEF IInv, HasStruct, TypeOK
  <2>4. Marked'
    BY <1>1, <2>0, <2>2, <2>3 DEF IInv, AloneInv, Marked, Using, TypeOK
  <2>5. ASSUME NEW j \in 1 .. Len(list'), valid'[list'[j]]
        PROVE  data'[list'[j]] = block_no'[list'[j]]
    <3>1. CASE list'[j] = s
      <4>1. UNCHANGED <<valid, data>> /\ block_no[s] = b
        BY <2>5, <3>1 DEF IInv, TypeOK
      <4>2. data[s] = block_no[s]
        <5>1. PICK i \in 1 .. Len(list) : list[i] = s
          BY <4>1, <2>5, <3>1 DEF IInv, TypeOK
        <5> QED
          BY <2>0, <2>5, <3>1, <4>1, <5>1 DEF IInv, AloneInv, Content
      <4> QED
        BY <3>1, <4>1, <4>2 DEF IInv, TypeOK
    <3>2. CASE list'[j] # s
      <4>1. PICK i \in 1 .. Len(list) : list[i] = list'[j]
        BY <1>3, <3>2
      <4>2. /\ list'[j] \in Slot /\ valid[list'[j]] /\ data'[list'[j]] = data[list'[j]]
            /\ block_no'[list'[j]] = block_no[list'[j]]
        BY <1>l, <2>5, <3>2 DEF IInv, TypeOK
      <4> QED
        BY <2>0, <4>1, <4>2 DEF IInv, AloneInv, Content
    <3> QED
      BY <3>1, <3>2
  <2>6. \A u \in Thread : pc'[u] \in {"loaded", "held", "unlocked"} =>
            /\ pc[u] = pc'[u] /\ u # t /\ cur'[u] = cur[u] /\ want'[u] = want[u]
            /\ cur[u] \in Slot /\ cur[u] # s
            /\ valid'[cur[u]] = valid[cur[u]] /\ data'[cur[u]] = data[cur[u]]
    BY <1>1, <2>2, <2>3 DEF IInv, TypeOK, Using
  <2>7. Content'
    BY <2>0, <2>5, <2>6 DEF IInv, AloneInv, Content
  <2> QED
    BY <2>1, <2>4, <2>7
<1> QED
  BY <1>4, <1>5, <1>6, <1>7 DEF IInv, AloneInv

\* The three ways through the first half of cache_acquire: the block is found,
\* a struct is reused, a struct is new.
LEMMA AcquireKeeps ==
    ASSUME IInv, NEW t \in Thread, NEW b \in Block,
           acquire_cached(t, b) \/ acquire_evict(t, b) \/ acquire_alloc(t, b)
    PROVE  IInv'
<1>0. /\ list \in [1 .. Len(list) -> Slot] /\ Len(list) \in Nat /\ DOMAIN list = 1 .. Len(list)
      /\ block_no \in [Slot -> Block \cup {None}] /\ data \in [Slot -> Block \cup {None}]
  BY DEF IInv, TypeOK
<1>1. CASE acquire_cached(t, b)
  <2>1. PICK k \in Cached(b) : take(t, b, list[k], k)
    BY <1>1 DEF acquire_cached
  <2>2. k \in 1 .. Len(list) /\ list[k] \in Slot /\ block_no[list[k]] = b
    BY <1>0, <2>1 DEF Cached
  <2>3. Placed(list[k], k)
    BY <1>0, <2>2 DEF Placed
  <2>4. \A i \in 1 .. Len(list) : list[i] # list[k] => block_no[list[i]] # b
    BY <1>0, <2>2 DEF IInv, UniqueBlockNo
  <2>5. pc[t] = "idle" /\ UNCHANGED <<valid, data>> /\ block_no' = [block_no EXCEPT ![list[k]] = b]
    BY <1>0, <1>1, <2>2 DEF acquire_cached
  <2> QED
    BY <2>1, <2>2, <2>3, <2>4, <2>5, TakeKeeps
<1>2. CASE acquire_evict(t, b)
  <2>1. PICK k \in Victims : /\ take(t, b, list[k], k)
                             /\ block_no' = [block_no EXCEPT ![list[k]] = b]
                             /\ valid' = [valid EXCEPT ![list[k]] = FALSE]
    BY <1>2 DEF acquire_evict
  <2>2. k \in 1 .. Len(list) /\ list[k] \in Slot /\ ~acquired[list[k]]
    BY <1>0, <2>1 DEF Victims, Evictable
  <2>3. Placed(list[k], k)
    BY <1>0, <2>2 DEF Placed
  <2>4. pc[t] = "idle" /\ UNCHANGED data /\ \A i \in 1 .. Len(list) : block_no[list[i]] # b
    BY <1>0, <1>2 DEF acquire_evict, Cached
  <2>5. ~overlapped => \A u \in Thread : Using(u) => cur[u] # list[k]
    BY <2>2 DEF IInv, AloneInv, Marked
  <2> QED
    BY <1>0, <2>1, <2>2, <2>3, <2>4, <2>5, TakeKeeps
<1>3. CASE acquire_alloc(t, b)
  <2>1. PICK s \in Slot \ Range(list) : /\ take(t, b, s, Len(list) + 1)
                                        /\ block_no' = [block_no EXCEPT ![s] = b]
                                        /\ valid' = [valid EXCEPT ![s] = FALSE]
                                        /\ data' = [data EXCEPT ![s] = None]
    BY <1>3 DEF acquire_alloc
  <2>2. \A i \in 1 .. Len(list) : list[i] # s
    BY <1>0, <2>1 DEF Range
  <2>3. Placed(s, Len(list) + 1)
    BY <1>0, <2>2 DEF Placed
  <2>4. pc[t] = "idle" /\ \A i \in 1 .. Len(list) : block_no[list[i]] # b
    BY <1>0, <1>3 DEF acquire_alloc, Cached
  <2>5. /\ data' \in [Slot -> Block \cup {None}]
        /\ \A x \in Slot : x # s => data'[x] = data[x]
    BY <1>0, <2>1
  <2>6. \A u \in Thread : Using(u) => cur[u] # s
    BY <2>2 DEF IInv, HasStruct
  <2> QED
    BY <2>1, <2>3, <2>4, <2>5, <2>6, TakeKeeps
<1> QED
  BY <1>1, <1>2, <1>3

\* The steps of a thread that has its struct leave the list as it is.
LEMMA HolderKeeps ==
    ASSUME IInv, NEW t \in Thread,
           \/ acquire_sleeplock(t) \/ check_valid(t) \/ device_read(t) \/ set_valid(t)
           \/ \E p \in BOOLEAN : set_pinned(t, p)
           \/ release_sleeplock(t) \/ clear_acquired(t)
    PROVE  IInv'
<1> DEFINE s == cur[t]
<1>0. /\ Using(t) /\ s \in Slot /\ want[t] \in Block
      /\ \A k \in 1 .. Len(list) : list[k] \in Slot
      /\ UNCHANGED <<list, block_no, overlapped>>
  <2>1. Using(t) /\ UNCHANGED <<list, block_no, overlapped>>
    BY DEF acquire_sleeplock, check_valid, device_read, set_valid, set_pinned,
       release_sleeplock, clear_acquired, members, Using
  <2> QED
    BY <2>1 DEF IInv, HasStruct, TypeOK
<1>1. TypeOK'
  <2>1. CASE check_valid(t)
    <3>1. pc' = [pc EXCEPT ![t] = "held"] \/ pc' = [pc EXCEPT ![t] = "read"]
      BY <2>1 DEF check_valid
    <3> QED
      BY <2>1, <3>1 DEF IInv, TypeOK, check_valid, members
  <2>2. CASE device_read(t)
    BY <1>0, <2>2 DEF IInv, TypeOK, device_read
  <2>3. CASE acquire_sleeplock(t) \/ release_sleeplock(t) \/ \E p \in BOOLEAN : set_pinned(t, p)
    BY <2>3 DEF IInv, TypeOK, acquire_sleeplock, release_sleeplock, set_pinned, members
  <2>4. CASE set_valid(t) \/ clear_acquired(t)
    BY <1>0, <2>4 DEF IInv, TypeOK, set_valid, clear_acquired
  <2> QED
    BY <2>1, <2>2, <2>3, <2>4
<1>2. UniqueBlockNo'
  BY <1>0 DEF IInv, UniqueBlockNo
<1>3. \A u \in Thread \ {t} : pc'[u] = pc[u] /\ cur'[u] = cur[u] /\ want'[u] = want[u]
  BY DEF IInv, TypeOK, acquire_sleeplock, check_valid, device_read, set_valid, set_pinned,
     release_sleeplock, clear_acquired, members
<1>4. CASE clear_acquired(t)
  <2>1. /\ pc' = [pc EXCEPT ![t] = "idle"] /\ want' = [want EXCEPT ![t] = None]
        /\ acquired' = [acquired EXCEPT ![s] = FALSE] /\ UNCHANGED <<valid, data>>
    BY <1>4 DEF clear_acquired
  <2>2. pc'[t] = "idle" /\ want'[t] = None
    BY <2>1 DEF IInv, TypeOK
  <2>3. HasStruct'
    BY <1>0, <1>3, <2>2 DEF IInv, HasStruct, Using
  <2>4. ASSUME ~overlapped PROVE (Apart /\ Marked /\ Content)'
    <3>1. Apart'
      BY <1>3, <2>2, <2>4 DEF IInv, AloneInv, Apart
    <3>2. ASSUME NEW u \in Thread, Using(u)'
          PROVE  u # t /\ Using(u) /\ cur[u] # s /\ cur[u] \in Slot
      <4>1. u # t /\ Using(u)
        BY <1>3, <2>2, <3>2 DEF Using
      <4>2. cur[u] # s
        BY <1>0, <2>4, <4>1, OwnStruct
      <4> QED
        BY <4>1, <4>2 DEF IInv, HasStruct, TypeOK
    <3>3. Marked'
      BY <1>0, <1>3, <2>1, <2>4, <3>2 DEF IInv, AloneInv, Marked, TypeOK
    <3>4. Content'
      BY <1>0, <1>3, <2>1, <2>2, <2>4 DEF IInv, AloneInv, Content
    <3> QED
      BY <3>1, <3>3, <3>4
  <2> QED
    BY <1>0, <1>1, <1>2, <2>3, <2>4 DEF IInv, AloneInv
<1>5. CASE ~clear_acquired(t)
  <2>1. UNCHANGED <<acquired, cur, want>> /\ pc'[t] # "idle"
    <3>1. UNCHANGED <<acquired, cur, want>>
      BY <1>5 DEF acquire_sleeplock, check_valid, device_read, set_valid, set_pinned,
         release_sleeplock, members
    <3>2. pc'[t] # "idle"
      BY <1>0, <1>5 DEF IInv, TypeOK, Using, acquire_sleeplock, check_valid, device_read, set_valid,
         set_pinned, release_sleeplock
    <3> QED
      BY <3>1, <3>2
  <2>2. \A u \in Thread : Using(u)' <=> Using(u)
    BY <1>0, <1>3, <2>1 DEF Using
  <2>3. HasStruct'
    BY <1>0, <2>1, <2>2 DEF IInv, HasStruct
  <2>4. ASSUME ~overlapped PROVE (Apart /\ Marked /\ Content)'
    <3>1. (Apart /\ Marked)'
      BY <1>0, <2>1, <2>2, <2>4 DEF IInv, AloneInv, Apart, Marked
    <3>2. \A u \in Thread \ {t} : Using(u) => cur[u] # s
      BY <1>0, <2>4, OwnStruct
    <3>3. block_no[s] = want[t]
      BY <1>0, <2>4 DEF IInv, AloneInv, Marked
    <3>u. \A u \in Thread : Using(u) => cur[u] \in Slot
      BY DEF IInv, HasStruct, TypeOK
    <3>c. Content
      BY <2>4 DEF IInv, AloneInv
    <3>4. CASE device_read(t)
      <4>1. data' = [data EXCEPT ![s] = want[t]] /\ UNCHANGED valid /\ pc' = [pc EXCEPT ![t] = "loaded"]
        BY <3>3, <3>4 DEF device_read
      <4>2. \A x \in Slot : data'[x] = IF x = s THEN want[t] ELSE data[x]
        BY <1>0, <4>1 DEF IInv, TypeOK
      <4>3. \A k \in 1 .. Len(list) : valid[list[k]] => data'[list[k]] = block_no[list[k]]
        BY <1>0, <3>3, <3>c, <4>2 DEF Content
      <4>4. pc'[t] = "loaded"
        BY <4>1 DEF IInv, TypeOK
      <4>5. \A u \in Thread : pc'[u] = "loaded" => data'[cur[u]] = want[u]
        <5>1. ASSUME NEW u \in Thread \ {t}, pc'[u] = "loaded" PROVE data'[cur[u]] = want[u]
          <6>1. data[cur[u]] = want[u] /\ cur[u] \in Slot /\ cur[u] # s
            BY <1>3, <3>2, <3>u, <3>c, <5>1 DEF Content, Using
          <6> QED
            BY <4>2, <6>1
        <5>2. data'[cur[t]] = want[t]
          BY <1>0, <4>2
        <5> QED
          BY <5>1, <5>2
      <4>6. \A u \in Thread : pc'[u] \in {"held", "unlocked"} => valid[cur[u]]
        BY <1>3, <3>c, <4>4 DEF Content
      <4>7. list' = list /\ block_no' = block_no /\ cur' = cur /\ want' = want /\ valid' = valid
        BY <1>0, <2>1, <4>1
      <4> QED
        BY <3>1, <4>3, <4>5, <4>6, <4>7, Zenon DEF Content
    <3>5. CASE set_valid(t)
      <4>1. /\ valid' = [valid EXCEPT ![s] = TRUE] /\ UNCHANGED data
            /\ pc' = [pc EXCEPT ![t] = "held"] /\ data[s] = want[t]
        BY <3>5, <3>c DEF set_valid, Content
      <4>2. \A x \in Slot : valid'[x] = IF x = s THEN TRUE ELSE valid[x]
        BY <1>0, <4>1 DEF IInv, TypeOK
      <4>3. \A k \in 1 .. Len(list) : valid'[list[k]] => data[list[k]] = block_no[list[k]]
        BY <1>0, <3>3, <3>c, <4>1, <4>2 DEF Content
      <4>4. pc'[t] = "held"
        BY <4>1 DEF IInv, TypeOK
      <4>5. \A u \in Thread : pc'[u] = "loaded" => data[cur[u]] = want[u]
        BY <1>3, <3>c, <4>4 DEF Content
      <4>6. \A u \in Thread : pc'[u] \in {"held", "unlocked"} => valid'[cur[u]]
        <5>1. ASSUME NEW u \in Thread \ {t}, pc'[u] \in {"held", "unlocked"} PROVE valid'[cur[u]]
          <6>1. valid[cur[u]] /\ cur[u] \in Slot /\ cur[u] # s
            BY <1>3, <3>2, <3>u, <3>c, <5>1 DEF Content, Using
          <6> QED
            BY <4>2, <6>1
        <5>2. valid'[cur[t]]
          BY <1>0, <4>2
        <5> QED
          BY <5>1, <5>2
      <4>7. list' = list /\ block_no' = block_no /\ cur' = cur /\ want' = want /\ data' = data
        BY <1>0, <2>1, <4>1
      <4> QED
        BY <3>1, <4>3, <4>5, <4>6, <4>7, Zenon DEF Content
    <3>6. CASE ~device_read(t) /\ ~set_valid(t)
      <4>1. UNCHANGED <<valid, data>>
        BY <1>5, <3>6 DEF acquire_sleeplock, check_valid, set_pinned, release_sleeplock, members
      <4>2. pc'[t] # "loaded" /\ (pc'[t] \in {"held", "unlocked"} => valid[s])
        BY <1>5, <3>6, <3>c DEF IInv, TypeOK, Content, acquire_sleeplock, check_valid, set_pinned,
           release_sleeplock
      <4>3. /\ \A u \in Thread : pc'[u] = "loaded" => data[cur[u]] = want[u]
            /\ \A u \in Thread : pc'[u] \in {"held", "unlocked"} => valid[cur[u]]
        BY <1>3, <3>c, <4>2 DEF Content
      <4>4. /\ list' = list /\ block_no' = block_no /\ cur' = cur /\ want' = want
            /\ data' = data /\ valid' = valid
        BY <1>0, <2>1, <4>1
      <4> QED
        BY <3>1, <3>c, <4>3, <4>4, Zenon DEF Content
    <3> QED
      BY <3>1, <3>4, <3>5, <3>6
  <2> QED
    BY <1>0, <1>1, <1>2, <2>3, <2>4 DEF IInv, AloneInv
<1> QED
  BY <1>4, <1>5

\* Every step preserves the invariant.
LEMMA Inductive == IInv /\ [Next]_vars => IInv'
<1> SUFFICES ASSUME IInv, [Next]_vars PROVE IInv'
  OBVIOUS
<1>1. CASE UNCHANGED vars
  BY <1>1 DEF vars, members, IInv, TypeOK, UniqueBlockNo, HasStruct, Using, AloneInv, Apart,
     Marked, Content
<1>2. CASE Next
  BY <1>2, AcquireKeeps, HolderKeeps DEF Next
<1> QED
  BY <1>1, <1>2

\* Two calls of cache_acquire for one block never make two copies of it, for
\* any number of threads and any threshold.
THEOREM CachedOnce == Spec => []UniqueBlockNo
<1>1. IInv => UniqueBlockNo
  BY DEF IInv
<1> QED
  BY <1>1, Initial, Inductive, PTL DEF Spec

\* As long as no two threads use the same block at the same time, the struct a
\* thread holds or waits for is not reused, and cache_acquire returns the
\* content of the block that was asked for.
THEOREM AloneKeepsBlock == Spec => []AloneGetsOwnBlock
<1>1. IInv => AloneGetsOwnBlock
  <2> SUFFICES ASSUME IInv, ~overlapped PROVE /\ HeldBlockKept
                                              /\ \A t \in Thread : pc[t] = "held" => data[cur[t]] = want[t]
    BY DEF AloneGetsOwnBlock
  <2>1. HeldBlockKept
    BY DEF IInv, AloneInv, Marked, HeldBlockKept, Inside, Using
  <2>2. ASSUME NEW t \in Thread, pc[t] = "held" PROVE data[cur[t]] = want[t]
    <3>1. Using(t)
      BY <2>2 DEF Using
    <3>2. PICK k \in 1 .. Len(list) : list[k] = cur[t]
      BY <3>1 DEF IInv, HasStruct
    <3>3. Marked /\ Content
      BY DEF IInv, AloneInv
    <3>4. block_no[cur[t]] = want[t]
      BY <3>1, <3>3 DEF Marked
    <3>5. valid[cur[t]]
      BY <2>2, <3>3 DEF Content
    <3>6. valid[list[k]] => data[list[k]] = block_no[list[k]]
      BY <3>3 DEF Content
    <3> QED
      BY Zenon, <3>2, <3>4, <3>5, <3>6
  <2> QED
    BY <2>1, <2>2
<1> QED
  BY <1>1, Initial, Inductive, PTL DEF Spec
=============================================================================
