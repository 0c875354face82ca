----------------------------- MODULE MemoryProof -----------------------------
(***************************************************************************)
(* Proofs about Memory, for any number of processes, CPUs, pages and       *)
(* objects per page.  The arena: the head of its ring has an empty slot    *)
(* whenever a page of it has one.  Processes: the pages of the free list,  *)
(* of images, stacks and the arena, with those the code forgets, are       *)
(* always all the pages, and user code runs on the directory of its own    *)
(* process.                                                                *)
(***************************************************************************)
EXTENDS Memory, FiniteSetTheorems, TLAPS

Slots == 0 .. max_count - 1

\* A ring in which no page comes twice and all full pages come last.
GoodRing(s) ==
    /\ s \in Seq(Page)
    /\ \A i, j \in 1 .. Len(s) : s[i] = s[j] => i = j
    /\ \A i, j \in 1 .. Len(s) : i < j /\ Full(s[i]) => Full(s[j])

\* Counts and bitmaps agree.
Counted ==
    /\ used \in [Page -> SUBSET Slots]
    /\ count \in [Page -> Nat]
    /\ \A p \in Page : count[p] = Cardinality(used[p])

\* A page that kalloc will give is clear when init_arena_page is done with it.
OthersClear == \A p \in Page : (\A i \in 1 .. Len(pages) : pages[i] # p) => used[p] = {}

\* The arena after init_arena and after clear_arena.
Cleared == pages = <<>> /\ used = [p \in Page |-> {}] /\ count = [p \in Page |-> 0]

ArenaInv == GoodRing(pages) /\ Counted /\ OthersClear
-----------------------------------------------------------------------------
\* A function on 1 .. n is a sequence of length n.
LEMMA FunctionIsSeq ==
    ASSUME NEW n \in Nat, NEW f \in [1 .. n -> Page]
    PROVE  f \in Seq(Page) /\ Len(f) = n
<1>1. f \in Seq(Page)
  OBVIOUS
<1>2. DOMAIN f = 1 .. n /\ DOMAIN f = 1 .. Len(f) /\ Len(f) \in Nat
  BY <1>1
<1> QED
  BY <1>1, <1>2

\* The bitmap of a page is finite, and has a bit left if the page is not full.
LEMMA SlotLeft ==
    ASSUME Counted, NEW p \in Page
    PROVE  /\ IsFiniteSet(used[p]) /\ count[p] <= max_count
           /\ ~Full(p) => Slots \ used[p] # {}
<1>1. used[p] \in SUBSET Slots /\ count[p] = Cardinality(used[p]) /\ count[p] \in Nat
  BY DEF Counted
<1>2. IsFiniteSet(Slots) /\ Cardinality(Slots) = max_count
  BY FS_Interval, MaxCountAssumption DEF Slots
<1>3. IsFiniteSet(used[p]) /\ Cardinality(used[p]) <= Cardinality(Slots)
  BY <1>1, <1>2, FS_Subset
<1>4. Slots \ used[p] = {} => used[p] = Slots
  BY <1>1
<1> QED
  BY <1>1, <1>2, <1>3, <1>4, MaxCountAssumption DEF Full

\* The rest of alloc_object keeps the invariant on a good ring whose head has
\* a slot: a page that gets full goes to the end.
LEMMA TakeSlot ==
    ASSUME Counted, NEW s, GoodRing(s), Len(s) > 0, ~Full(s[1]), take_slot(s),
           \A p \in Page : (\A i \in 1 .. Len(s) : s[i] # p) => used[p] = {}
    PROVE  ArenaInv'
<1> DEFINE p == s[1]
<1>1. p \in Page /\ Len(s) \in Nat /\ s \in [1 .. Len(s) -> Page]
  BY DEF GoodRing
<1>2. PICK index \in Slots \ used[p] :
      /\ used' = [used EXCEPT ![p] = @ \cup {index}]
      /\ count' = [count EXCEPT ![p] = @ + 1]
      /\ pages' = IF count[p] + 1 >= max_count THEN next_page(s) ELSE s
  BY Zenon DEF take_slot, Slots
<1> HIDE DEF p
<1>4. Counted'
  <2>1. IsFiniteSet(used[p])
    BY <1>1, SlotLeft
  <2>2. Cardinality(used[p] \cup {index}) = Cardinality(used[p]) + 1
    BY Zenon, <2>1, FS_AddElement
  <2>3. used' \in [Page -> SUBSET Slots] /\ count' \in [Page -> Nat]
    BY <1>1, <1>2 DEF Counted
  <2> QED
    BY <1>1, <1>2, <2>2, <2>3 DEF Counted
<1>5. /\ \A q \in Page \ {p} : Full(q)' <=> Full(q)
      /\ Full(p)' <=> count[p] + 1 >= max_count
  BY <1>1, <1>2 DEF Full, Counted
<1>6. CASE count[p] + 1 >= max_count
  <2>1. pages' = [j \in 1 .. Len(s) |-> IF j = Len(s) THEN s[1] ELSE s[j + 1]]
    BY <1>2, <1>6 DEF next_page
  <2>2. pages' \in [1 .. Len(s) -> Page]
    BY <1>1, <2>1
  <2>3. pages' \in Seq(Page) /\ Len(pages') = Len(s)
    BY <1>1, <2>2, FunctionIsSeq
  <2>4. \A i, j \in 1 .. Len(s) : pages'[i] = pages'[j] => i = j
    BY <1>1, <2>1 DEF GoodRing
  <2>5. ASSUME NEW i \in 1 .. Len(s), NEW j \in 1 .. Len(s), i < j, Full(pages[i])'
        PROVE  Full(pages[j])'
    <3>1. pages'[i] = s[i + 1] /\ i + 1 \in 2 .. Len(s)
      BY <1>1, <2>1, <2>5
    <3>2. s[i + 1] \in Page /\ s[i + 1] # p
      BY <1>1, <3>1 DEF GoodRing, p
    <3>3. Full(s[i + 1])
      BY <1>5, <2>5, <3>1, <3>2 DEF Full
    <3>4. CASE j = Len(s)
      BY <1>1, <1>5, <1>6, <2>1, <3>4 DEF p, Full
    <3>5. CASE j # Len(s)
      <4>1. pages'[j] = s[j + 1] /\ j + 1 \in 2 .. Len(s) /\ i + 1 < j + 1
        BY <1>1, <2>1, <2>5, <3>5
      <4>2. s[j + 1] \in Page /\ s[j + 1] # p
        BY <1>1, <4>1 DEF GoodRing, p
      <4>3. Full(s[j + 1])
        BY <1>1, <3>1, <3>3, <4>1 DEF GoodRing
      <4> QED
        BY <1>5, <4>1, <4>2, <4>3 DEF Full
    <3> QED  BY <3>4, <3>5
  <2>6. GoodRing(pages)'
    BY <2>3, <2>4, <2>5 DEF GoodRing
  <2>7. OthersClear'
    <3>1. ASSUME NEW q \in Page, \A i \in 1 .. Len(s) : pages'[i] # q PROVE used'[q] = {}
      <4>1. ASSUME NEW i \in 1 .. Len(s) PROVE s[i] # q
        <5>1. CASE i = 1
          BY <1>1, <2>1, <3>1, <5>1
        <5>2. CASE i # 1
          BY <1>1, <2>1, <3>1, <5>2, i - 1 \in 1 .. Len(s), pages'[i - 1] = s[i]
        <5> QED  BY <5>1, <5>2
      <4>2. q # p /\ used[q] = {}
        BY <1>1, <4>1 DEF p
      <4> QED
        BY <1>1, <1>2, <4>2 DEF Counted
    <3> QED
      BY <2>3, <3>1 DEF OthersClear
  <2> QED
    BY <1>4, <2>6, <2>7 DEF ArenaInv
<1>7. CASE ~(count[p] + 1 >= max_count)
  <2>1. pages' = s
    BY <1>2, <1>7
  <2>2. ASSUME NEW i \in 1 .. Len(s), NEW j \in 1 .. Len(s), i < j, Full(s[i])'
        PROVE  Full(s[j])'
    <3>1. s[i] \in Page /\ s[j] \in Page /\ s[j] # p
      BY <1>1, <2>2 DEF GoodRing, p
    <3>2. s[i] # p
      BY <1>5, <1>7, <2>2, <2>1 DEF Full
    <3> QED
      BY <1>5, <2>1, <2>2, <3>1, <3>2 DEF GoodRing, Full
  <2>3. GoodRing(pages)'
    BY <2>1, <2>2 DEF GoodRing, Full
  <2>4. OthersClear'
    BY <1>1, <1>2, <2>1 DEF OthersClear, Counted, p
  <2> QED
    BY <1>4, <2>3, <2>4 DEF ArenaInv
<1> QED
  BY <1>6, <1>7

\* alloc_object on the head, or on a page it adds.
LEMMA AllocKeeps ==
    ASSUME ArenaInv, alloc_object \/ alloc_object_new_page
    PROVE  ArenaInv'
<1>1. CASE alloc_object
  BY <1>1, TakeSlot DEF alloc_object, ArenaInv, OthersClear
<1>2. CASE alloc_object_new_page
  <2>1. PICK p \in Page \ ArenaPages : take_slot(insert_page(pages, p))
    BY <1>2 DEF alloc_object_new_page
  <2> DEFINE s == insert_page(pages, p)
             n == Len(pages)
  <2>2. n \in Nat /\ pages \in [1 .. n -> Page]
    BY DEF ArenaInv, GoodRing
  <2>3. s = [j \in 1 .. n + 1 |-> IF j = 1 THEN p ELSE pages[j - 1]]
    BY DEF insert_page
  <2>4. s \in [1 .. n + 1 -> Page]
    BY <2>2, <2>3
  <2>5. s \in Seq(Page) /\ Len(s) = n + 1
    BY <2>2, <2>4, FunctionIsSeq
  <2>6. s[1] = p /\ \A j \in 2 .. n + 1 : s[j] = pages[j - 1] /\ j - 1 \in 1 .. n
    BY <2>2, <2>3
  <2>7. \A i \in 1 .. n : pages[i] # p
    BY <2>1 DEF ArenaPages
  <2>8. used[p] = {} /\ ~Full(p)
    <3>1. used[p] = {}
      BY <2>7 DEF ArenaInv, OthersClear
    <3>2. count[p] = 0
      BY <3>1, FS_EmptySet DEF ArenaInv, Counted
    <3> QED
      BY <3>1, <3>2, MaxCountAssumption DEF Full
  <2>t. take_slot(s)
    BY <2>1
  <2> HIDE DEF s, n
  <2>9. GoodRing(s)
    <3>1. ASSUME NEW i \in 1 .. n + 1, NEW j \in 1 .. n + 1, s[i] = s[j]
          PROVE  i = j
      BY <2>2, <2>6, <2>7, <3>1 DEF ArenaInv, GoodRing, n
    <3>2. ASSUME NEW i \in 1 .. n + 1, NEW j \in 1 .. n + 1, i < j, Full(s[i])
          PROVE  Full(s[j])
      <4>1. i # 1 /\ i \in 2 .. n + 1 /\ j \in 2 .. n + 1
        BY <2>2, <2>6, <2>8, <3>2
      <4>2. Full(pages[i - 1]) /\ i - 1 < j - 1
        BY <2>2, <2>6, <3>2, <4>1
      <4> QED
        BY <2>6, <4>1, <4>2 DEF ArenaInv, GoodRing, n
    <3> QED
      BY <2>5, <3>1, <3>2 DEF GoodRing
  <2>10. ASSUME NEW q \in Page, \A i \in 1 .. n + 1 : s[i] # q PROVE used[q] = {}
    <3>1. ASSUME NEW i \in 1 .. n PROVE pages[i] # q
      <4>1. i + 1 \in 2 .. n + 1 /\ i + 1 \in 1 .. n + 1 /\ (i + 1) - 1 = i
        BY <2>2
      <4>2. s[i + 1] = pages[i]
        BY <2>6, <4>1
      <4> QED
        BY <2>10, <4>1, <4>2
    <3> QED
      BY <3>1 DEF ArenaInv, OthersClear, n
  <2> QED
    BY <2>2, <2>5, <2>6, <2>8, <2>t, <2>9, <2>10, TakeSlot DEF ArenaInv
<1> QED
  BY <1>1, <1>2

\* free_object moves the page to the head: it has a slot now.
LEMMA FreeKeeps ==
    ASSUME ArenaInv, NEW k \in 1 .. Len(pages), NEW index \in Slots, free_object(k, index)
    PROVE  ArenaInv'
<1>1. PICK n \in Nat, p \in Page : n = Len(pages) /\ p = pages[k] /\ pages \in [1 .. n -> Page]
  <2>1. Len(pages) \in Nat /\ pages \in [1 .. Len(pages) -> Page]
    BY DEF ArenaInv, GoodRing
  <2> QED
    BY Zenon, <2>1
<1>2. /\ index \in used[p]
      /\ used' = [used EXCEPT ![p] = @ \ {index}]
      /\ count' = [count EXCEPT ![p] = @ - 1]
      /\ pages' = [j \in 1 .. n |-> IF j = 1 THEN p
                                     ELSE IF j <= k THEN pages[j - 1] ELSE pages[j]]
  BY <1>1 DEF free_object, move_page_to_head
<1>k. k \in 1 .. n /\ k \in Int
  BY <1>1
<1>i. \A i, j \in 1 .. n : pages[i] = pages[j] => i = j
  BY <1>1 DEF ArenaInv, GoodRing
<1>s. \A i, j \in 1 .. n : i < j /\ Full(pages[i]) => Full(pages[j])
  BY <1>1 DEF ArenaInv, GoodRing
<1>3. /\ Cardinality(used[p] \ {index}) = count[p] - 1
      /\ count[p] \in Nat \ {0} /\ count[p] <= max_count
  <2>1. IsFiniteSet(used[p]) /\ count[p] <= max_count /\ count[p] = Cardinality(used[p])
    BY <1>1, SlotLeft DEF ArenaInv, Counted
  <2>2. count[p] \in Nat /\ (count[p] = 0 <=> used[p] = {})
    BY <1>1, <2>1, FS_EmptySet DEF ArenaInv, Counted
  <2> QED
    BY Zenon, <1>2, <2>1, <2>2, FS_RemoveElement
<1>4. Counted'
  <2>1. used' \in [Page -> SUBSET Slots] /\ count' \in [Page -> Nat]
    BY <1>1, <1>2, <1>3 DEF ArenaInv, Counted
  <2> QED
    BY <1>1, <1>2, <1>3, <2>1 DEF ArenaInv, Counted
<1>5. /\ \A q \in Page \ {p} : Full(q)' <=> Full(q)
      /\ ~Full(p)'
  BY <1>1, <1>2, <1>3, MaxCountAssumption DEF Full, ArenaInv, Counted
<1>6. pages' \in Seq(Page) /\ Len(pages') = n
  <2>1. pages' \in [1 .. n -> Page]
    BY <1>1, <1>2, <1>k
  <2> QED
    BY <1>1, <2>1, FunctionIsSeq
\* Where the page at place j comes from.
<1> DEFINE from(j) == IF j = 1 THEN k ELSE IF j <= k THEN j - 1 ELSE j
<1>7. /\ \A j \in 1 .. n : from(j) \in 1 .. n /\ pages'[j] = pages[from(j)]
      /\ \A i, j \in 1 .. n : from(i) = from(j) => i = j
      /\ \A i, j \in 1 .. n : 1 < i /\ i < j => from(i) < from(j) /\ from(i) # k /\ from(j) # k
  BY <1>1, <1>2, <1>k
<1>8. \A i \in 1 .. n : \E j \in 1 .. n : from(j) = i
  <2> SUFFICES ASSUME NEW i \in 1 .. n PROVE \E j \in 1 .. n : from(j) = i
    BY Zenon
  <2>1. CASE i = k
    BY <1>1, <2>1
  <2>2. CASE i < k
    BY <1>1, <1>k, <2>2, i + 1 \in 1 .. n, from(i + 1) = i
  <2>3. CASE i > k
    BY <1>1, <1>k, <2>3, from(i) = i
  <2> QED
    BY <1>1, <1>k, <2>1, <2>2, <2>3
<1>9. pages'[1] = p
  BY <1>1, <1>2, <1>k
<1> HIDE DEF from
<1>10. ASSUME NEW i \in 1 .. n, NEW j \in 1 .. n, i < j, Full(pages[i])'
       PROVE  Full(pages[j])'
  <2>1. 1 < i
    BY <1>5, <1>9, <1>10, <1>1 DEF Full
  <2>2. from(i) < from(j) /\ from(i) # k /\ from(j) # k /\ from(i) \in 1 .. n /\ from(j) \in 1 .. n
    BY <1>7, <1>10, <2>1
  <2>3. /\ pages[from(i)] \in Page \ {p} /\ pages[from(j)] \in Page \ {p}
        /\ pages'[i] = pages[from(i)] /\ pages'[j] = pages[from(j)]
    BY <1>1, <1>7, <1>i, <1>k, <2>2
  <2>4. Full(pages[from(i)])
    BY <1>5, <1>10, <2>3 DEF Full
  <2>5. Full(pages[from(j)])
    BY <1>s, <2>2, <2>4
  <2> QED
    BY <1>5, <2>3, <2>5 DEF Full
<1>11. GoodRing(pages)'
  <2>1. \A i, j \in 1 .. n : pages'[i] = pages'[j] => i = j
    BY Zenon, <1>7, <1>i
  <2>2. \A i, j \in 1 .. n : i < j /\ Full(pages[i])' => Full(pages[j])'
    BY <1>10
  <2> QED
    BY <1>6, <2>1, <2>2 DEF GoodRing
<1>12. OthersClear'
  <2>1. ASSUME NEW q \in Page, \A j \in 1 .. n : pages'[j] # q PROVE used'[q] = {}
    <3>1. \A i \in 1 .. n : pages[i] # q
      BY Zenon, <1>7, <1>8, <2>1
    <3>2. used[q] = {} /\ q # p
      BY <1>1, <1>k, <3>1 DEF ArenaInv, OthersClear
    <3> QED
      BY <1>1, <1>2, <3>2 DEF ArenaInv, Counted
  <2> QED
    BY <1>6, <2>1 DEF OthersClear
<1> QED
  BY <1>4, <1>11, <1>12 DEF ArenaInv

\* A step of a process, or one that only changes the free list, leaves the
\* arena alone.
LEMMA OthersKeep ==
    ASSUME ArenaInv, UNCHANGED <<pages, used, count>>
    PROVE  ArenaInv'
BY DEF ArenaInv, GoodRing, Counted, OthersClear, Full

\* The empty ring and clear bitmaps satisfy the invariant.
LEMMA EmptyArena == Cleared => ArenaInv
<1> SUFFICES ASSUME Cleared PROVE ArenaInv
  OBVIOUS
<1> USE DEF Cleared
<1>1. pages \in Seq(Page) /\ Len(pages) = 0
  OBVIOUS
<1>2. Counted
  BY FS_EmptySet, MaxCountAssumption DEF Counted, Slots
<1>3. GoodRing(pages)
  BY <1>1 DEF GoodRing
<1> QED
  BY <1>2, <1>3 DEF ArenaInv, OthersClear

\* Every step of Memory keeps the arena's invariant.
LEMMA ArenaInductive == ArenaInv /\ [Next]_vars => ArenaInv'
<1> SUFFICES ASSUME ArenaInv, [Next]_vars PROVE ArenaInv'
  OBVIOUS
<1>1. CASE UNCHANGED vars
  BY <1>1, OthersKeep DEF vars, arenavars
<1>2. CASE Next
  <2>1. CASE ArenaNext
    <3>1. CASE alloc_object \/ alloc_object_new_page
      BY <3>1, AllocKeeps
    <3>2. CASE alloc_object_fails
      BY <3>2, OthersKeep DEF alloc_object_fails
    <3>3. ASSUME NEW i \in 1 .. Len(pages), NEW index \in 0 .. max_count - 1, free_object(i, index)
          PROVE  ArenaInv'
      BY <3>3, FreeKeeps DEF Slots
    <3>4. CASE clear_arena
      <4>1. Cleared'
        BY <3>4 DEF clear_arena, Cleared
      <4> QED
        BY <4>1, EmptyArena, PTL
    <3> QED
      BY <2>1, <3>1, <3>2, <3>3, <3>4 DEF ArenaNext
  <2>2. CASE ~ArenaNext
    <3>1. UNCHANGED <<pages, used, count>>
      BY Zenon, <1>2, <2>2 DEF Next, panic, keep_arena, switch, fork, wait, yield, exit, leave,
         grow_step, grow_end, shrink, growproc, execve, exec_bad, exec_elf, exec_load,
         exec_args, exec_free, exec_fails
    <3> QED
      BY <3>1, OthersKeep
  <2> QED
    BY <2>1, <2>2
<1> QED
  BY <1>1, <1>2

\* alloc_object looks only at the head of the ring, and that is enough: counts
\* agree with bitmaps, and as long as a page has an empty slot the head has one.
THEOREM HeadHasRoom == Spec => []RoomAtHead
<1>1. Init => ArenaInv
  BY Zenon, EmptyArena DEF Init, ArenaInit, Cleared
<1>2. ArenaInv => RoomAtHead
  <2> SUFFICES ASSUME ArenaInv PROVE RoomAtHead
    OBVIOUS
  <2>1. pages \in [1 .. Len(pages) -> Page] /\ Len(pages) \in Nat
    BY DEF ArenaInv, GoodRing
  <2>2. \A i \in 1 .. Len(pages) : count[pages[i]] = Cardinality(used[pages[i]])
    BY <2>1 DEF ArenaInv, Counted
  <2>3. (\E i \in 1 .. Len(pages) : ~Full(pages[i])) => ~Full(pages[1])
    BY <2>1 DEF ArenaInv, GoodRing
  <2> QED
    BY <2>2, <2>3 DEF RoomAtHead
<1> QED
  BY <1>1, <1>2, ArenaInductive, PTL DEF Spec
-----------------------------------------------------------------------------
\* The two images of a process.
Own(p) == {<<p, 0>>, <<p, 1>>}

Size == 0 .. Low

ProcType ==
    [state : {"UNUSED", "RUNNABLE", "RUNNING", "ZOMBIE"}, parent : Proc \cup {None},
     pgdir : Image \cup {None}, sz : Size,
     pc : {"user", "grow", "namei", "load", "bad", "put"},
     old : Image \cup {None}, a : Size, newsz : Size]

MemType ==
    /\ freelist \in Int /\ lost \in Int /\ IsFiniteSet(zero)
    /\ proc \in [Proc -> ProcType]
    /\ image \in [Image -> SUBSET Parts]
    /\ current \in [Cpu -> Proc \cup {None}]
    /\ ttbr0 \in [Cpu -> Image \cup {None}]

\* Outside execve a process has the image of p->pgdir only; in execve it has
\* the old one and the one it makes, which has no stack before the last step.
Images(p, r, im) ==
    /\ r.state = "UNUSED" => r.pc = "user" /\ \A d \in Own(p) : im[d] = {}
    /\ r.state # "UNUSED" => r.pgdir \in Own(p)
    /\ r.state = "ZOMBIE" => r.pc = "user"
    /\ r.state # "UNUSED" /\ r.pc \in {"user", "grow"} => im[new(r.pgdir)] = {} /\ DIR \in im[r.pgdir]
    /\ r.pc \notin {"user", "grow"} =>
         r.old \in Own(p) /\ DIR \in im[r.old] /\ r.pgdir \in {r.old, new(r.old)}
    /\ r.pc = "namei" => r.pgdir = r.old
    /\ r.pc = "load" => r.pgdir = new(r.old)
    /\ r.pc \in {"namei", "load"} =>
         DIR \in im[new(r.old)] /\ STACK \notin im[new(r.old)] /\ table_of(STACK) \notin im[new(r.old)]
    /\ r.pc = "put" => im[new(r.old)] = {}

\* A CPU uses the directory of its process where execve has not set p->pgdir.
OnTable(c) ==
    LET r == Me(c)
    IN  /\ current[c] # None /\ current[c] \notin failed
        /\ r.pc \in {"user", "grow", "namei"} \/ (r.pc \in {"bad", "put"} /\ r.pgdir = r.old)
        => ttbr0[c] = r.pgdir

\* A process runs on one CPU at most.
Running ==
    /\ \A c \in Cpu : current[c] # None => proc[current[c]].state = "RUNNING"
    /\ \A c, d \in Cpu : current[c] = current[d] /\ current[c] # None => c = d

ImagesInv == \A p \in Proc : Images(p, proc[p], image)

TableInv == \A c \in Cpu : OnTable(c)

MemInv == MemType /\ ImagesInv /\ Running /\ TableInv
-----------------------------------------------------------------------------
\* The parts of all images.
Mapped(im) == {x \in Image \X Parts : x[2] \in im[x[1]]}

\* One element, or two.
LEMMA Few ==
    /\ \A x : IsFiniteSet({x}) /\ Cardinality({x}) = 1
    /\ \A x, y : x # y => IsFiniteSet({x, y}) /\ Cardinality({x, y}) = 2
<1>1. \A x : IsFiniteSet({x}) /\ Cardinality({x}) = 1
  BY Zenon, FS_Singleton
<1>2. ASSUME NEW x, NEW y, x # y PROVE IsFiniteSet({x, y}) /\ Cardinality({x, y}) = 2
  <2>1. {x, y} = {x} \cup {y} /\ y \notin {x}
    BY <1>2
  <2>2. IsFiniteSet({x} \cup {y}) /\ Cardinality({x} \cup {y}) = Cardinality({x}) + 1
    BY Zenon, <1>1, <2>1, FS_AddElement
  <2> QED
    BY <1>1, <2>1, <2>2
<1> QED
  BY Zenon, <1>1, <1>2

\* There are finitely many parts of images, and a set of parts is finite.
LEMMA PartsFinite ==
    /\ IsFiniteSet(Image) /\ IsFiniteSet(Parts) /\ IsFiniteSet(Image \X Parts)
    /\ \A P \in SUBSET Parts : IsFiniteSet(P) /\ Cardinality(P) \in Nat
<1>1. IsFiniteSet({0, 1})
  <2>1. 0 # 1
    OBVIOUS
  <2> QED
    BY Zenon, <2>1, Few
<1>2. IsFiniteSet(Image)
  BY <1>1, FS_Product, MemoryAssumption DEF Image
<1>3. IsFiniteSet(Parts)
  <2>1. -3 - Low \in Int /\ Low \in Int
    BY MemoryAssumption
  <2> QED
    BY <2>1, FS_Interval DEF Parts
<1>4. IsFiniteSet(Image \X Parts)
  BY <1>2, <1>3, FS_Product
<1>5. \A P \in SUBSET Parts : IsFiniteSet(P) /\ Cardinality(P) \in Nat
  BY <1>3, FS_Subset, FS_CardinalityType
<1> QED
  BY <1>2, <1>3, <1>4, <1>5

\* When one image changes, the number of parts of all images changes by the
\* difference of the number of its parts.
LEMMA MappedUpdate ==
    ASSUME NEW im \in [Image -> SUBSET Parts], NEW d \in Image, NEW P \in SUBSET Parts
    PROVE  /\ Cardinality(Mapped(im)) \in Nat
           /\ Cardinality(Mapped([im EXCEPT ![d] = P]))
                = Cardinality(Mapped(im)) - Cardinality(im[d]) + Cardinality(P)
<1> DEFINE rest == {x \in Image \X Parts : x[2] \in im[x[1]] /\ x[1] # d}
<1>1. IsFiniteSet(rest) /\ Cardinality(rest) \in Nat
  <2>1. rest \subseteq Image \X Parts
    OBVIOUS
  <2> QED
    BY <2>1, PartsFinite, FS_Subset, FS_CardinalityType
<1>2. ASSUME NEW f \in [Image -> SUBSET Parts], \A e \in Image \ {d} : f[e] = im[e]
      PROVE  Cardinality(Mapped(f)) = Cardinality(rest) + Cardinality(f[d])
  <2>1. Mapped(f) = rest \cup ({d} \X f[d])
    <3>1. ASSUME NEW x PROVE x \in Mapped(f) <=> x \in rest \cup ({d} \X f[d])
      <4>1. x \in {d} \X f[d] => x \in Image \X Parts
        OBVIOUS
      <4>2. CASE x \in Image \X Parts
        <5>1. PICK e \in Image, q \in Parts : x = <<e, q>>
          BY <4>2
        <5>2. x[1] = e /\ x[2] = q
          BY <5>1
        <5>3. x \in Mapped(f) <=> q \in f[e]
          BY <5>1, <5>2 DEF Mapped
        <5>4. x \in rest <=> q \in im[e] /\ e # d
          BY <5>1, <5>2
        <5>5. x \in {d} \X f[d] <=> e = d /\ q \in f[d]
          BY <5>1
        <5> QED
          BY <5>3, <5>4, <5>5, <1>2
      <4> QED
        BY <4>1, <4>2 DEF Mapped
    <3> QED
      BY <3>1
  <2>2. rest \cap ({d} \X f[d]) = {}
    OBVIOUS
  <2>3. IsFiniteSet(f[d]) /\ Cardinality(f[d]) \in Nat
    BY PartsFinite
  <2>4. IsFiniteSet({d}) /\ Cardinality({d}) = 1
    BY Zenon, FS_Singleton
  <2>5. IsFiniteSet({d} \X f[d]) /\ Cardinality({d} \X f[d]) = 1 * Cardinality(f[d])
    BY <2>3, <2>4, FS_Product
  <2>6. Cardinality(rest \cup ({d} \X f[d]))
          = Cardinality(rest) + Cardinality({d} \X f[d]) - Cardinality(rest \cap ({d} \X f[d]))
    BY <1>1, <2>5, FS_Union
  <2>7. Cardinality(rest \cap ({d} \X f[d])) = 0
    BY Zenon, <2>2, FS_EmptySet
  <2> HIDE DEF rest
  <2> QED
    BY <1>1, <2>1, <2>3, <2>5, <2>6, <2>7
<1> HIDE DEF rest
<1>3. Cardinality(Mapped(im)) = Cardinality(rest) + Cardinality(im[d])
  BY <1>2
<1>4. Cardinality(Mapped([im EXCEPT ![d] = P])) = Cardinality(rest) + Cardinality(P)
  <2> DEFINE g == [im EXCEPT ![d] = P]
  <2>1. g \in [Image -> SUBSET Parts] /\ (\A e \in Image \ {d} : g[e] = im[e]) /\ g[d] = P
    OBVIOUS
  <2> HIDE DEF g
  <2>2. Cardinality(Mapped(g)) = Cardinality(rest) + Cardinality(g[d])
    BY <2>1, <1>2
  <2> QED
    BY <2>1, <2>2 DEF g
<1>5. Cardinality(im[d]) \in Nat /\ Cardinality(P) \in Nat
  BY PartsFinite
<1> QED
  BY <1>1, <1>3, <1>4, <1>5

\* A set of parts that grows or shrinks.
LEMMA PartsCount ==
    ASSUME NEW P \in SUBSET Parts, NEW Q
    PROVE  /\ Q \in SUBSET Parts => Cardinality(P \cup Q) = Cardinality(P) + Cardinality(Q \ P)
           /\ Cardinality(P \ Q) = Cardinality(P) - Cardinality(P \cap Q)
           /\ Cardinality(P \cap Q) \in Nat /\ Cardinality(P) \in Nat
           /\ Q \in SUBSET Parts => Cardinality(Q \ P) \in Nat
<1>1. Cardinality(P \ Q) = Cardinality(P) - Cardinality(P \cap Q)
  BY Zenon, PartsFinite, FS_Difference
<1>2. Q \in SUBSET Parts => Cardinality(P \cup Q) = Cardinality(P) + Cardinality(Q \ P)
  <2> SUFFICES ASSUME Q \in SUBSET Parts
               PROVE  Cardinality(P \cup Q) = Cardinality(P) + Cardinality(Q \ P)
    OBVIOUS
  <2>1. P \cup Q = P \cup (Q \ P) /\ P \cap (Q \ P) = {} /\ Q \ P \in SUBSET Parts
    OBVIOUS
  <2>2. Cardinality(P \cup (Q \ P)) = Cardinality(P) + Cardinality(Q \ P) - Cardinality(P \cap (Q \ P))
    BY <2>1, PartsFinite, FS_Union
  <2>3. Cardinality(P \cap (Q \ P)) = 0
    BY <2>1, FS_EmptySet
  <2>4. Cardinality(P) \in Nat /\ Cardinality(Q \ P) \in Nat
    BY <2>1, PartsFinite
  <2>5. Cardinality(P \cup (Q \ P)) = Cardinality(P) + Cardinality(Q \ P)
    BY <2>2, <2>3, <2>4
  <2> QED
    BY <2>1, <2>5
<1>3. Cardinality(P \cap Q) \in Nat /\ Cardinality(P) \in Nat
  <2>1. P \cap Q \in SUBSET Parts
    OBVIOUS
  <2> QED
    BY <2>1, PartsFinite
<1>4. Q \in SUBSET Parts => Cardinality(Q \ P) \in Nat
  <2>1. Q \in SUBSET Parts => Q \ P \in SUBSET Parts
    OBVIOUS
  <2> QED
    BY <2>1, PartsFinite
<1> QED
  BY <1>1, <1>2, <1>3, <1>4

\* The images of a process, and the other one.
LEMMA NewImage ==
    ASSUME NEW p \in Proc, NEW d \in Own(p)
    PROVE  /\ d \in Image /\ d[1] = p
           /\ new(d) \in Own(p) /\ new(d) \in Image /\ new(d)[1] = p /\ new(d) # d
           /\ \A e \in Own(p) : e = d \/ e = new(d)
           /\ new(new(d)) = d
<1>3. <<p, 0>> # <<p, 1>> /\ <<p, 0>>[1] = p /\ <<p, 1>>[1] = p /\ <<p, 0>> \in Image /\ <<p, 1>> \in Image
  BY DEF Image
<1>4. d = <<p, 0>> \/ d = <<p, 1>>
  BY DEF Own
<1>5. CASE d = <<p, 0>>
  <2>1. new(d) = <<p, 1>> /\ new(<<p, 1>>) = d
    BY <1>5 DEF new
  <2> QED
    BY <1>3, <1>5, <2>1 DEF Own
<1>6. CASE d = <<p, 1>>
  <2>1. new(d) = <<p, 0>> /\ new(<<p, 0>>) = d
    BY <1>6 DEF new
  <2> QED
    BY <1>3, <1>6, <2>1 DEF Own
<1> QED
  BY <1>4, <1>5, <1>6

\* Images says the same when the images of p are the same.
LEMMA ImagesFrame ==
    ASSUME NEW p \in Proc, NEW r \in ProcType, NEW im, NEW jm, Images(p, r, im),
           \A d \in Own(p) : jm[d] = im[d]
    PROVE  Images(p, r, jm)
<1>1. r.state # "UNUSED" => r.pgdir \in Own(p) /\ new(r.pgdir) \in Own(p)
  BY NewImage DEF Images
<1>2. r.pc \notin {"user", "grow"} => r.old \in Own(p) /\ new(r.old) \in Own(p)
  BY NewImage DEF Images
<1> QED
  BY <1>1, <1>2 DEF Images

\* A step of the process of a CPU, which changes its own images and the
\* directory the CPU uses, keeps the invariant if it does for itself.
LEMMA OwnStep ==
    ASSUME MemInv, NEW c \in Cpu, current[c] # None, NEW r \in ProcType,
           r.state = "RUNNING", set(c, r),
           freelist' \in Int, lost' \in Int, IsFiniteSet(zero'),
           image' \in [Image -> SUBSET Parts],
           \A d \in Image : d[1] # current[c] => image'[d] = image[d],
           Images(current[c], r, image'),
           UNCHANGED current, ttbr0' \in [Cpu -> Image \cup {None}],
           \A e \in Cpu \ {c} : ttbr0'[e] = ttbr0[e],
           failed \subseteq failed', failed' \subseteq failed \cup {current[c]},
           OnTable(c)'
    PROVE  MemInv'
<1> DEFINE p == current[c]
<1>1. p \in Proc /\ proc'[p] = r /\ (\A q \in Proc \ {p} : proc'[q] = proc[q])
      /\ proc' \in [Proc -> ProcType]
  BY DEF MemInv, MemType, set
<1>2. MemType'
  BY <1>1 DEF MemInv, MemType
<1>3. ImagesInv'
  <2> SUFFICES ASSUME NEW q \in Proc PROVE Images(q, proc'[q], image')
    BY DEF ImagesInv
  <2>1. CASE q = p
    BY <2>1, <1>1
  <2>2. CASE q # p
    <3>1. \A d \in Own(q) : image'[d] = image[d]
      BY <2>2, NewImage
    <3>2. proc[q] \in ProcType /\ Images(q, proc[q], image)
      BY DEF MemInv, MemType, ImagesInv
    <3> QED
      BY <3>1, <3>2, <1>1, <2>2, ImagesFrame
  <2> QED
    BY <2>1, <2>2
<1>4. Running'
  BY <1>1 DEF MemInv, MemType, Running
<1>5. TableInv'
  <2> SUFFICES ASSUME NEW e \in Cpu PROVE OnTable(e)'
    BY DEF TableInv
  <2>1. CASE e = c
    BY <2>1
  <2>2. CASE e # c
    <3>1. current[e] # None => current[e] # p /\ current[e] \in Proc
      BY <2>2 DEF MemInv, MemType, Running
    <3>2. OnTable(e)
      BY DEF MemInv, TableInv
    <3> QED
      BY <3>1, <3>2, <1>1, <2>2 DEF OnTable, Me
  <2> QED
    BY <2>1, <2>2
<1> QED
  BY <1>2, <1>3, <1>4, <1>5 DEF MemInv

\* What the invariant says of the process of a CPU.
LEMMA Here ==
    ASSUME MemInv, NEW c \in Cpu, current[c] # None
    PROVE  /\ current[c] \in Proc /\ Me(c) \in ProcType /\ Me(c).state = "RUNNING"
           /\ Images(current[c], Me(c), image) /\ OnTable(c)
  BY DEF MemInv, MemType, ImagesInv, Running, TableInv, Me

\* The processes that have a kernel stack.
Live(f) == {p \in Proc : f[p].state # "UNUSED"}

\* The pages that no image has and the free list neither.
Gone == lost + Cardinality(zero)

\* The sum of pages with those.
LEMMA GoneSum ==
    ASSUME NEW f \in Int, NEW l \in Int, NEW Z, IsFiniteSet(Z)
    PROVE  f + l + Cardinality(Z) = f + (l + Cardinality(Z)) /\ l + Cardinality(Z) \in Int /\ Cardinality(Z) \in Nat
<1>1. Cardinality(Z) \in Nat
  BY FS_CardinalityType
<1> QED
  BY <1>1

\* As long as page 0 stays the same they change by those that get lost.
LEMMA GoneSame ==
    ASSUME MemInv, UNCHANGED zero, lost' \in Int
    PROVE  Gone \in Int /\ Gone' \in Int /\ Gone - Gone' = lost - lost' /\ IsFiniteSet(zero')
<1>1. lost \in Int /\ IsFiniteSet(zero) /\ Cardinality(zero) \in Nat
  BY FS_CardinalityType DEF MemInv, MemType
<1> QED
  BY <1>1 DEF Gone

\* A step that changes one image keeps the sum if it moves the pages.
LEMMA PagesStep ==
    ASSUME MemInv, PagesConserved, pages \in Seq(Page), Len(pages') = Len(pages),
           NEW d \in Image, NEW P \in SUBSET Parts, image' = [image EXCEPT ![d] = P],
           lost' \in Int, IsFiniteSet(zero'), Cardinality(Live(proc')) \in Int
    PROVE  freelist' = freelist + (Gone - Gone') + (Cardinality(Live(proc)) - Cardinality(Live(proc')))
                                + (Cardinality(image[d]) - Cardinality(P)) => PagesConserved'
<1>0. SUFFICES ASSUME freelist' = freelist + (Gone - Gone') + (Cardinality(Live(proc)) - Cardinality(Live(proc')))
                                + (Cardinality(image[d]) - Cardinality(P))
               PROVE  PagesConserved'
  OBVIOUS
<1>1. freelist \in Int /\ lost \in Int /\ image \in [Image -> SUBSET Parts] /\ IsFiniteSet(zero)
  BY DEF MemInv, MemType
<1>a. Gone \in Int /\ Gone' \in Int /\ freelist + lost + Cardinality(zero) = freelist + Gone
  BY <1>1, GoneSum DEF Gone
<1>2. Len(pages) \in Nat
  OBVIOUS
<1>3. Cardinality(Live(proc)) \in Nat
  <2>1. Live(proc) \subseteq Proc
    BY DEF Live
  <2> QED
    BY <2>1, MemoryAssumption, FS_Subset, FS_CardinalityType
<1>4. Cardinality(Mapped(image)) \in Nat
      /\ Cardinality(Mapped(image')) = Cardinality(Mapped(image)) - Cardinality(image[d]) + Cardinality(P)
  BY Zenon, <1>1, MappedUpdate
<1>5. Cardinality(P) \in Nat /\ Cardinality(image[d]) \in Nat
  BY <1>1, PartsFinite
<1>6. NPages = freelist + Gone + Len(pages) + Cardinality(Live(proc)) + Cardinality(Mapped(image))
  BY Zenon, <1>a DEF PagesConserved, Live, Mapped
<1>7. NPages = freelist' + Gone' + Len(pages') + Cardinality(Live(proc')) + Cardinality(Mapped(image'))
  <2>1. PICK g \in Int, l \in Int, n \in Int : g = Gone /\ l = Gone' /\ n = Cardinality(Live(proc'))
    BY <1>a
  <2>2. PICK i \in Int, s \in Int, m \in Int, k \in Int, j \in Int :
          /\ i = Cardinality(image[d]) /\ s = Cardinality(P) /\ m = Cardinality(Mapped(image))
          /\ k = Len(pages) /\ j = Cardinality(Live(proc))
    BY <1>2, <1>3, <1>4, <1>5
  <2>3. freelist' = freelist + (g - l) + (j - n) + (i - s)
    BY <1>0, <2>1, <2>2
  <2>4. NPages = freelist + g + k + j + m
    BY <1>6, <2>1, <2>2
  <2>5. NPages = (freelist + (g - l) + (j - n) + (i - s)) + l + k + n + (m - i + s)
    BY <1>1, <2>4
  <2>6. NPages = freelist' + l + k + n + (m - i + s)
    BY <2>3, <2>5
  <2> QED
    BY <1>4, <2>1, <2>2, <2>6
<1>8. freelist' \in Int
  BY <1>0, <1>1, <1>a, <1>3, <1>5
<1>9. freelist' + lost' + Cardinality(zero') = freelist' + Gone'
  BY <1>8, GoneSum DEF Gone
<1> QED
  BY Zenon, <1>7, <1>9 DEF PagesConserved, Live, Mapped

\* A running process keeps its stack.
LEMMA LiveKept ==
    ASSUME MemInv, NEW c \in Cpu, current[c] # None, NEW r, r.state # "UNUSED", set(c, r)
    PROVE  Live(proc') = Live(proc) /\ Cardinality(Live(proc)) \in Nat
<1>1. current[c] \in Proc /\ proc[current[c]].state = "RUNNING"
  BY Here DEF Me
<1>2. Live(proc') = Live(proc)
  <2>1. proc' = [proc EXCEPT ![current[c]] = r] /\ proc \in [Proc -> ProcType]
    BY DEF set, MemInv, MemType
  <2> QED
    BY <1>1, <2>1 DEF Live
<1>3. Cardinality(Live(proc)) \in Nat
  <2>1. Live(proc) \subseteq Proc
    BY DEF Live
  <2> QED
    BY <2>1, MemoryAssumption, FS_Subset, FS_CardinalityType
<1> QED
  BY <1>2, <1>3

\* A step of a running process that moves pages between its image, the free
\* list and nowhere.
LEMMA OwnPages ==
    ASSUME MemInv, PagesConserved, pages \in Seq(Page), UNCHANGED pages,
           NEW c \in Cpu, current[c] # None, NEW r, r.state # "UNUSED", set(c, r),
           NEW d \in Image, NEW P \in SUBSET Parts, image' = [image EXCEPT ![d] = P],
           freelist' \in Int, lost' \in Int, IsFiniteSet(zero'),
           freelist' = freelist + (Gone - Gone') + (Cardinality(image[d]) - Cardinality(P))
    PROVE  PagesConserved'
<1>1. Cardinality(Live(proc')) = Cardinality(Live(proc)) /\ Cardinality(Live(proc)) \in Nat
  BY LiveKept
<1>2. freelist \in Int /\ Gone \in Int /\ Gone' \in Int /\ Cardinality(P) \in Nat /\ Cardinality(image[d]) \in Nat
  BY Zenon, PartsFinite, GoneSum DEF MemInv, MemType, Gone
<1>3. freelist' = freelist + (Gone - Gone') + (Cardinality(Live(proc)) - Cardinality(Live(proc')))
                  + (Cardinality(image[d]) - Cardinality(P))
  BY <1>1, <1>2
<1>4. Len(pages') = Len(pages) /\ Cardinality(Live(proc')) \in Int
  BY <1>1
<1> QED
  BY Zenon, <1>3, <1>4, PagesStep

\* A step of a running process that moves no page.
LEMMA NoPages ==
    ASSUME MemInv, PagesConserved, pages \in Seq(Page), UNCHANGED <<pages, freelist, lost, zero, image>>,
           NEW c \in Cpu, current[c] # None, NEW r, r.state # "UNUSED", set(c, r)
    PROVE  PagesConserved'
<1>1. Live(proc') = Live(proc)
  BY LiveKept
<1> QED
  BY Zenon, <1>1 DEF PagesConserved, Live
-----------------------------------------------------------------------------
\* uvm_dealloc of a page table gives back what it unmaps.
LEMMA DeallocPages ==
    ASSUME MemInv, NEW d \in Image, NEW o \in Int, NEW n \in Int, uvm_dealloc(d, o, n)
    PROVE  /\ freelist' \in Int /\ IsFiniteSet(zero')
           /\ image' = [image EXCEPT ![d] = image[d] \ (n .. o - 1)]
           /\ image[d] \ (n .. o - 1) \in SUBSET Parts
           /\ lost' = lost => freelist' = freelist + (Gone - Gone')
                                         + (Cardinality(image[d]) - Cardinality(image[d] \ (n .. o - 1)))
<1> DEFINE range == n .. o - 1
           stray == zero \cap {entry(v) : v \in {u \in range : table_of(u) \notin image[d]}}
<1>1. freelist \in Int /\ lost \in Int /\ image[d] \in SUBSET Parts /\ IsFiniteSet(zero)
  BY DEF MemInv, MemType
<1>3. /\ freelist' = freelist + Cardinality(image[d] \cap range) + Cardinality(stray)
      /\ image' = [image EXCEPT ![d] = image[d] \ range] /\ zero' = zero \ stray
  BY Zenon DEF uvm_dealloc
<1>4. stray \subseteq zero
  OBVIOUS
<1> HIDE DEF stray, range
<1>5. /\ IsFiniteSet(zero') /\ Cardinality(stray) \in Nat /\ Cardinality(zero) \in Nat
      /\ Cardinality(zero') = Cardinality(zero) - Cardinality(stray)
  <2>1. IsFiniteSet(stray) /\ IsFiniteSet(zero \ stray)
    BY <1>1, <1>4, FS_Subset, FS_Difference
  <2>2. Cardinality(zero \ stray) = Cardinality(zero) - Cardinality(zero \cap stray) /\ zero \cap stray = stray
    BY <1>1, <1>4, FS_Difference
  <2> QED
    BY <1>1, <1>3, <2>1, <2>2, FS_CardinalityType
<1>2. /\ Cardinality(image[d] \ range) = Cardinality(image[d]) - Cardinality(image[d] \cap range)
      /\ Cardinality(image[d] \cap range) \in Nat /\ Cardinality(image[d]) \in Nat
  BY Zenon, <1>1, PartsCount
<1>6. freelist' \in Int
  BY <1>1, <1>2, <1>3, <1>5
<1>7. ASSUME lost' = lost
      PROVE  freelist' = freelist + (Gone - Gone') + (Cardinality(image[d]) - Cardinality(image[d] \ range))
  BY <1>1, <1>2, <1>3, <1>5, <1>7 DEF Gone
<1>8. image[d] \ range \in SUBSET Parts
  BY <1>1
<1> QED
  BY <1>3, <1>5, <1>6, <1>7, <1>8 DEF range

\* The table of a page of the low region, and that of the stack.
LEMMA TableParts ==
    ASSUME NEW v \in Size, v < Low
    PROVE  /\ table_of(v) \in Parts /\ v \in Parts /\ v # table_of(v)
           /\ table_of(v) \notin {DIR, STACK, table_of(STACK)} /\ v \notin {DIR, STACK, table_of(STACK)}
<1>1. v \in Nat /\ Low \in Nat /\ Entries \in Nat \ {0}
  BY MemoryAssumption DEF Size
<1>2. v \div Entries \in 0 .. v
  <2> DEFINE q == v \div Entries
  <2>1. q \in Int /\ Entries * q <= v
    BY <1>1
  <2>2. q >= 0
    BY <1>1
  <2> QED
    BY <1>1, <2>1, <2>2
<1>3. table_of(v) = -3 - (v \div Entries) /\ table_of(STACK) = -2
  BY <1>1 DEF table_of, STACK
<1>4. \A q \in 0 .. v : -3 - q \in -3 - Low .. Low /\ -3 - q < -2
  BY <1>1
<1>5. table_of(v) \in Parts /\ table_of(v) < -2 /\ table_of(v) \in Int
  BY <1>1, <1>2, <1>3, <1>4 DEF Parts
<1>6. v \in Parts
  BY <1>1 DEF Parts
<1> QED
  BY <1>1, <1>3, <1>5, <1>6 DEF DIR, STACK

\* A turn of uvm_alloc without a page for the table: the page goes to page 0.
LEMMA StrayPages ==
    ASSUME MemInv, NEW d \in Image, NEW v, alloc_stray(d, v)
    PROVE  /\ freelist' \in Int /\ lost' \in Int /\ IsFiniteSet(zero') /\ Gone \in Int /\ Gone' \in Int
           /\ freelist' = freelist + (Gone - Gone') /\ UNCHANGED image
<1>1. lost \in Int /\ IsFiniteSet(zero) /\ Cardinality(zero) \in Nat
  BY FS_CardinalityType DEF MemInv, MemType
<1>2. freelist = 1 /\ freelist' = 0 /\ zero' = zero \cup {entry(v)} /\ UNCHANGED image
      /\ lost' = IF entry(v) \in zero THEN lost + 1 ELSE lost
  BY DEF alloc_stray
<1>3. IsFiniteSet(zero') /\ Cardinality(zero') = IF entry(v) \in zero THEN Cardinality(zero) ELSE Cardinality(zero) + 1
  BY <1>1, <1>2, FS_AddElement
<1> QED
  BY <1>1, <1>2, <1>3 DEF Gone

\* A turn of uvm_alloc takes the pages it maps; a page it maps over is lost.
LEMMA AllocPages ==
    ASSUME MemInv, NEW d \in Image, NEW v \in Size, v < Low, alloc_page(d, v)
    PROVE  /\ freelist' \in Int /\ lost' \in Int /\ UNCHANGED zero
           /\ image' = [image EXCEPT ![d] = image[d] \cup {v, table_of(v)}]
           /\ image[d] \cup {v, table_of(v)} \in SUBSET Parts
           /\ freelist' = freelist + (lost - lost') + (Cardinality(image[d]) - Cardinality(image[d] \cup {v, table_of(v)}))
<1> DEFINE N == Needs(d, v)
<1>1. freelist \in Int /\ lost \in Int /\ image[d] \in SUBSET Parts
  BY DEF MemInv, MemType
<1>2. v \in Parts /\ table_of(v) \in Parts /\ v # table_of(v)
  BY TableParts
<1>3. N = {v, table_of(v)} \ (image[d] \ {v}) /\ N \in SUBSET Parts
  BY <1>2 DEF Needs
<1>4. image[d] \cup N = image[d] \cup {v, table_of(v)}
  BY <1>3
<1>5. Cardinality(image[d] \cup {v, table_of(v)}) = Cardinality(image[d]) + Cardinality({v, table_of(v)} \ image[d])
      /\ Cardinality(image[d]) \in Nat /\ Cardinality({v, table_of(v)} \ image[d]) \in Nat
  BY Zenon, <1>1, <1>2, PartsCount
<1>6. Cardinality(N) \in Nat
      /\ Cardinality(N) = Cardinality({v, table_of(v)} \ image[d]) + (IF v \in image[d] THEN 1 ELSE 0)
  <2>1. CASE v \notin image[d]
    <3>1. N = {v, table_of(v)} \ image[d]
      BY <1>3, <2>1
    <3> QED
      BY <3>1, <2>1, <1>5
  <2>2. CASE v \in image[d] /\ table_of(v) \in image[d]
    <3>1. N = {v} /\ {v, table_of(v)} \ image[d] = {}
      BY <1>2, <1>3, <2>2
    <3> QED
      <4>1. Cardinality({v}) = 1 /\ Cardinality({}) = 0
        BY Few, FS_EmptySet
      <4> QED
        BY <3>1, <2>2, <4>1
  <2>3. CASE v \in image[d] /\ table_of(v) \notin image[d]
    <3>1. N = {v, table_of(v)} /\ {v, table_of(v)} \ image[d] = {table_of(v)}
      BY <1>2, <1>3, <2>3
    <3> QED
      <4>1. Cardinality({v, table_of(v)}) = 2 /\ Cardinality({table_of(v)}) = 1
        BY Zenon, <1>2, Few
      <4> QED
        BY <3>1, <2>3, <4>1
  <2> QED
    BY <2>1, <2>2, <2>3
<1>7. UNCHANGED zero /\ freelist' = freelist - Cardinality(N) /\ lost' = IF v \in image[d] THEN lost + 1 ELSE lost
  BY DEF alloc_page
<1>8. image' = [image EXCEPT ![d] = image[d] \cup {v, table_of(v)}]
  BY Zenon, <1>4 DEF alloc_page
<1>9. image[d] \cup {v, table_of(v)} \in SUBSET Parts
  BY <1>1, <1>2
<1> HIDE DEF N
<1> QED
  BY <1>1, <1>5, <1>6, <1>7, <1>8, <1>9
-----------------------------------------------------------------------------
\* What every step keeps.
Kept == MemInv' /\ PagesConserved'

\* The process of a CPU after set.
LEMMA Set ==
    ASSUME MemInv, NEW c \in Cpu, current[c] # None, NEW r, set(c, r), UNCHANGED current
    PROVE  Me(c)' = r
  BY Here DEF MemInv, MemType, Me, set

\* The steps of growproc that take no page.
LEMMA GrowKeeps ==
    ASSUME MemInv, PagesConserved, pages \in Seq(Page), NEW c \in Cpu,
           (\E n \in 1 .. Low : growproc(c, n)) \/ grow_end(c)
    PROVE  Kept
<1>0. current[c] # None
  BY Zenon DEF growproc, grow_end, Program, At
<1>1. ASSUME NEW n \in 1 .. Low, growproc(c, n) PROVE Kept
  <2> DEFINE r == [Me(c) EXCEPT !.pc = "grow", !.a = Me(c).sz, !.newsz = Me(c).sz + n]
  <2>1. set(c, r) /\ UNCHANGED <<freelist, image, current, ttbr0, zero, lost, failed, pages>>
        /\ Me(c).pc = "user" /\ Me(c).sz + n <= Low
    BY Zenon, <1>1 DEF growproc, Program, At, Me, keep_arena
  <2>2. r \in ProcType /\ r.state = "RUNNING" /\ r.pc = "grow" /\ r.pgdir = Me(c).pgdir
    <3>1. Me(c) \in ProcType /\ Me(c).state = "RUNNING"
      BY <1>0, Here
    <3>2. Me(c).sz \in Size
      BY <3>1 DEF ProcType
    <3>3. Me(c).sz + n \in Size
      BY <2>1, <3>2, MemoryAssumption DEF Size
    <3> QED
      BY Zenon, <3>1, <3>2, <3>3 DEF ProcType
  <2> HIDE DEF r
  <2>3. Images(current[c], r, image')
    BY Zenon, <1>0, <2>1, <2>2, Here DEF Images
  <2>4. OnTable(c)'
    BY <1>0, <2>1, <2>2, Here, Set DEF OnTable
  <2>5. MemInv'
    BY <1>0, <2>1, <2>2, <2>3, <2>4, OwnStep DEF MemInv, MemType
  <2>6. PagesConserved'
    BY Zenon, <1>0, <2>1, <2>2, NoPages
  <2> QED
    BY <2>5, <2>6 DEF Kept
<1>2. ASSUME grow_end(c) PROVE Kept
  <2> DEFINE r == [Me(c) EXCEPT !.pc = "user", !.sz = Me(c).newsz, !.a = 0, !.newsz = 0]
  <2>1. set(c, r) /\ UNCHANGED <<freelist, image, current, zero, lost, failed, pages>>
        /\ Me(c).pc = "grow" /\ ttbr0' = [ttbr0 EXCEPT ![c] = Me(c).pgdir]
    BY <1>2 DEF grow_end, At, Me, keep_arena
  <2>2. r \in ProcType /\ r.state = "RUNNING" /\ r.pc = "user" /\ r.pgdir = Me(c).pgdir
    <3>1. Me(c) \in ProcType /\ Me(c).state = "RUNNING" /\ 0 \in Size
      BY <1>0, Here, MemoryAssumption DEF Size
    <3> QED
      BY Zenon, <3>1 DEF ProcType
  <2> HIDE DEF r
  <2>3. Images(current[c], r, image')
    BY Zenon, <1>0, <2>1, <2>2, Here DEF Images
  <2>4. OnTable(c)' /\ ttbr0' \in [Cpu -> Image \cup {None}] /\ (\A e \in Cpu \ {c} : ttbr0'[e] = ttbr0[e])
    <3>1. Me(c).pgdir \in Image \cup {None} /\ ttbr0 \in [Cpu -> Image \cup {None}]
      BY <1>0, Here DEF ProcType, MemInv, MemType
    <3> QED
      BY <1>0, <2>1, <2>2, <3>1, Here, Set DEF OnTable
  <2>5. MemInv'
    BY <1>0, <2>1, <2>2, <2>3, <2>4, OwnStep DEF MemInv, MemType
  <2>6. PagesConserved'
    BY <1>0, <2>1, <2>2, NoPages
  <2> QED
    BY <2>5, <2>6 DEF Kept
<1> QED
  BY <1>1, <1>2

\* The steps of execve that take and give back no page.
LEMMA ExecKeeps ==
    ASSUME MemInv, PagesConserved, pages \in Seq(Page), NEW c \in Cpu,
           exec_bad(c) \/ exec_elf(c) \/ exec_fails(c)
    PROVE  Kept
<1>0. current[c] # None
  BY DEF exec_bad, exec_elf, exec_fails, At
<1>a. current[c] \in Proc /\ Me(c) \in ProcType /\ Me(c).state = "RUNNING"
      /\ Images(current[c], Me(c), image) /\ OnTable(c)
  BY <1>0, Here
<1>1. ASSUME NEW r \in ProcType, r.state = "RUNNING", set(c, r), Images(current[c], r, image),
             UNCHANGED <<freelist, image, current, ttbr0, zero, lost, pages>>,
             failed \subseteq failed', failed' \subseteq failed \cup {current[c]}, OnTable(c)'
      PROVE  Kept
  <2>1. MemInv'
    BY <1>0, <1>1, OwnStep DEF MemInv, MemType
  <2>2. PagesConserved'
    BY Zenon, <1>0, <1>1, NoPages
  <2> QED
    BY <2>1, <2>2 DEF Kept
<1>2. ASSUME exec_bad(c) PROVE Kept
  <2> DEFINE r == [Me(c) EXCEPT !.pc = "bad"]
  <2>1. set(c, r) /\ UNCHANGED <<freelist, image, current, ttbr0, zero, lost, failed, pages>>
        /\ Me(c).pc \in {"namei", "load"}
    BY <1>2 DEF exec_bad, At, Me, keep_arena
  <2>2. r \in ProcType /\ r.state = "RUNNING" /\ r.pc = "bad" /\ r.pgdir = Me(c).pgdir /\ r.old = Me(c).old
    BY <1>a DEF ProcType
  <2> HIDE DEF r
  <2>3. Images(current[c], r, image)
    BY Zenon, <1>a, <2>1, <2>2 DEF Images
  <2>4. r.pgdir = r.old => Me(c).pc = "namei"
    <3>1. Me(c).old \in Own(current[c]) /\ (Me(c).pc = "load" => Me(c).pgdir = new(Me(c).old))
      BY <1>a, <2>1 DEF Images
    <3>2. new(Me(c).old) # Me(c).old
      BY <1>a, <3>1, NewImage
    <3> QED
      BY Zenon, <2>1, <2>2, <3>1, <3>2
  <2>5. OnTable(c)'
    BY <1>0, <1>a, <2>1, <2>2, <2>4, Set DEF OnTable
  <2> QED
    BY <1>1, <2>1, <2>2, <2>3, <2>5
<1>3. ASSUME exec_elf(c) PROVE Kept
  <2> DEFINE r == [Me(c) EXCEPT !.pc = "load", !.pgdir = new(Me(c).old)]
  <2>1. set(c, r) /\ UNCHANGED <<freelist, image, current, ttbr0, zero, lost, failed, pages>>
        /\ Me(c).pc = "namei"
    BY <1>3 DEF exec_elf, At, Me, keep_arena
  <2>2. Me(c).old \in Own(current[c]) /\ new(Me(c).old) \in Image /\ new(Me(c).old) \in Own(current[c])
    BY <1>a, <2>1, NewImage DEF Images
  <2>3. r \in ProcType /\ r.state = "RUNNING" /\ r.pc = "load" /\ r.pgdir = new(Me(c).old) /\ r.old = Me(c).old
    BY Zenon, <1>a, <2>2 DEF ProcType
  <2> HIDE DEF r
  <2>4. Images(current[c], r, image)
    BY Zenon, <1>a, <2>1, <2>2, <2>3 DEF Images
  <2>5. OnTable(c)'
    BY <1>0, <2>1, <2>3, Set DEF OnTable
  <2> QED
    BY Zenon, <1>1, <2>1, <2>3, <2>4, <2>5
<1>4. ASSUME exec_fails(c) PROVE Kept
  <2> DEFINE r == [Me(c) EXCEPT !.pc = "user", !.pgdir = Me(c).old, !.a = 0, !.old = None]
  <2>1. set(c, r) /\ UNCHANGED <<freelist, image, current, ttbr0, zero, lost, pages>> /\ Me(c).pc = "put"
        /\ failed' = IF Me(c).pgdir = Me(c).old THEN failed ELSE failed \cup {current[c]}
    BY <1>4 DEF exec_fails, restored, At, Me, keep_arena
  <2>2. Me(c).old \in Own(current[c]) /\ Me(c).old \in Image
    BY <1>a, <2>1, NewImage DEF Images
  <2>3. r \in ProcType /\ r.state = "RUNNING" /\ r.pc = "user" /\ r.pgdir = Me(c).old
    <3>1. 0 \in Size
      BY MemoryAssumption DEF Size
    <3> QED
      BY Zenon, <1>a, <2>2, <3>1 DEF ProcType
  <2> HIDE DEF r
  <2>4. Images(current[c], r, image)
    BY Zenon, <1>a, <2>1, <2>2, <2>3 DEF Images
  <2>5. OnTable(c)' /\ failed \subseteq failed' /\ failed' \subseteq failed \cup {current[c]}
    BY Zenon, <1>0, <1>a, <2>1, <2>3, Set DEF OnTable
  <2> QED
    BY <1>1, <2>1, <2>3, <2>4, <2>5
<1> QED
  BY <1>2, <1>3, <1>4

\* The steps of growproc that take or give back pages.
LEMMA GrowPages ==
    ASSUME MemInv, PagesConserved, pages \in Seq(Page), NEW c \in Cpu, current[c] # None,
           NEW r \in ProcType, r.state = "RUNNING", r.pc \in {"user", "grow"}, r.pgdir = Me(c).pgdir, set(c, r),
           Me(c).pc \in {"user", "grow"}, NEW P \in SUBSET Parts, DIR \in image[Me(c).pgdir] => DIR \in P,
           image' = [image EXCEPT ![Me(c).pgdir] = P],
           freelist' \in Int, lost' \in Int, IsFiniteSet(zero'), UNCHANGED <<current, failed, pages>>,
           ttbr0' = ttbr0 \/ ttbr0' = [ttbr0 EXCEPT ![c] = Me(c).pgdir],
           freelist' = freelist + (Gone - Gone') + (Cardinality(image[Me(c).pgdir]) - Cardinality(P))
    PROVE  Kept
<1>1. current[c] \in Proc /\ Me(c) \in ProcType /\ Me(c).state = "RUNNING"
      /\ Images(current[c], Me(c), image) /\ OnTable(c)
  BY Here
<1>2. Me(c).pgdir \in Own(current[c])
  BY <1>1 DEF Images
<1>3. Me(c).pgdir \in Image /\ Me(c).pgdir[1] = current[c] /\ new(Me(c).pgdir) \in Image /\ new(Me(c).pgdir) # Me(c).pgdir
  BY Zenon, <1>1, <1>2, NewImage
<1>4. image \in [Image -> SUBSET Parts] /\ ttbr0 \in [Cpu -> Image \cup {None}]
  BY DEF MemInv, MemType
<1>5. image' \in [Image -> SUBSET Parts] /\ (\A d \in Image : d # Me(c).pgdir => image'[d] = image[d])
      /\ image'[Me(c).pgdir] = P
  BY <1>3, <1>4
<1>6. Images(current[c], r, image')
  BY Zenon, <1>1, <1>2, <1>3, <1>5 DEF Images
<1>7. ttbr0' \in [Cpu -> Image \cup {None}] /\ (\A e \in Cpu \ {c} : ttbr0'[e] = ttbr0[e])
      /\ (ttbr0'[c] = ttbr0[c] \/ ttbr0'[c] = Me(c).pgdir)
  BY Zenon, <1>3, <1>4
<1>8. OnTable(c)'
  BY <1>1, <1>7, Set DEF OnTable
<1>9. MemInv'
  BY Zenon, <1>3, <1>5, <1>6, <1>7, <1>8, OwnStep
<1>10. PagesConserved'
  BY Zenon, <1>3, OwnPages
<1> QED
  BY Zenon, <1>9, <1>10 DEF Kept

\* A step outside processes keeps the invariant.
LEMMA OutsideKeeps ==
    ASSUME MemInv, UNCHANGED <<proc, image, current, ttbr0, failed>>,
           freelist' \in Int, lost' \in Int, IsFiniteSet(zero')
    PROVE  MemInv'
<1>1. MemType'
  BY DEF MemInv, MemType
<1>2. ImagesInv'
  BY DEF MemInv, ImagesInv
<1>3. Running'
  BY DEF MemInv, Running
<1>4. TableInv'
  BY DEF MemInv, TableInv, OnTable, Me
<1> QED
  BY <1>1, <1>2, <1>3, <1>4 DEF MemInv

\* A panic changes no page.
LEMMA PanicKeeps ==
    ASSUME MemInv, PagesConserved, panic
    PROVE  Kept
<1>1. MemInv'
  BY OutsideKeeps DEF panic, memvars, MemInv, MemType
<1>2. PagesConserved'
  BY DEF panic, memvars, PagesConserved
<1> QED
  BY <1>1, <1>2 DEF Kept

\* growproc takes a page, or fails.
LEMMA GrowStepKeeps ==
    ASSUME MemInv, PagesConserved, pages \in Seq(Page), NEW c \in Cpu, grow_step(c)
    PROVE  Kept
<1>0. current[c] # None /\ Me(c).pc = "grow" /\ Me(c).a < Me(c).newsz
  BY DEF grow_step, At, Me
<1>1. current[c] \in Proc /\ Me(c) \in ProcType /\ Me(c).state = "RUNNING"
      /\ Images(current[c], Me(c), image)
  BY <1>0, Here
<1>2. Me(c).pgdir \in Own(current[c]) /\ Me(c).pgdir \in Image
  BY <1>1, NewImage DEF Images
<1>3. Me(c).a \in Size /\ Me(c).newsz \in Size /\ Me(c).sz \in Size
  BY <1>1 DEF ProcType
<1>4. Me(c).a < Low /\ Me(c).a + 1 \in Size /\ 0 \in Size /\ Me(c).sz \in Int /\ Me(c).a - 1 \in Int
  BY <1>0, <1>3, MemoryAssumption DEF Size
<1>5. CASE /\ alloc_stray(Me(c).pgdir, Me(c).a)
           /\ set(c, [Me(c) EXCEPT !.a = Me(c).a + 1])
           /\ UNCHANGED <<current, ttbr0, failed>> /\ keep_arena
  <2> DEFINE r == [Me(c) EXCEPT !.a = Me(c).a + 1]
             P == image[Me(c).pgdir]
  <2>1. r \in ProcType /\ r.state = "RUNNING" /\ r.pc = "grow" /\ r.pgdir = Me(c).pgdir
    BY <1>0, <1>1, <1>4 DEF ProcType
  <2>2. set(c, r) /\ UNCHANGED <<current, ttbr0, failed, pages>>
    BY <1>5 DEF keep_arena
  <2>3. /\ freelist' \in Int /\ lost' \in Int /\ IsFiniteSet(zero') /\ Gone \in Int /\ Gone' \in Int
        /\ freelist' = freelist + (Gone - Gone') /\ UNCHANGED image
    BY Zenon, <1>2, <1>5, StrayPages
  <2>4. image \in [Image -> SUBSET Parts] /\ freelist \in Int /\ P \in SUBSET Parts
    BY <1>2 DEF MemInv, MemType
  <2>5. image' = [image EXCEPT ![Me(c).pgdir] = P]
    BY <1>2, <2>3, <2>4
  <2> HIDE DEF r
  <2>6. freelist' = freelist + (Gone - Gone') + (Cardinality(image[Me(c).pgdir]) - Cardinality(P))
    <3>1. Cardinality(P) \in Nat
      BY <2>4, PartsFinite
    <3> QED
      BY <2>3, <2>4, <3>1
  <2> QED
    BY Zenon, <1>0, <2>1, <2>2, <2>3, <2>4, <2>5, <2>6, GrowPages
<1>6. CASE /\ alloc_page(Me(c).pgdir, Me(c).a)
           /\ set(c, [Me(c) EXCEPT !.a = Me(c).a + 1])
           /\ UNCHANGED <<current, ttbr0, failed>> /\ keep_arena
  <2> DEFINE r == [Me(c) EXCEPT !.a = Me(c).a + 1]
             P == image[Me(c).pgdir] \cup {Me(c).a, table_of(Me(c).a)}
  <2>1. r \in ProcType /\ r.state = "RUNNING" /\ r.pc = "grow" /\ r.pgdir = Me(c).pgdir
    BY <1>0, <1>1, <1>4 DEF ProcType
  <2>2. set(c, r) /\ UNCHANGED <<current, ttbr0, failed, pages>>
    BY <1>6 DEF keep_arena
  <2>3. /\ freelist' \in Int /\ lost' \in Int /\ P \in SUBSET Parts /\ UNCHANGED zero
        /\ image' = [image EXCEPT ![Me(c).pgdir] = P]
        /\ freelist' = freelist + (lost - lost') + (Cardinality(image[Me(c).pgdir]) - Cardinality(P))
    BY Zenon, <1>2, <1>3, <1>4, <1>6, AllocPages
  <2>4. DIR \in image[Me(c).pgdir] => DIR \in P
    OBVIOUS
  <2> HIDE DEF r, P
  <2>5. IsFiniteSet(zero') /\ freelist' = freelist + (Gone - Gone') + (Cardinality(image[Me(c).pgdir]) - Cardinality(P))
    BY Zenon, <2>3, GoneSame
  <2> QED
    BY Zenon, <1>0, <2>1, <2>2, <2>3, <2>4, <2>5, GrowPages
<1>7. CASE /\ uvm_dealloc(Me(c).pgdir, Me(c).a - 1, Me(c).sz)
           /\ set(c, [Me(c) EXCEPT !.pc = "user", !.a = 0, !.newsz = 0])
           /\ UNCHANGED <<current, ttbr0, lost, failed>> /\ keep_arena
  <2> DEFINE r == [Me(c) EXCEPT !.pc = "user", !.a = 0, !.newsz = 0]
             P == image[Me(c).pgdir] \ (Me(c).sz .. (Me(c).a - 1) - 1)
  <2>1. r \in ProcType /\ r.state = "RUNNING" /\ r.pc = "user" /\ r.pgdir = Me(c).pgdir
    BY Zenon, <1>0, <1>1, <1>4 DEF ProcType
  <2>2. set(c, r) /\ UNCHANGED <<current, ttbr0, lost, failed, pages>>
    BY <1>7 DEF keep_arena
  <2>3. /\ freelist' \in Int /\ IsFiniteSet(zero') /\ P \in SUBSET Parts
        /\ image' = [image EXCEPT ![Me(c).pgdir] = P]
        /\ freelist' = freelist + (Gone - Gone') + (Cardinality(image[Me(c).pgdir]) - Cardinality(P))
    BY Zenon, <1>2, <1>4, <1>7, DeallocPages
  <2>4. DIR \in image[Me(c).pgdir] => DIR \in P
    BY <1>3, MemoryAssumption DEF DIR, Size
  <2> HIDE DEF r, P
  <2>5. lost' \in Int
    BY <2>2 DEF MemInv, MemType
  <2> QED
    BY Zenon, <1>0, <2>1, <2>2, <2>3, <2>4, <2>5, GrowPages
<1> QED
  BY <1>5, <1>6, <1>7 DEF grow_step

\* growproc gives back a page.
LEMMA ShrinkKeeps ==
    ASSUME MemInv, PagesConserved, pages \in Seq(Page), NEW c \in Cpu, NEW newsz \in 0 .. Low, shrink(c, newsz)
    PROVE  Kept
<1> DEFINE size == IF newsz = 0 THEN Me(c).sz ELSE newsz
           r == [Me(c) EXCEPT !.sz = size]
           P == image[Me(c).pgdir] \ (newsz .. Me(c).sz - 1)
<1>0. /\ current[c] # None /\ Me(c).pc = "user" /\ newsz >= 0 /\ newsz < Me(c).sz
      /\ uvm_dealloc(Me(c).pgdir, Me(c).sz, newsz) /\ set(c, r)
      /\ UNCHANGED <<current, lost, failed, pages>>
      /\ ttbr0' = ttbr0 \/ ttbr0' = [ttbr0 EXCEPT ![c] = Me(c).pgdir]
  BY DEF shrink, Program, At, Me, keep_arena
<1>1. current[c] \in Proc /\ Me(c) \in ProcType /\ Me(c).state = "RUNNING"
      /\ Images(current[c], Me(c), image)
  BY <1>0, Here
<1>2. Me(c).pgdir \in Own(current[c]) /\ Me(c).pgdir \in Image
  BY <1>1, NewImage DEF Images
<1>3. Me(c).sz \in Size
  BY <1>1 DEF ProcType
<1>4. size \in Size /\ Me(c).sz \in Int /\ newsz \in Int
  BY <1>0, <1>3, MemoryAssumption DEF Size
<1>5. DIR \in image[Me(c).pgdir] => DIR \in P
  BY <1>0, <1>4 DEF DIR
<1> HIDE DEF size
<1>6. r \in ProcType /\ r.state = "RUNNING" /\ r.pc = "user" /\ r.pgdir = Me(c).pgdir
  BY <1>0, <1>1, <1>4 DEF ProcType
<1>7. /\ freelist' \in Int /\ IsFiniteSet(zero') /\ P \in SUBSET Parts
      /\ image' = [image EXCEPT ![Me(c).pgdir] = P]
      /\ freelist' = freelist + (Gone - Gone') + (Cardinality(image[Me(c).pgdir]) - Cardinality(P))
  <2>1. uvm_dealloc(Me(c).pgdir, Me(c).sz, newsz)
    BY <1>0
  <2> QED
    BY Zenon, <1>0, <1>2, <1>4, <2>1, DeallocPages
<1> HIDE DEF r, P
<1>8. lost' \in Int
  BY <1>0 DEF MemInv, MemType
<1> QED
  BY Zenon, <1>0, <1>5, <1>6, <1>7, <1>8, GrowPages

\* A CPU takes a process, and the directory of the process.
LEMMA SwitchKeeps ==
    ASSUME MemInv, PagesConserved, NEW c \in Cpu, NEW p \in Proc, switch(c, p)
    PROVE  Kept
<1>0. /\ current[c] = None /\ proc[p].state = "RUNNABLE"
      /\ current' = [current EXCEPT ![c] = p] /\ ttbr0' = [ttbr0 EXCEPT ![c] = proc[p].pgdir]
      /\ proc' = [proc EXCEPT ![p].state = "RUNNING"]
      /\ failed' = IF proc[p].pc = "user" THEN failed \ {p} ELSE failed
      /\ UNCHANGED <<freelist, image, zero, lost, pages>>
  BY DEF switch, keep_arena
<1> DEFINE r == [proc[p] EXCEPT !.state = "RUNNING"]
<1>1. proc \in [Proc -> ProcType] /\ proc[p] \in ProcType /\ Images(p, proc[p], image)
      /\ current \in [Cpu -> Proc \cup {None}] /\ ttbr0 \in [Cpu -> Image \cup {None}]
  BY DEF MemInv, MemType, ImagesInv
<1>2. r \in ProcType /\ r.state = "RUNNING" /\ r.pc = proc[p].pc /\ r.pgdir = proc[p].pgdir /\ r.old = proc[p].old
  BY <1>1 DEF ProcType
<1>3. proc'[p] = r /\ proc' = [proc EXCEPT ![p] = r] /\ (\A q \in Proc \ {p} : proc'[q] = proc[q])
  BY <1>0, <1>1
<1> HIDE DEF r
<1>4. proc[p].pgdir \in Image
  BY <1>0, <1>1, NewImage DEF Images
<1>5. MemType'
  BY <1>0, <1>1, <1>2, <1>3, <1>4 DEF MemInv, MemType
<1>6. Images(p, r, image)
  BY <1>0, <1>1, <1>2 DEF Images
<1>7. ImagesInv'
  <2> SUFFICES ASSUME NEW q \in Proc PROVE Images(q, proc'[q], image')
    BY DEF ImagesInv
  <2>1. Images(q, proc[q], image)
    BY DEF MemInv, ImagesInv
  <2> QED
    BY <1>0, <1>3, <1>6, <2>1
<1>8. \A e \in Cpu : current[e] # None => current[e] # p /\ current[e] \in Proc
  BY <1>0, <1>1 DEF MemInv, Running
<1>9. Running'
  BY <1>0, <1>1, <1>2, <1>3, <1>8, MemoryAssumption DEF MemInv, Running
<1>10. TableInv'
  <2> SUFFICES ASSUME NEW e \in Cpu PROVE OnTable(e)'
    BY DEF TableInv
  <2>1. CASE e = c
    <3>1. Me(e)' = r /\ ttbr0'[e] = r.pgdir
      BY <1>0, <1>1, <1>2, <1>3, <2>1 DEF Me
    <3> QED
      BY <3>1 DEF OnTable
  <2>2. CASE e # c
    <3>1. current'[e] = current[e] /\ ttbr0'[e] = ttbr0[e]
      BY <1>0, <1>1, <2>2
    <3>2. current[e] # None => Me(e)' = Me(e)
      BY <1>3, <1>8, <3>1 DEF Me
    <3>3. current[e] # None /\ current[e] \notin failed' => current[e] \notin failed
      BY <1>0, <1>8
    <3>4. OnTable(e)
      BY DEF MemInv, TableInv
    <3> QED
      BY <3>1, <3>2, <3>3, <3>4 DEF OnTable
  <2> QED
    BY <2>1, <2>2
<1>11. PagesConserved'
  <2>1. Live(proc') = Live(proc)
    BY <1>0, <1>2, <1>3 DEF Live
  <2> QED
    BY Zenon, <1>0, <2>1 DEF PagesConserved, Live
<1> QED
  BY <1>5, <1>7, <1>9, <1>10, <1>11 DEF Kept, MemInv

\* A process leaves its CPU.
LEMMA LeaveKeeps ==
    ASSUME MemInv, PagesConserved, NEW c \in Cpu, yield(c) \/ exit(c)
    PROVE  Kept
<1>0. PICK s \in {"RUNNABLE", "ZOMBIE"} :
        /\ current[c] # None /\ (s = "ZOMBIE" => Me(c).pc = "user")
        /\ leave(c, s)
  BY DEF yield, exit, Program, At, Me
<1> DEFINE p == current[c]
           r == [Me(c) EXCEPT !.state = s]
<1>1. /\ current' = [current EXCEPT ![c] = None]
      /\ proc' = [proc EXCEPT ![p] = r] /\ UNCHANGED <<freelist, image, ttbr0, zero, lost, failed, pages>>
  BY <1>0 DEF leave, set, keep_arena
<1>2. p \in Proc /\ Me(c) \in ProcType /\ Me(c).state = "RUNNING" /\ Images(p, Me(c), image)
  BY <1>0, Here
<1>3. proc \in [Proc -> ProcType] /\ current \in [Cpu -> Proc \cup {None}] /\ ttbr0 \in [Cpu -> Image \cup {None}]
  BY DEF MemInv, MemType
<1>4. r \in ProcType /\ r.state = s /\ r.pc = Me(c).pc /\ r.pgdir = Me(c).pgdir /\ r.old = Me(c).old
  BY <1>2 DEF ProcType
<1>5. proc'[p] = r /\ (\A q \in Proc \ {p} : proc'[q] = proc[q]) /\ proc[p] = Me(c)
  BY <1>1, <1>2, <1>3 DEF Me
<1> HIDE DEF r
<1>6. MemType'
  BY <1>1, <1>2, <1>3, <1>4 DEF MemInv, MemType
<1>7. Images(p, r, image)
  BY Zenon, <1>0, <1>2, <1>4 DEF Images
<1>8. ImagesInv'
  <2> SUFFICES ASSUME NEW q \in Proc PROVE Images(q, proc'[q], image')
    BY DEF ImagesInv
  <2>1. Images(q, proc[q], image)
    BY DEF MemInv, ImagesInv
  <2> QED
    BY <1>1, <1>5, <1>7, <2>1
<1>9. \A e \in Cpu \ {c} : current[e] # None => current[e] # p /\ current[e] \in Proc
  BY <1>0, <1>3 DEF MemInv, Running
<1>10. Running'
  BY <1>1, <1>3, <1>5, <1>9 DEF MemInv, Running
<1>11. TableInv'
  <2> SUFFICES ASSUME NEW e \in Cpu PROVE OnTable(e)'
    BY DEF TableInv
  <2>1. CASE e = c
    BY <1>1, <1>3, <2>1 DEF OnTable
  <2>2. CASE e # c
    <3>1. current'[e] = current[e] /\ ttbr0'[e] = ttbr0[e]
      BY <1>1, <1>3, <2>2
    <3>2. current[e] # None => Me(e)' = Me(e)
      BY <1>5, <1>9, <2>2, <3>1 DEF Me
    <3>3. OnTable(e) /\ failed' = failed
      BY <1>1 DEF MemInv, TableInv
    <3> QED
      BY <3>1, <3>2, <3>3 DEF OnTable
  <2> QED
    BY <2>1, <2>2
<1>12. PagesConserved'
  <2>1. Live(proc') = Live(proc)
    BY <1>2, <1>4, <1>5 DEF Live
  <2> QED
    BY Zenon, <1>1, <2>1 DEF PagesConserved, Live
<1> QED
  BY <1>6, <1>8, <1>10, <1>11, <1>12 DEF Kept, MemInv

\* A step that changes a process on no CPU and its images.
LEMMA OtherStep ==
    ASSUME MemInv, NEW q \in Proc, proc[q].state # "RUNNING", NEW r \in ProcType,
           proc' = [proc EXCEPT ![q] = r], freelist' \in Int, lost' \in Int, IsFiniteSet(zero'),
           image' \in [Image -> SUBSET Parts],
           \A d \in Image : d[1] # q => image'[d] = image[d],
           Images(q, r, image'), UNCHANGED <<current, ttbr0, failed>>
    PROVE  MemInv'
<1>1. proc'[q] = r /\ (\A p \in Proc \ {q} : proc'[p] = proc[p]) /\ proc' \in [Proc -> ProcType]
  BY DEF MemInv, MemType
<1>2. MemType'
  BY <1>1 DEF MemInv, MemType
<1>3. ImagesInv'
  <2> SUFFICES ASSUME NEW p \in Proc PROVE Images(p, proc'[p], image')
    BY DEF ImagesInv
  <2>1. CASE p = q
    BY <2>1, <1>1
  <2>2. CASE p # q
    <3>1. \A d \in Own(p) : image'[d] = image[d]
      BY <2>2, NewImage
    <3>2. proc[p] \in ProcType /\ Images(p, proc[p], image)
      BY DEF MemInv, MemType, ImagesInv
    <3> QED
      BY <3>1, <3>2, <1>1, <2>2, ImagesFrame
  <2> QED
    BY <2>1, <2>2
<1>4. \A c \in Cpu : current[c] # None => current[c] # q /\ current[c] \in Proc
  BY DEF MemInv, MemType, Running
<1>5. Running'
  BY <1>1, <1>4 DEF MemInv, Running
<1>6. TableInv'
  <2> SUFFICES ASSUME NEW e \in Cpu PROVE OnTable(e)'
    BY DEF TableInv
  <2>1. current[e] # None => Me(e)' = Me(e)
    BY <1>1, <1>4 DEF Me
  <2>2. OnTable(e)
    BY DEF MemInv, TableInv
  <2> QED
    BY <2>1, <2>2 DEF OnTable
<1> QED
  BY <1>2, <1>3, <1>5, <1>6 DEF MemInv

\* An entry that is not in use is well formed.
LEMMA UnusedType == Unused \in ProcType /\ Unused.state = "UNUSED" /\ Unused.pc = "user" /\ 0 \in Size
<1>1. 0 \in Size
  BY MemoryAssumption DEF Size
<1> QED
  BY <1>1 DEF Unused, ProcType

\* fork gives the new process the pages it takes, but for the one it loses.
LEMMA ForkKeeps ==
    ASSUME MemInv, PagesConserved, pages \in Seq(Page), NEW c \in Cpu, NEW q \in Proc, fork(c, q)
    PROVE  Kept
<1> DEFINE need == Cardinality(image[Me(c).pgdir])
<1>0. current[c] # None /\ Me(c).pc = "user" /\ proc[q].state = "UNUSED"
  BY DEF fork, Program, At, Me
<1>1. current[c] \in Proc /\ Me(c) \in ProcType /\ Me(c).state = "RUNNING" /\ Images(current[c], Me(c), image)
  BY <1>0, Here
<1>2. Me(c).pgdir \in Own(current[c]) /\ Me(c).pgdir \in Image /\ DIR \in image[Me(c).pgdir]
  BY Zenon, <1>0, <1>1, NewImage DEF Images
<1>3. freelist \in Int /\ lost \in Int /\ image \in [Image -> SUBSET Parts] /\ proc \in [Proc -> ProcType]
  BY DEF MemInv, MemType
<1>4. need \in Nat
  BY <1>2, <1>3, PartsFinite
<1>5. CASE panic
  BY <1>5, PanicKeeps
<1>7. CASE /\ freelist' = freelist - 2 - need /\ lost' = lost + 1
           /\ image' = [image EXCEPT ![<<q, 0>>] = image[Me(c).pgdir]]
           /\ proc' = [proc EXCEPT ![q] = [Unused EXCEPT !.state = "RUNNABLE", !.parent = current[c],
                                                         !.pgdir = <<q, 0>>, !.sz = Me(c).sz]]
           /\ UNCHANGED <<current, ttbr0, zero, failed>> /\ keep_arena
  <2> DEFINE r == [Unused EXCEPT !.state = "RUNNABLE", !.parent = current[c], !.pgdir = <<q, 0>>, !.sz = Me(c).sz]
             d == <<q, 0>>
  <2>1. d \in Own(q)
    BY DEF Own
  <2>2. d \in Image /\ d[1] = q /\ new(d) \in Image /\ new(d) \in Own(q) /\ new(d) # d
    BY <2>1, NewImage
  <2>3. image[d] = {} /\ image[new(d)] = {}
    BY <1>0, <2>1, <2>2 DEF MemInv, ImagesInv, Images
  <2>4. r \in ProcType /\ r.state = "RUNNABLE" /\ r.pgdir = d /\ r.pc = "user"
    <3>1. Me(c).sz \in Size
      BY <1>1 DEF ProcType
    <3> QED
      BY Zenon, <1>1, <2>2, <3>1, UnusedType DEF ProcType, Unused
  <2>5. proc' = [proc EXCEPT ![q] = r] /\ image' = [image EXCEPT ![d] = image[Me(c).pgdir]]
    BY <1>7
  <2> HIDE DEF r, d
  <2>6. /\ image' \in [Image -> SUBSET Parts] /\ (\A e \in Image : e # d => image'[e] = image[e])
        /\ image'[d] = image[Me(c).pgdir]
    BY <1>2, <1>3, <2>2, <2>5
  <2>7. Images(q, r, image')
    BY Zenon, <1>2, <2>1, <2>2, <2>3, <2>4, <2>6 DEF Images
  <2>8. MemInv'
    <3>1. freelist' \in Int /\ lost' \in Int /\ IsFiniteSet(zero')
      BY <1>3, <1>4, <1>7 DEF MemInv, MemType
    <3>2. proc[q].state # "RUNNING" /\ (\A e \in Image : e[1] # q => image'[e] = image[e])
          /\ UNCHANGED <<current, ttbr0, failed>>
      BY <1>0, <1>7, <2>2, <2>6
    <3> QED
      BY Zenon, <2>4, <2>5, <2>6, <2>7, <3>1, <3>2, OtherStep
  <2>9. Cardinality(Live(proc)) \in Nat /\ Cardinality(Live(proc')) = Cardinality(Live(proc)) + 1
    <3>1. Live(proc) \subseteq Proc /\ q \notin Live(proc)
      BY <1>0 DEF Live
    <3>2. Live(proc') = Live(proc) \cup {q}
      BY <1>3, <2>4, <2>5 DEF Live
    <3>3. IsFiniteSet(Live(proc))
      BY <3>1, MemoryAssumption, FS_Subset
    <3> QED
      BY <3>1, <3>2, <3>3, FS_AddElement, FS_CardinalityType
  <2>10. Cardinality(image[d]) = 0
    BY <2>3, FS_EmptySet
  <2>11. lost' \in Int /\ Cardinality(Live(proc')) \in Int
    BY <1>3, <1>7, <2>9
  <2>12. freelist' = freelist + (lost - lost') + (Cardinality(Live(proc)) - Cardinality(Live(proc')))
                              + (Cardinality(image[d]) - Cardinality(image[Me(c).pgdir]))
    BY <1>3, <1>4, <1>7, <2>9, <2>10
  <2>13. Len(pages') = Len(pages) /\ image[Me(c).pgdir] \in SUBSET Parts
    BY <1>2, <1>3, <1>7 DEF keep_arena
  <2>14. PagesConserved'
    <3>1. UNCHANGED zero
      BY <1>7
    <3>2. IsFiniteSet(zero') /\ Gone - Gone' = lost - lost'
      BY Zenon, <2>11, <3>1, GoneSame
    <3> QED
      BY Zenon, <2>2, <2>5, <2>11, <2>12, <2>13, <3>2, PagesStep
  <2> QED
    BY <2>8, <2>14 DEF Kept
<1> QED
  BY <1>5, <1>7 DEF fork

\* wait gives back the image and the stack of a zombie.
LEMMA WaitKeeps ==
    ASSUME MemInv, PagesConserved, pages \in Seq(Page), NEW c \in Cpu, NEW q \in Proc, wait(c, q)
    PROVE  Kept
<1> DEFINE d == proc[q].pgdir
<1>0. /\ proc[q].state = "ZOMBIE" /\ freelist' = freelist + Cardinality(image[d]) + 1
      /\ image' = [image EXCEPT ![d] = {}] /\ proc' = [proc EXCEPT ![q] = Unused]
      /\ UNCHANGED <<current, ttbr0, zero, lost, failed, pages>>
  BY DEF wait, recur_vm_free, keep_arena
<1>1. freelist \in Int /\ lost \in Int /\ image \in [Image -> SUBSET Parts] /\ proc \in [Proc -> ProcType]
  BY DEF MemInv, MemType
<1>2. d \in Own(q) /\ image[new(d)] = {}
  BY Zenon, <1>0 DEF MemInv, ImagesInv, Images
<1> HIDE DEF d
<1>3. d \in Image /\ d[1] = q /\ new(d) \in Image /\ new(d) # d /\ (\A e \in Own(q) : e = d \/ e = new(d))
  BY <1>2, NewImage
<1>4. Cardinality(image[d]) \in Nat /\ Cardinality({}) = 0
  BY <1>1, <1>3, PartsFinite, FS_EmptySet
<1>5. /\ image' \in [Image -> SUBSET Parts] /\ (\A e \in Image : e # d => image'[e] = image[e])
      /\ image'[d] = {}
  BY <1>0, <1>1, <1>3
<1>6. Images(q, Unused, image')
  BY Zenon, <1>2, <1>3, <1>5, UnusedType DEF Images
<1>7. MemInv'
  <2>1. freelist' \in Int /\ lost' \in Int /\ IsFiniteSet(zero')
    BY <1>0, <1>1, <1>4 DEF MemInv, MemType
  <2>2. proc[q].state # "RUNNING" /\ (\A e \in Image : e[1] # q => image'[e] = image[e])
        /\ UNCHANGED <<current, ttbr0, failed>>
    BY <1>0, <1>3, <1>5
  <2> QED
    BY Zenon, <1>0, <1>5, <1>6, <2>1, <2>2, UnusedType, OtherStep
<1>8. Cardinality(Live(proc)) \in Nat /\ Cardinality(Live(proc')) = Cardinality(Live(proc)) - 1
  <2>1. Live(proc) \subseteq Proc /\ q \in Live(proc)
    BY <1>0 DEF Live
  <2>2. Live(proc') = Live(proc) \ {q}
    BY <1>0, <1>1, UnusedType DEF Live
  <2>3. IsFiniteSet(Live(proc))
    BY <2>1, MemoryAssumption, FS_Subset
  <2> QED
    BY <2>1, <2>2, <2>3, FS_RemoveElement, FS_CardinalityType
<1>9. lost' \in Int /\ Cardinality(Live(proc')) \in Int /\ Len(pages') = Len(pages) /\ {} \in SUBSET Parts
  BY <1>0, <1>1, <1>8
<1>10. freelist' = freelist + (lost - lost') + (Cardinality(Live(proc)) - Cardinality(Live(proc')))
                            + (Cardinality(image[d]) - Cardinality({}))
  BY <1>0, <1>1, <1>4, <1>8
<1>11. PagesConserved'
  <2>1. UNCHANGED zero
    BY <1>0
  <2>2. IsFiniteSet(zero') /\ Gone - Gone' = lost - lost'
    BY Zenon, <1>9, <2>1, GoneSame
  <2> QED
    BY Zenon, <1>0, <1>3, <1>9, <1>10, <2>2, PagesStep
<1> QED
  BY <1>7, <1>11 DEF Kept

\* What execve knows of its images.
LEMMA InExec ==
    ASSUME MemInv, NEW c \in Cpu, current[c] # None, Me(c).pc \notin {"user", "grow"}
    PROVE  /\ Me(c).old \in Own(current[c]) /\ new(Me(c).old) \in Own(current[c])
           /\ Me(c).old \in Image /\ Me(c).old[1] = current[c]
           /\ new(Me(c).old) \in Image /\ new(Me(c).old)[1] = current[c] /\ new(Me(c).old) # Me(c).old
           /\ new(new(Me(c).old)) = Me(c).old
<1>1. current[c] \in Proc /\ Images(current[c], Me(c), image)
  BY Here
<1>2. Me(c).old \in Own(current[c])
  BY <1>1 DEF Images
<1>3. PICK p, d : p = current[c] /\ d = Me(c).old
  BY Zenon
<1>4. p \in Proc /\ d \in Own(p)
  BY Zenon, <1>1, <1>2, <1>3
<1>5. /\ d \in Image /\ d[1] = p /\ new(d) \in Own(p) /\ new(d) \in Image /\ new(d)[1] = p /\ new(d) # d
      /\ new(new(d)) = d
  BY Zenon, <1>4, NewImage
<1> QED
  BY Zenon, <1>3, <1>4, <1>5

\* A step of execve that changes the image it makes.
LEMMA ExecPages ==
    ASSUME MemInv, PagesConserved, pages \in Seq(Page), NEW c \in Cpu, current[c] # None,
           NEW r \in ProcType, r.state = "RUNNING", set(c, r), NEW d \in Own(current[c]), NEW P \in SUBSET Parts,
           image' = [image EXCEPT ![d] = P], Images(current[c], r, image'),
           freelist' \in Int, lost' \in Int, IsFiniteSet(zero'), UNCHANGED <<current, failed, pages>>,
           NEW e \in Image, ttbr0' = ttbr0 \/ ttbr0' = [ttbr0 EXCEPT ![c] = e], OnTable(c)',
           freelist' = freelist + (Gone - Gone') + (Cardinality(image[d]) - Cardinality(P))
    PROVE  Kept
<1>1. d \in Image /\ d[1] = current[c]
  BY Zenon, Here, NewImage
<1>2. image' \in [Image -> SUBSET Parts] /\ (\A f \in Image : f[1] # current[c] => image'[f] = image[f])
  BY <1>1 DEF MemInv, MemType
<1>3. ttbr0' \in [Cpu -> Image \cup {None}] /\ (\A f \in Cpu \ {c} : ttbr0'[f] = ttbr0[f])
  BY DEF MemInv, MemType
<1>4. MemInv'
  BY Zenon, <1>2, <1>3, OwnStep
<1>5. PagesConserved'
  BY Zenon, <1>1, OwnPages
<1> QED
  BY <1>4, <1>5 DEF Kept

\* execve makes a directory.
LEMMA ExecveKeeps ==
    ASSUME MemInv, PagesConserved, pages \in Seq(Page), NEW c \in Cpu, execve(c)
    PROVE  Kept
<1> DEFINE d == Me(c).pgdir
           r == [Me(c) EXCEPT !.pc = "namei", !.old = d, !.a = Base]
<1>0. /\ current[c] # None /\ Me(c).pc = "user" /\ freelist' = freelist - 1
      /\ image' = [image EXCEPT ![new(d)] = {DIR}] /\ set(c, r)
      /\ UNCHANGED <<current, ttbr0, zero, lost, failed, pages>>
  BY DEF execve, At, Me, keep_arena
<1>1. current[c] \in Proc /\ Me(c) \in ProcType /\ Me(c).state = "RUNNING" /\ Images(current[c], Me(c), image)
      /\ OnTable(c)
  BY <1>0, Here
<1>2. d \in Own(current[c]) /\ DIR \in image[d] /\ image[new(d)] = {}
  BY <1>0, <1>1 DEF Images
<1>3. d \in Image /\ new(d) \in Own(current[c]) /\ new(d) \in Image /\ new(d) # d
  BY <1>1, <1>2, NewImage
<1>4. r \in ProcType /\ r.state = "RUNNING" /\ r.pc = "namei" /\ r.old = d /\ r.pgdir = d
  <2>1. Base \in Size
    BY MemoryAssumption DEF Size
  <2> QED
    BY Zenon, <1>1, <1>3, <2>1 DEF ProcType
<1> HIDE DEF d, r
<1>5. freelist \in Int /\ lost \in Int /\ image \in [Image -> SUBSET Parts]
  BY DEF MemInv, MemType
<1>6. {DIR} \in SUBSET Parts /\ STACK # DIR /\ table_of(STACK) # DIR
  BY MemoryAssumption DEF Parts, DIR, STACK, table_of
<1>7. Images(current[c], r, image')
  <2>1. image'[d] = image[d] /\ image'[new(d)] = {DIR}
    BY <1>0, <1>3, <1>5
  <2> QED
    BY <1>2, <1>3, <1>4, <1>6, <2>1 DEF Images
<1>8. OnTable(c)'
  BY <1>0, <1>1, <1>4, Set DEF OnTable, d
<1>9. Cardinality({DIR}) = 1 /\ Cardinality(image[new(d)]) = 0
  BY Zenon, <1>2, Few, FS_EmptySet
<1>10. freelist' \in Int /\ lost' \in Int
       /\ freelist' = freelist + (lost - lost') + (Cardinality(image[new(d)]) - Cardinality({DIR}))
  BY <1>0, <1>5, <1>9
<1>11. IsFiniteSet(zero') /\ freelist' = freelist + (Gone - Gone') + (Cardinality(image[new(d)]) - Cardinality({DIR}))
  BY Zenon, <1>0, <1>10, GoneSame
<1> QED
  BY Zenon, <1>0, <1>3, <1>4, <1>6, <1>7, <1>8, <1>10, <1>11, ExecPages

\* execve fails, and gives back the image it made.
LEMMA ExecFreeKeeps ==
    ASSUME MemInv, PagesConserved, pages \in Seq(Page), NEW c \in Cpu, exec_free(c)
    PROVE  Kept
<1> DEFINE d == new(Me(c).old)
           r == [Me(c) EXCEPT !.pc = "put"]
<1>0. /\ current[c] # None /\ Me(c).pc = "bad" /\ freelist' = freelist + Cardinality(image[d])
      /\ image' = [image EXCEPT ![d] = {}] /\ set(c, r)
      /\ UNCHANGED <<current, ttbr0, zero, lost, failed, pages>>
  BY DEF exec_free, vm_free, recur_vm_free, At, Me, keep_arena
<1>1. current[c] \in Proc /\ Me(c) \in ProcType /\ Me(c).state = "RUNNING" /\ Images(current[c], Me(c), image)
      /\ OnTable(c)
  BY <1>0, Here
<1>2. Me(c).old \in Own(current[c]) /\ d \in Own(current[c]) /\ d \in Image /\ Me(c).old \in Image /\ d # Me(c).old
  BY <1>0, InExec
<1>3. r \in ProcType /\ r.state = "RUNNING" /\ r.pc = "put" /\ r.old = Me(c).old /\ r.pgdir = Me(c).pgdir
  BY <1>1 DEF ProcType
<1>4. freelist \in Int /\ lost \in Int /\ image \in [Image -> SUBSET Parts]
  BY DEF MemInv, MemType
<1>5. Images(current[c], r, image')
  <2>1. image'[Me(c).old] = image[Me(c).old] /\ image'[d] = {}
    BY <1>0, <1>2, <1>4
  <2> QED
    BY <1>0, <1>1, <1>2, <1>3, <2>1 DEF Images
<1> HIDE DEF d, r
<1>6. OnTable(c)'
  BY Zenon, <1>0, <1>1, <1>3, Set DEF OnTable
<1>7. Cardinality({}) = 0 /\ Cardinality(image[d]) \in Nat
  BY <1>2, <1>4, PartsFinite, FS_EmptySet
<1>8. freelist' \in Int /\ lost' \in Int /\ {} \in SUBSET Parts
      /\ freelist' = freelist + (lost - lost') + (Cardinality(image[d]) - Cardinality({}))
  BY <1>0, <1>4, <1>7
<1>9. IsFiniteSet(zero') /\ freelist' = freelist + (Gone - Gone') + (Cardinality(image[d]) - Cardinality({}))
  BY Zenon, <1>0, <1>8, GoneSame
<1> QED
  BY Zenon, <1>0, <1>2, <1>3, <1>5, <1>6, <1>8, <1>9, ExecPages

\* execve loads a page of a segment, or fails.
LEMMA ExecLoadKeeps ==
    ASSUME MemInv, PagesConserved, pages \in Seq(Page), NEW c \in Cpu, exec_load(c)
    PROVE  Kept
<1> DEFINE d == new(Me(c).old)
           v == Me(c).a
<1>0. current[c] # None /\ Me(c).pc = "load" /\ v < Low
  BY DEF exec_load, At, Me
<1>1. current[c] \in Proc /\ Me(c) \in ProcType /\ Me(c).state = "RUNNING" /\ Images(current[c], Me(c), image)
  BY <1>0, Here
<1>2. /\ Me(c).old \in Own(current[c]) /\ d \in Own(current[c]) /\ d \in Image
      /\ Me(c).old \in Image /\ d # Me(c).old /\ Me(c).pgdir = d
  BY Zenon, <1>0, <1>1, InExec DEF Images
<1>3. v \in Size /\ v + 1 \in Size
  <2>1. v \in Size
    BY <1>1 DEF ProcType
  <2> QED
    BY <1>0, <2>1, MemoryAssumption DEF Size
<1>4. freelist \in Int /\ lost \in Int /\ image \in [Image -> SUBSET Parts] /\ ttbr0 \in [Cpu -> Image \cup {None}]
  BY DEF MemInv, MemType
<1>5. CASE /\ alloc_stray(d, v) /\ ttbr0' = [ttbr0 EXCEPT ![c] = d]
           /\ UNCHANGED <<proc, current, failed, pages, used, count>>
  <2> DEFINE P == image[d]
  <2>1. /\ freelist' \in Int /\ lost' \in Int /\ IsFiniteSet(zero') /\ Gone \in Int /\ Gone' \in Int
        /\ freelist' = freelist + (Gone - Gone') /\ UNCHANGED image
    BY Zenon, <1>2, <1>5, StrayPages
  <2>2. image' = [image EXCEPT ![d] = P] /\ P \in SUBSET Parts
    BY <1>2, <1>4, <2>1
  <2>3. set(c, Me(c)) /\ Images(current[c], Me(c), image')
    BY <1>1, <1>5, <2>1 DEF set, Me, MemInv, MemType
  <2>4. OnTable(c)'
    BY <1>0, <1>5 DEF OnTable, Me
  <2>5. freelist' = freelist + (Gone - Gone') + (Cardinality(image[d]) - Cardinality(P))
    <3>1. Cardinality(P) \in Nat
      BY <2>2, PartsFinite
    <3> QED
      BY <1>4, <2>1, <3>1
  <2>6. UNCHANGED <<current, failed, pages>>
    BY <1>5
  <2> QED
    BY Zenon, <1>0, <1>1, <1>2, <1>5, <2>1, <2>2, <2>3, <2>4, <2>5, <2>6, ExecPages
<1>6. CASE /\ alloc_page(d, v) /\ set(c, [Me(c) EXCEPT !.a = v + 1]) /\ ttbr0' = [ttbr0 EXCEPT ![c] = d]
           /\ UNCHANGED <<current, failed>> /\ keep_arena
  <2> DEFINE r == [Me(c) EXCEPT !.a = v + 1]
             P == image[d] \cup {v, table_of(v)}
  <2>1. r \in ProcType /\ r.state = "RUNNING" /\ r.pc = "load" /\ r.old = Me(c).old /\ r.pgdir = d
    BY <1>0, <1>1, <1>2, <1>3 DEF ProcType
  <2>2. set(c, r) /\ ttbr0' = [ttbr0 EXCEPT ![c] = d] /\ UNCHANGED <<current, failed, pages>>
    BY <1>6 DEF keep_arena
  <2>3. /\ freelist' \in Int /\ lost' \in Int /\ P \in SUBSET Parts /\ image' = [image EXCEPT ![d] = P]
        /\ UNCHANGED zero
        /\ freelist' = freelist + (lost - lost') + (Cardinality(image[d]) - Cardinality(P))
    BY Zenon, <1>0, <1>2, <1>3, <1>6, AllocPages
  <2>4. (DIR \in image[d] => DIR \in P) /\ (STACK \notin image[d] => STACK \notin P)
        /\ (table_of(STACK) \notin image[d] => table_of(STACK) \notin P)
    BY Zenon, <1>0, <1>3, TableParts
  <2>5. image'[Me(c).old] = image[Me(c).old] /\ image'[d] = P
    BY <1>2, <1>4, <2>3
  <2> HIDE DEF r, P
  <2>6. Images(current[c], r, image')
    BY Zenon, <1>0, <1>1, <1>2, <2>1, <2>4, <2>5 DEF Images
  <2>7. OnTable(c)'
    BY Zenon, <1>0, <2>1, <2>2, Set DEF OnTable
  <2>8. IsFiniteSet(zero') /\ freelist' = freelist + (Gone - Gone') + (Cardinality(image[d]) - Cardinality(P))
    BY Zenon, <2>3, GoneSame
  <2> QED
    BY Zenon, <1>0, <1>2, <2>1, <2>2, <2>3, <2>6, <2>7, <2>8, ExecPages
<1>7. CASE /\ set(c, [Me(c) EXCEPT !.pc = "bad"])
           /\ UNCHANGED <<freelist, image, current, ttbr0, zero, lost, failed>> /\ keep_arena
  <2>1. exec_bad(c)
    BY <1>0, <1>7 DEF exec_bad, At, Me
  <2> QED
    BY <2>1, ExecKeeps
<1> QED
  BY <1>5, <1>6, <1>7 DEF exec_load

\* execve fails at the arguments or at the stack.
LEMMA ExecArgsFails ==
    ASSUME MemInv, PagesConserved, pages \in Seq(Page), NEW c \in Cpu, At(c, "load"),
           NEW P \in SUBSET Parts, image[new(Me(c).old)] \subseteq P,
           image' = [image EXCEPT ![new(Me(c).old)] = P],
           freelist' \in Int, lost' \in Int,
           freelist' = freelist + (lost - lost') + (Cardinality(image[new(Me(c).old)]) - Cardinality(P)),
           ttbr0' = [ttbr0 EXCEPT ![c] = Me(c).old], set(c, [Me(c) EXCEPT !.pc = "bad"]),
           UNCHANGED <<current, zero, failed, pages>>
    PROVE  Kept
<1> DEFINE d == new(Me(c).old)
           r == [Me(c) EXCEPT !.pc = "bad"]
<1>0. current[c] # None /\ Me(c).pc = "load"
  BY DEF At, Me
<1>1. current[c] \in Proc /\ Me(c) \in ProcType /\ Me(c).state = "RUNNING" /\ Images(current[c], Me(c), image)
  BY <1>0, Here
<1>2. /\ Me(c).old \in Own(current[c]) /\ d \in Own(current[c]) /\ d \in Image
      /\ Me(c).old \in Image /\ d # Me(c).old /\ Me(c).pgdir = d
  BY <1>0, <1>1, InExec DEF Images
<1>3. r \in ProcType /\ r.state = "RUNNING" /\ r.pc = "bad" /\ r.old = Me(c).old /\ r.pgdir = d
  BY <1>1, <1>2 DEF ProcType
<1>4. image'[Me(c).old] = image[Me(c).old] /\ image'[d] = P
  BY <1>2 DEF MemInv, MemType
<1>5. Images(current[c], r, image')
  BY <1>0, <1>1, <1>2, <1>3, <1>4 DEF Images
<1>6. OnTable(c)'
  BY Zenon, <1>0, <1>2, <1>3, Set DEF OnTable
<1> HIDE DEF d, r
<1>7. set(c, r) /\ image' = [image EXCEPT ![d] = P]
      /\ freelist' = freelist + (lost - lost') + (Cardinality(image[d]) - Cardinality(P))
  BY DEF d, r
<1>8. IsFiniteSet(zero') /\ freelist' = freelist + (Gone - Gone') + (Cardinality(image[d]) - Cardinality(P))
  BY Zenon, <1>7, GoneSame
<1> QED
  BY ZenonT(40), <1>0, <1>2, <1>3, <1>5, <1>6, <1>7, <1>8, ExecPages

\* Two pages are mapped at the end of execve, and the i pages of the old table
\* are lost: what the counts say of memory stays the same.
Balanced(f, s, n, k, m) == NPages = f + s + n + k + m

LEMMA Balance ==
    ASSUME NEW f \in Int, NEW s \in Int, NEW n \in Int, NEW k \in Int, NEW m \in Int, NEW i \in Int,
           Balanced(f, s, n, k, m)
    PROVE  Balanced(f - 2, s + i, n, k, m + 2 - i)
BY DEF Balanced

\* execve makes the stack and replaces the image.
LEMMA ExecArgsDone ==
    ASSUME MemInv, PagesConserved, pages \in Seq(Page), NEW c \in Cpu, At(c, "load"),
           freelist' = freelist - 2, lost' = lost + Cardinality(image[Me(c).old]),
           image' = [image EXCEPT ![new(Me(c).old)] = @ \cup {table_of(STACK), STACK}, ![Me(c).old] = {}],
           ttbr0' = [ttbr0 EXCEPT ![c] = new(Me(c).old)],
           set(c, [Me(c) EXCEPT !.pc = "user", !.sz = Me(c).a, !.a = 0, !.old = None]),
           UNCHANGED <<current, zero, failed, pages>>
    PROVE  Kept
<1> DEFINE o == Me(c).old
           d == new(o)
           P == image[d] \cup {table_of(STACK), STACK}
           mid == [image EXCEPT ![d] = P]
           r == [Me(c) EXCEPT !.pc = "user", !.sz = Me(c).a, !.a = 0, !.old = None]
<1>0. current[c] # None /\ Me(c).pc = "load"
  BY DEF At, Me
<1>1. current[c] \in Proc /\ Me(c) \in ProcType /\ Me(c).state = "RUNNING" /\ Images(current[c], Me(c), image)
  BY <1>0, Here
<1>2. /\ o \in Own(current[c]) /\ d \in Own(current[c]) /\ d \in Image /\ d[1] = current[c] /\ o[1] = current[c]
      /\ o \in Image /\ d # o /\ Me(c).pgdir = d /\ new(d) = o
  BY <1>0, <1>1, InExec DEF Images
<1>3. DIR \in image[d] /\ STACK \notin image[d] /\ table_of(STACK) \notin image[d]
  BY <1>0, <1>1 DEF Images
<1>4. freelist \in Int /\ lost \in Int /\ image \in [Image -> SUBSET Parts] /\ ttbr0 \in [Cpu -> Image \cup {None}]
  BY DEF MemInv, MemType
<1>5. STACK \in Parts /\ table_of(STACK) \in Parts /\ STACK # table_of(STACK)
  BY MemoryAssumption DEF Parts, STACK, table_of
<1>6. P \in SUBSET Parts
  BY <1>2, <1>4, <1>5
<1>7. mid \in [Image -> SUBSET Parts] /\ mid[o] = image[o] /\ image' = [mid EXCEPT ![o] = {}]
  BY <1>2, <1>4, <1>6
<1>8. image' \in [Image -> SUBSET Parts] /\ image'[o] = {} /\ image'[d] = P
      /\ (\A e \in Image : e[1] # current[c] => image'[e] = image[e])
  BY <1>2, <1>4, <1>6
<1>9. r \in ProcType /\ r.state = "RUNNING" /\ r.pc = "user" /\ r.pgdir = d
  BY Zenon, <1>1, <1>2, UnusedType DEF ProcType
<1>10. DIR \in P
  BY <1>3
<1>11. Cardinality(P) = Cardinality(image[d]) + 2 /\ Cardinality(image[d]) \in Nat /\ Cardinality(image[o]) \in Nat
  <2>1. {table_of(STACK), STACK} \ image[d] = {table_of(STACK), STACK}
    BY <1>3
  <2>2. Cardinality({table_of(STACK), STACK}) = 2
    BY Zenon, <1>5, Few
  <2>3. Cardinality(P) = Cardinality(image[d]) + Cardinality({table_of(STACK), STACK} \ image[d])
        /\ Cardinality(image[d]) \in Nat
    BY Zenon, <1>2, <1>4, <1>5, PartsCount
  <2>4. Cardinality(image[o]) \in Nat
    BY <1>2, <1>4, PartsFinite
  <2> QED
    BY Zenon, <2>1, <2>2, <2>3, <2>4
<1>12. set(c, r) /\ ttbr0' = [ttbr0 EXCEPT ![c] = d]
  OBVIOUS
<1> HIDE DEF o, d, P, mid, r
<1>13. Images(current[c], r, image')
  BY Zenon, <1>2, <1>8, <1>9, <1>10 DEF Images
<1>14. OnTable(c)' /\ ttbr0' \in [Cpu -> Image \cup {None}] /\ (\A e \in Cpu \ {c} : ttbr0'[e] = ttbr0[e])
  <2>1. ttbr0' \in [Cpu -> Image \cup {None}] /\ ttbr0'[c] = d /\ (\A e \in Cpu \ {c} : ttbr0'[e] = ttbr0[e])
    BY <1>2, <1>4, <1>12
  <2> QED
    BY <1>0, <1>9, <1>12, <2>1, Set DEF OnTable
<1>15. freelist' \in Int /\ lost' \in Int /\ IsFiniteSet(zero')
  BY <1>4, <1>11 DEF o, MemInv, MemType
<1>16. MemInv'
  BY Zenon, <1>0, <1>8, <1>9, <1>12, <1>13, <1>14, <1>15, OwnStep
<1>17. PagesConserved'
  <2>1. Cardinality(Mapped(image)) \in Nat
        /\ Cardinality(Mapped(mid)) = Cardinality(Mapped(image)) - Cardinality(image[d]) + Cardinality(P)
    BY Zenon, <1>2, <1>4, <1>6, MappedUpdate DEF mid
  <2>2. Cardinality(Mapped(image')) = Cardinality(Mapped(mid)) - Cardinality(mid[o]) + Cardinality({})
    <3>1. PICK Q \in SUBSET Parts : Q = {}
      BY Zenon
    <3>2. Cardinality(Mapped([mid EXCEPT ![o] = Q])) = Cardinality(Mapped(mid)) - Cardinality(mid[o]) + Cardinality(Q)
      <4>1. mid \in [Image -> SUBSET Parts] /\ o \in Image
        BY <1>2, <1>7
      <4> QED
        BY Zenon, <4>1, MappedUpdate
    <3> QED
      BY Zenon, <1>7, <3>1, <3>2
  <2>3. Cardinality({}) = 0
    BY FS_EmptySet
  <2>4. Live(proc') = Live(proc) /\ Cardinality(Live(proc)) \in Nat
    BY <1>0, <1>9, <1>12, LiveKept
  <2>5. Cardinality(Mapped(image')) = Cardinality(Mapped(image)) + 2 - Cardinality(image[o])
    BY <1>7, <1>11, <2>1, <2>2, <2>3
  <2>a. PICK n \in Int : n = Cardinality(zero) + Len(pages)
    BY FS_CardinalityType DEF MemInv, MemType
  <2>b. freelist + lost + Cardinality(zero) + Len(pages) = freelist + lost + n
        /\ freelist' + lost' + Cardinality(zero') + Len(pages') = freelist' + lost' + n
    <3>1. Cardinality(zero) \in Nat /\ Len(pages) \in Nat
      BY FS_CardinalityType DEF MemInv, MemType
    <3> QED
      BY <1>4, <1>15, <2>a, <3>1
  <2>6. NPages = freelist + lost + n + Cardinality(Live(proc)) + Cardinality(Mapped(image))
    BY Zenon, <2>b DEF PagesConserved, Live, Mapped
  <2>7. NPages = (freelist - 2) + (lost + Cardinality(image[o])) + n + Cardinality(Live(proc))
                 + (Cardinality(Mapped(image)) + 2 - Cardinality(image[o]))
    <3>1. PICK m \in Int, k \in Int, i \in Int :
            m = Cardinality(Mapped(image)) /\ k = Cardinality(Live(proc)) /\ i = Cardinality(image[o])
      BY <1>11, <2>1, <2>4
    <3>2. NPages = freelist + lost + n + k + m
      BY <2>6, <3>1
    <3>3. NPages = (freelist - 2) + (lost + i) + n + k + (m + 2 - i)
      <4>1. freelist \in Int /\ lost \in Int
        BY Zenon, <1>4
      <4>2. Balanced(freelist, lost, n, k, m)
        BY Zenon, <3>2 DEF Balanced
      <4>3. Balanced(freelist - 2, lost + i, n, k, m + 2 - i)
        BY Zenon, <4>1, <4>2, Balance
      <4> QED BY Zenon, <4>3 DEF Balanced
    <3> QED
      BY <3>1, <3>3
  <2>8. NPages = freelist' + lost' + n + Cardinality(Live(proc')) + Cardinality(Mapped(image'))
    BY <2>4, <2>5, <2>7 DEF o
  <2> QED
    BY Zenon, <2>b, <2>8 DEF PagesConserved, Live, Mapped
<1> QED
  BY <1>16, <1>17 DEF Kept

\* The last step of execve.
LEMMA ExecArgsKeeps ==
    ASSUME MemInv, PagesConserved, pages \in Seq(Page), NEW c \in Cpu, exec_args(c)
    PROVE  Kept
<1> DEFINE d == new(Me(c).old)
<1>0. At(c, "load") /\ current[c] # None /\ Me(c).pc = "load"
  BY Zenon DEF exec_args, At, Me
<1>1. d \in Image /\ image[d] \in SUBSET Parts /\ table_of(STACK) \notin image[d] /\ STACK \notin image[d]
  <2>1. Images(current[c], Me(c), image)
    BY <1>0, Here
  <2>2. d \in Image
    BY <1>0, InExec
  <2> QED
    BY Zenon, <1>0, <2>1, <2>2 DEF Images, MemInv, MemType
<1>2. freelist \in Int /\ lost \in Int /\ Cardinality(image[d]) \in Nat /\ image \in [Image -> SUBSET Parts]
  BY <1>1, PartsFinite DEF MemInv, MemType
<1>3. CASE panic
  BY <1>3, PanicKeeps
<1>4. ASSUME NEW made \in {{}, {table_of(STACK)}, {table_of(STACK), STACK}},
             freelist' = freelist - Cardinality(made), image' = [image EXCEPT ![d] = @ \cup made],
             ttbr0' = [ttbr0 EXCEPT ![c] = Me(c).old], set(c, [Me(c) EXCEPT !.pc = "bad"]),
             UNCHANGED <<current, zero, lost, failed>>, keep_arena
      PROVE  Kept
  <2> DEFINE P == image[d] \cup made
  <2>1. image' = [image EXCEPT ![d] = P] /\ image[d] \subseteq P
    BY <1>4
  <2>2. made \in SUBSET Parts /\ made \ image[d] = made
    <3>1. STACK \in Parts /\ table_of(STACK) \in Parts
      BY MemoryAssumption DEF STACK, table_of, Parts
    <3> QED
      BY <1>1, <3>1
  <2>3. Cardinality(P) = Cardinality(image[d]) + Cardinality(made) /\ P \in SUBSET Parts
        /\ Cardinality(made) \in Nat
    <3>1. Cardinality(P) = Cardinality(image[d]) + Cardinality(made \ image[d])
          /\ Cardinality(made \ image[d]) \in Nat
      BY Zenon, <1>1, <2>2, PartsCount
    <3>2. P \in SUBSET Parts
      BY <1>1, <2>2
    <3> QED
      BY Zenon, <2>2, <3>1, <3>2
  <2> HIDE DEF P
  <2>4. freelist' \in Int /\ lost' \in Int
        /\ freelist' = freelist + (lost - lost') + (Cardinality(image[d]) - Cardinality(P))
    BY <1>2, <1>4, <2>3
  <2>5. UNCHANGED <<current, zero, failed, pages>>
    BY <1>4 DEF keep_arena
  <2> QED
    BY Zenon, <1>0, <1>4, <2>1, <2>3, <2>4, <2>5, ExecArgsFails
<1>5. CASE /\ freelist' = freelist - 2
           /\ image' = [image EXCEPT ![d] = @ \cup {table_of(STACK), STACK}, ![Me(c).old] = {}]
           /\ lost' = lost + Cardinality(image[Me(c).old]) /\ ttbr0' = [ttbr0 EXCEPT ![c] = d]
           /\ set(c, [Me(c) EXCEPT !.pc = "user", !.sz = Me(c).a, !.a = 0, !.old = None])
           /\ UNCHANGED <<current, zero, failed>> /\ keep_arena
  <2>1. UNCHANGED <<current, zero, failed, pages>>
    BY <1>5 DEF keep_arena
  <2> QED
    BY Zenon, <1>0, <1>5, <2>1, ExecArgsDone
<1> QED
  BY Zenon, <1>3, <1>4, <1>5 DEF exec_args

\* The arena takes from the free list the pages of its ring, and gives them back.
LEMMA ArenaKeeps ==
    ASSUME MemInv, PagesConserved, pages \in Seq(Page), pages' \in Seq(Page), ArenaNext, UNCHANGED memvars
    PROVE  Kept
<1>1. freelist \in Int /\ lost \in Int /\ Len(pages) \in Nat
  BY DEF MemInv, MemType
<1>2. freelist' \in Int /\ freelist' + Len(pages') = freelist + Len(pages)
  <2>1. CASE alloc_object
    BY <1>1, <2>1 DEF alloc_object, take_slot, next_page
  <2>2. CASE alloc_object_new_page
    BY <1>1, <2>2 DEF alloc_object_new_page, take_slot, next_page, insert_page
  <2>3. CASE alloc_object_fails
    BY <1>1, <2>3 DEF alloc_object_fails
  <2>4. CASE \E i \in 1 .. Len(pages), index \in 0 .. max_count - 1 : free_object(i, index)
    BY <1>1, <2>4 DEF free_object, move_page_to_head
  <2>5. CASE clear_arena
    BY <1>1, <2>5 DEF clear_arena
  <2> QED
    BY <2>1, <2>2, <2>3, <2>4, <2>5 DEF ArenaNext
<1>3. MemInv'
  BY <1>1, <1>2, OutsideKeeps DEF memvars, MemInv, MemType
<1>4. PagesConserved'
  <2>1. proc' = proc /\ image' = image /\ lost' = lost /\ zero' = zero
    BY Zenon DEF memvars
  <2>2. freelist' + lost' + Cardinality(zero') + Len(pages') = freelist + lost + Cardinality(zero) + Len(pages)
    <3>1. Len(pages') \in Nat /\ Cardinality(zero) \in Nat
      BY FS_CardinalityType DEF MemInv, MemType
    <3>2. PICK f \in Int, g \in Int, z \in Nat, m \in Nat, n \in Nat :
            f = freelist /\ g = freelist' /\ z = Cardinality(zero) /\ m = Len(pages) /\ n = Len(pages')
      BY Zenon, <1>1, <1>2, <3>1
    <3>3. g + lost + z + n = f + lost + z + m
      <4>1. g + n = f + m /\ lost \in Int
        BY Zenon, <1>1, <1>2, <3>2
      <4> QED
        BY <4>1
    <3> QED
      BY Zenon, <2>1, <3>2, <3>3
  <2> QED
    BY Zenon, <2>1, <2>2 DEF PagesConserved
<1> QED
  BY <1>3, <1>4 DEF Kept

\* Every step keeps the invariant and the sum of pages.
LEMMA PagesInductive == ArenaInv /\ MemInv /\ PagesConserved /\ [Next]_vars => Kept
<1> SUFFICES ASSUME ArenaInv, MemInv, PagesConserved, [Next]_vars PROVE Kept
  OBVIOUS
<1>0. pages \in Seq(Page) /\ pages' \in Seq(Page)
  BY ArenaInductive DEF ArenaInv, GoodRing
<1>1. CASE UNCHANGED vars
  <2>1. MemInv'
    BY <1>1, OutsideKeeps DEF vars, memvars, arenavars, MemInv, MemType
  <2>2. PagesConserved'
    BY Zenon, <1>1 DEF vars, memvars, arenavars, PagesConserved
  <2> QED
    BY <2>1, <2>2 DEF Kept
<1>2. ASSUME NEW c \in Cpu, NEW p \in Proc, switch(c, p) \/ fork(c, p) \/ wait(c, p)
      PROVE  Kept
  BY <1>0, <1>2, SwitchKeeps, ForkKeeps, WaitKeeps
<1>3. ASSUME NEW c \in Cpu, yield(c) \/ exit(c) \/ grow_step(c) \/ grow_end(c)
      PROVE  Kept
  BY <1>0, <1>3, LeaveKeeps, GrowStepKeeps, GrowKeeps
<1>4. ASSUME NEW c \in Cpu, NEW n \in 0 .. Low, (n > 0 /\ growproc(c, n)) \/ shrink(c, n)
      PROVE  Kept
  <2>1. CASE shrink(c, n)
    BY <1>0, <2>1, ShrinkKeeps
  <2>2. CASE n > 0 /\ growproc(c, n)
    <3>1. n \in 1 .. Low
      BY <2>2
    <3> QED
      BY <1>0, <2>2, <3>1, GrowKeeps
  <2> QED
    BY <1>4, <2>1, <2>2
<1>5. ASSUME NEW c \in Cpu, \/ execve(c) \/ exec_bad(c) \/ exec_elf(c) \/ exec_load(c)
                            \/ exec_args(c) \/ exec_free(c) \/ exec_fails(c)
      PROVE  Kept
  BY <1>0, <1>5, ExecveKeeps, ExecKeeps, ExecLoadKeeps, ExecArgsKeeps, ExecFreeKeeps
<1>6. CASE ArenaNext /\ UNCHANGED memvars
  BY <1>0, <1>6, ArenaKeeps
<1> QED
  BY <1>1, <1>2, <1>3, <1>4, <1>5, <1>6 DEF Next

\* The invariant and the sum hold of the first process and its image.
LEMMA PagesInit == Init => MemInv /\ PagesConserved
<1> SUFFICES ASSUME Init PROVE MemInv /\ PagesConserved
  OBVIOUS
<1> DEFINE d == <<init, 0>>
           P == {DIR, table_of(0), 0}
           none == [e \in Image |-> {}]
           r == [Unused EXCEPT !.state = "RUNNABLE", !.pgdir = d, !.sz = 1]
<1>1. init \in Proc /\ Low \in Nat /\ Low >= 1 /\ NPages \in Nat
  BY MemoryAssumption
<1>2. d \in Own(init)
  BY DEF Own
<1>3. d \in Image /\ new(d) \in Image /\ new(d) # d /\ (\A e \in Own(init) : e = d \/ e = new(d))
  BY <1>1, <1>2, NewImage
<1>4. P \in SUBSET Parts /\ P = {-3, -1} \cup {0}
  <2>1. 0 \div Entries = 0
    BY MemoryAssumption
  <2>2. table_of(0) = -3
    <3>1. 0 # STACK
      BY <1>1 DEF STACK
    <3>2. table_of(0) = -3 - (0 \div Entries)
      BY <3>1 DEF table_of
    <3> QED
      BY <2>1, <3>2
  <2> QED
    BY <1>1, <2>2 DEF Parts, DIR
<1>5. proc = [p \in Proc |-> IF p # init THEN Unused ELSE r]
  BY Zenon DEF Init
<1>6. image = [none EXCEPT ![d] = P] /\ none \in [Image -> SUBSET Parts]
  BY Zenon, <1>3 DEF Init
<1>7. r \in ProcType /\ r.state = "RUNNABLE" /\ r.pgdir = d /\ r.pc = "user"
  <2>1. 1 \in Size
    BY <1>1 DEF Size
  <2> QED
    BY Zenon, <1>3, <2>1, UnusedType DEF ProcType, Unused
<1>8. current = [c \in Cpu |-> None] /\ ttbr0 = [c \in Cpu |-> None] /\ lost = 0 /\ freelist = NPages - 4 /\ pages = <<>>
      /\ zero = {}
  BY Zenon DEF Init, ArenaInit
<1>9. DIR \in P
  OBVIOUS
<1> HIDE DEF d, P, r
<1>10. MemType
  <2>1. proc \in [Proc -> ProcType]
    BY <1>5, <1>7, UnusedType
  <2>2. image \in [Image -> SUBSET Parts]
    BY Zenon, <1>4, <1>6
  <2>3. freelist \in Int /\ lost \in Int /\ IsFiniteSet(zero)
    BY <1>1, <1>8, FS_EmptySet
  <2>4. current \in [Cpu -> Proc \cup {None}] /\ ttbr0 \in [Cpu -> Image \cup {None}]
    BY <1>8
  <2> QED
    BY <2>1, <2>2, <2>3, <2>4 DEF MemType
<1>11. ImagesInv
  <2> SUFFICES ASSUME NEW p \in Proc PROVE Images(p, proc[p], image)
    BY DEF ImagesInv
  <2>1. CASE p = init
    <3>1. proc[p] = r /\ image[d] = P /\ image[new(d)] = {}
      BY <1>3, <1>5, <1>6, <2>1
    <3> QED
      BY <1>2, <1>7, <1>9, <2>1, <3>1 DEF Images
  <2>2. CASE p # init
    <3>1. proc[p] = Unused
      BY <1>5, <2>2
    <3>2. \A e \in Own(p) : image[e] = {}
      <4>1. \A e \in Own(p) : e \in Image /\ e[1] = p
        BY NewImage
      <4>2. d[1] = init
        BY DEF d
      <4> QED
        BY <1>6, <2>2, <4>1, <4>2
    <3> QED
      BY <3>1, <3>2, UnusedType DEF Images
  <2> QED
    BY <2>1, <2>2
<1>12. Running /\ TableInv
  BY <1>8 DEF Running, TableInv, OnTable
<1>13. Cardinality(P) = 3
  <2>1. IsFiniteSet({-3, -1}) /\ Cardinality({-3, -1}) = 2 /\ 0 \notin {-3, -1}
    <3>1. -3 # -1 /\ 0 \notin {-3, -1}
      OBVIOUS
    <3>2. \A x, y : x # y => IsFiniteSet({x, y}) /\ Cardinality({x, y}) = 2
      BY Few
    <3> QED
      BY Zenon, <3>1, <3>2
  <2>2. Cardinality({-3, -1} \cup {0}) = Cardinality({-3, -1}) + 1
    BY <2>1, FS_AddElement
  <2> QED
    BY <1>4, <2>1, <2>2
<1>14. Cardinality(Mapped(image)) = 3
  <2>1. Mapped(none) = {}
    BY DEF Mapped
  <2>2. none[d] = {}
    BY <1>3
  <2>3. Cardinality({}) = 0
    BY FS_EmptySet
  <2> HIDE DEF none
  <2>4. Cardinality(Mapped(image)) = Cardinality(Mapped(none)) - Cardinality(none[d]) + Cardinality(P)
    BY Zenon, <1>3, <1>4, <1>6, MappedUpdate
  <2> QED
    BY <1>13, <2>1, <2>2, <2>3, <2>4
<1>15. Cardinality(Live(proc)) = 1
  <2>1. Live(proc) = {init}
    BY <1>1, <1>5, <1>7, UnusedType DEF Live
  <2> QED
    BY Zenon, <2>1, Few
<1>16. PagesConserved
  <2>1. Len(pages) = 0 /\ Cardinality(zero) = 0
    BY <1>8, FS_EmptySet
  <2>2. NPages = freelist + lost + Cardinality(zero) + Len(pages) + Cardinality(Live(proc)) + Cardinality(Mapped(image))
    BY <1>1, <1>8, <1>14, <1>15, <2>1
  <2> QED
    BY <2>2 DEF PagesConserved, Live, Mapped
<1> QED
  BY <1>10, <1>11, <1>12, <1>16 DEF MemInv

\* The page tables, CPUs and sums of pages that every reachable state has.
THEOREM PagesInvariance == Spec => [](ArenaInv /\ MemInv /\ PagesConserved)
<1>1. Init => ArenaInv
  BY Zenon, EmptyArena DEF Init, ArenaInit, Cleared
<1>2. ArenaInv /\ MemInv /\ PagesConserved /\ [Next]_vars => (ArenaInv /\ MemInv /\ PagesConserved)'
  BY ArenaInductive, PagesInductive DEF Kept
<1> QED
  BY <1>1, <1>2, PagesInit, PTL DEF Spec

\* No page is freed twice, and none is lost but where the code forgets it: the
\* pages of the free list, of images, stacks, the arena and page 0, and the lost
\* ones, are all the pages, whatever number of processes shares them and wherever
\* an allocation fails, that of a table included.
THEOREM NoPageTwice == Spec => []PagesConserved
<1> QED
  BY PagesInvariance, PTL

\* A process in user code runs on its own directory, and that is not freed.
THEOREM OwnTable == Spec => []RunsOnOwnTable
<1>1. MemInv => RunsOnOwnTable
  <2> SUFFICES ASSUME MemInv, NEW c \in Cpu, At(c, "user"), current[c] \notin failed
               PROVE  ttbr0[c] = Me(c).pgdir /\ DIR \in image[Me(c).pgdir]
    BY Zenon DEF RunsOnOwnTable
  <2>1. current[c] # None /\ Me(c).pc = "user"
    BY DEF At, Me
  <2> QED
    BY Zenon, <2>1, Here DEF Images, OnTable
<1> QED
  BY <1>1, PagesInvariance, PTL
=============================================================================
