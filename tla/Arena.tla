-------------------------------- MODULE Arena --------------------------------
(***************************************************************************)
(* An arena (src/core/arena.c) cuts pages into objects of one size, such   *)
(* as the structs of inodes, with pages from the free list of              *)
(* src/core/physical_memory.c.  kalloc, kfree and the operations of an     *)
(* arena are atomic, as each holds its spinlock.  Pages are alike, so that *)
(* the free list is its length.                                            *)
(***************************************************************************)
EXTENDS Integers, Sequences, FiniteSets

CONSTANTS
    Page,      \* names for the pages of the arena
    max_count  \* objects of a page

ASSUME MaxCountAssumption == max_count \in Nat \ {0}

VARIABLES
    freelist,  \* the number of pages kalloc can give
    pages,     \* the pages of the arena, a ring: from arena->pages on
    used,      \* page->used: the indices in use
    count,     \* page->count
    panicked   \* an assertion or PANIC stopped the CPU

arenavars == <<freelist, pages, used, count, panicked>>

ArenaPages == {pages[i] : i \in 1 .. Len(pages)}

ArenaInit ==
    /\ pages = <<>>
    /\ used = [p \in Page |-> {}]
    /\ count = [p \in Page |-> 0]
    /\ panicked = FALSE
-----------------------------------------------------------------------------
\* insert_page of a page that is in no list: before the head, which it becomes.
insert_page(s, p) == [j \in 1 .. Len(s) + 1 |-> IF j = 1 THEN p ELSE s[j - 1]]

\* The head moves to the next page of the ring.
next_page(s) == [j \in 1 .. Len(s) |-> IF j = Len(s) THEN s[1] ELSE s[j + 1]]

\* Mutant: the page keeps its place.
move_page_to_head_Not(s, i) == s

\* move_page_to_head of the i-th page.
move_page_to_head(s, i) ==
    [j \in 1 .. Len(s) |-> IF j = 1 THEN s[i] ELSE IF j <= i THEN s[j - 1] ELSE s[j]]

Full(p) == count[p] >= max_count

\* The rest of alloc_object, on the ring s whose head has an empty slot.
take_slot(s) ==
    LET p == s[1]
        clear == (0 .. max_count - 1) \ used[p]
    IN  /\ \E index \in clear :
             /\ \A x \in clear : index <= x
             /\ used' = [used EXCEPT ![p] = @ \cup {index}]
        /\ count' = [count EXCEPT ![p] = @ + 1]
        /\ pages' = IF count[p] + 1 >= max_count THEN next_page(s) ELSE s

alloc_object ==
    /\ Len(pages) > 0 /\ ~Full(pages[1])
    /\ take_slot(pages)
    /\ UNCHANGED <<freelist, panicked>>

\* add_page, when the head is full.
NeedsPage == Len(pages) > 0 => Full(pages[1])

alloc_object_new_page ==
    /\ NeedsPage /\ freelist > 0
    /\ freelist' = freelist - 1
    /\ \E p \in Page \ ArenaPages : take_slot(insert_page(pages, p))
    /\ UNCHANGED panicked

\* No page: the assertion that an object was found fails.
alloc_object_fails ==
    /\ NeedsPage /\ freelist = 0
    /\ panicked' = TRUE
    /\ UNCHANGED <<freelist, pages, used, count>>

free_object(i, index) ==
    LET p == pages[i]
    IN  /\ index \in used[p]
        /\ used' = [used EXCEPT ![p] = @ \ {index}]
        /\ count' = [count EXCEPT ![p] = @ - 1]
        /\ pages' = move_page_to_head(pages, i)
        /\ UNCHANGED <<freelist, panicked>>

\* clear_arena: every page goes back, to be cleared by init_arena_page before it is used.
clear_arena ==
    /\ freelist' = freelist + Len(pages)
    /\ used' = [p \in Page |-> {}]
    /\ count' = [p \in Page |-> 0]
    /\ pages' = <<>>
    /\ UNCHANGED panicked

ArenaNext ==
    \/ alloc_object \/ alloc_object_new_page \/ alloc_object_fails
    \/ \E i \in 1 .. Len(pages), index \in 0 .. max_count - 1 : free_object(i, index)
    \/ clear_arena
-----------------------------------------------------------------------------
\* The count of a page is the number of its bits set, and as long as a page of
\* the arena has an empty slot the head of the ring has one: alloc_object, which
\* looks at the head only, neither takes a page too many nor fails its assertion.
RoomAtHead ==
    /\ \A i \in 1 .. Len(pages) : count[pages[i]] = Cardinality(used[pages[i]])
    /\ (\E i \in 1 .. Len(pages) : ~Full(pages[i])) => ~Full(pages[1])
=============================================================================
