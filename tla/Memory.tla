------------------------------- MODULE Memory --------------------------------
(***************************************************************************)
(* The pages of processes: page tables (src/core/virtual_memory.c), execve *)
(* (src/core/exec.c), fork, exit, wait and growproc (src/core/proc.c),     *)
(* beside an arena on the same free list.                                  *)
(*                                                                         *)
(* An image is a page table and what it maps: its directory, one level of  *)
(* tables (three in the code), the pages of a low region and of the stack. *)
(* Sizes are in pages.  A step goes to where the process may sleep, or     *)
(* another CPU may take the pages it needs.                                *)
(*                                                                         *)
(* Without a page for a table, pgdir_walk goes on in physical page 0 as if *)
(* that were the table; its valid entries are part of the state.           *)
(***************************************************************************)
EXTENDS Arena

CONSTANTS
    Proc, Cpu, None,
    init,    \* the process of spawn_init_process
    NPages,  \* pages of memory
    Low,     \* bound: pages of the low region
    Base,    \* the page programs are linked at
    Entries  \* entries of a table

ASSUME MemoryAssumption ==
    /\ IsFiniteSet(Proc) /\ init \in Proc /\ None \notin Proc
    /\ NPages \in Nat /\ Low \in Nat \ {0} /\ Base \in 0 .. Low /\ Entries \in Nat \ {0}

STACK == Low
Image == Proc \X {0, 1}
DIR == -1
table_of(v) == IF v = STACK THEN -2 ELSE -3 - (v \div Entries)
Parts == -3 - Low .. Low

VARIABLES
    proc,     \* struct proc, with the local variables of execve and uvm_alloc
    image,    \* the parts of an image that have a page
    current,  \* the process of a CPU
    ttbr0,    \* the image whose directory a CPU uses, None before its first process
    zero,     \* the entries of physical page 0 that hold a page
    lost,     \* history: number of pages nothing refers to any more
    failed    \* history: processes whose execve failed after it set p->pgdir, until the next switch

memvars == <<proc, image, current, ttbr0, zero, lost, failed>>
vars == <<arenavars, memvars>>

Unused == [state |-> "UNUSED", parent |-> None, pgdir |-> None, sz |-> 0,
           pc |-> "user", old |-> None, a |-> 0, newsz |-> 0]

\* The other image a process can have, which execve makes.
new(d) == <<d[1], 1 - d[2]>>

Init ==
    /\ ArenaInit
    /\ freelist = NPages - 4
    /\ proc = [p \in Proc |-> IF p # init THEN Unused
                              ELSE [Unused EXCEPT !.state = "RUNNABLE", !.pgdir = <<p, 0>>, !.sz = 1]]
    /\ image = [d \in Image |-> IF d = <<init, 0>> THEN {DIR, table_of(0), 0} ELSE {}]
    /\ current = [c \in Cpu |-> None] /\ ttbr0 = [c \in Cpu |-> None]
    /\ zero = {} /\ lost = 0 /\ failed = {}
-----------------------------------------------------------------------------
At(c, l) == current[c] # None /\ proc[current[c]].pc = l
Me(c) == proc[current[c]]

\* The fields of this process become those of r.
set(c, r) == proc' = [proc EXCEPT ![current[c]] = r]

keep_arena == UNCHANGED <<pages, used, count, panicked>>

\* Programs make the system calls below; the code of the first image, which has no
\* stack, calls execve (and then spins, if that fails; here it may try again).
Program(c) == At(c, "user") /\ STACK \in image[Me(c).pgdir]

\* PANIC, by itself or of trap_error_handler after a fault in the kernel.
panic == panicked' = TRUE /\ UNCHANGED <<freelist, pages, used, count, memvars>>

\* The scheduler's choice: uvm_switch(p->pgdir).
switch(c, p) ==
    /\ current[c] = None /\ proc[p].state = "RUNNABLE"
    /\ current' = [current EXCEPT ![c] = p]
    /\ ttbr0' = [ttbr0 EXCEPT ![c] = proc[p].pgdir]
    /\ proc' = [proc EXCEPT ![p].state = "RUNNING"]
    /\ failed' = IF proc[p].pc = "user" THEN failed \ {p} ELSE failed
    /\ UNCHANGED <<freelist, image, zero, lost>> /\ keep_arena

\* sched: the CPU keeps the directory in ttbr0.
leave(c, s) ==
    /\ current' = [current EXCEPT ![c] = None]
    /\ set(c, [Me(c) EXCEPT !.state = s])
    /\ UNCHANGED <<freelist, image, ttbr0, zero, lost, failed>> /\ keep_arena

\* The timer interrupts user code; execve sleeps for the disk.
yield(c) == (\E l \in {"user", "namei", "load", "put"} : At(c, l)) /\ leave(c, "RUNNABLE")

exit(c) == Program(c) /\ leave(c, "ZOMBIE")
-----------------------------------------------------------------------------
\* fork: alloc_proc takes a directory, which is forgotten, and the stack, or
\* panics; uvm_copy takes a page for each part of the image, or stores through
\* NULL, where a program has nothing mapped (not even the directory failing gets
\* back to fork, whose return of -1 is not reached).
fork(c, q) ==
    LET need == Cardinality(image[Me(c).pgdir])
    IN  /\ Program(c) /\ proc[q].state = "UNUSED"
        /\ \/ freelist < 2 + need /\ panic
           \/ /\ freelist >= 2 + need
              /\ freelist' = freelist - 2 - need /\ lost' = lost + 1
              /\ image' = [image EXCEPT ![<<q, 0>>] = image[Me(c).pgdir]]
              /\ proc' = [proc EXCEPT ![q] = [Unused EXCEPT !.state = "RUNNABLE", !.parent = current[c],
                                                            !.pgdir = <<q, 0>>, !.sz = Me(c).sz]]
              /\ UNCHANGED <<current, ttbr0, zero, failed>> /\ keep_arena

\* Mutant: the tables are not freed.
recur_vm_free_Leaves(parts) == parts \ {table_of(v) : v \in 0 .. Low}

\* What recur_vm_free gives to kfree.
recur_vm_free(parts) == parts

vm_free(d) ==
    /\ freelist' = freelist + Cardinality(recur_vm_free(image[d]))
    /\ image' = [image EXCEPT ![d] = {}]

\* wait frees a zombie's image and stack; without a zombie it sleeps or fails.
wait(c, q) ==
    LET parts == recur_vm_free(image[proc[q].pgdir])
    IN  /\ Program(c)
        /\ proc[q].state = "ZOMBIE" /\ proc[q].parent = current[c]
        /\ freelist' = freelist + Cardinality(parts) + 1
        /\ image' = [image EXCEPT ![proc[q].pgdir] = {}]
        /\ proc' = [proc EXCEPT ![q] = Unused]
        /\ UNCHANGED <<current, ttbr0, zero, lost, failed>> /\ keep_arena
-----------------------------------------------------------------------------
\* A turn of uvm_alloc at v: a page is taken, pgdir_walk takes a table if
\* there is none, and uvm_map replaces what is mapped.
Needs(d, v) == {v, table_of(v)} \ (image[d] \ {v})

alloc_page(d, v) ==
    /\ freelist >= Cardinality(Needs(d, v))
    /\ freelist' = freelist - Cardinality(Needs(d, v))
    /\ image' = [image EXCEPT ![d] = @ \cup Needs(d, v)]
    /\ lost' = IF v \in image[d] THEN lost + 1 ELSE lost
    /\ UNCHANGED zero

\* There is a page, but none for the table: the page goes to an entry of page 0.
entry(v) == v % Entries

alloc_stray(d, v) ==
    /\ freelist = 1 /\ table_of(v) \notin image[d]
    /\ freelist' = 0
    /\ zero' = zero \cup {entry(v)}
    /\ lost' = IF entry(v) \in zero THEN lost + 1 ELSE lost
    /\ UNCHANGED image

execve(c) ==
    /\ At(c, "user") /\ freelist > 0  \* otherwise it returns -1
    /\ freelist' = freelist - 1
    /\ image' = [image EXCEPT ![new(Me(c).pgdir)] = {DIR}]
    /\ set(c, [Me(c) EXCEPT !.pc = "namei", !.old = Me(c).pgdir, !.a = Base])
    /\ UNCHANGED <<current, ttbr0, zero, lost, failed>> /\ keep_arena

\* There is no such file, or it is no program, or a header makes no sense.
exec_bad(c) ==
    /\ At(c, "namei") \/ At(c, "load")
    /\ set(c, [Me(c) EXCEPT !.pc = "bad"])
    /\ UNCHANGED <<freelist, image, current, ttbr0, zero, lost, failed>> /\ keep_arena

exec_elf(c) ==
    /\ At(c, "namei")
    /\ set(c, [Me(c) EXCEPT !.pc = "load", !.pgdir = new(Me(c).old)])
    /\ UNCHANGED <<freelist, image, current, ttbr0, zero, lost, failed>> /\ keep_arena

\* A segment of one page is allocated, then read through the new directory,
\* which faults if the page is not mapped there.
exec_load(c) ==
    LET d == new(Me(c).old)
    IN  /\ At(c, "load") /\ Me(c).a < Low
        /\ \/ /\ alloc_stray(d, Me(c).a)
              /\ ttbr0' = [ttbr0 EXCEPT ![c] = d]
              /\ panicked' = TRUE
              /\ UNCHANGED <<proc, current, failed, pages, used, count>>
           \/ /\ alloc_page(d, Me(c).a)
              /\ set(c, [Me(c) EXCEPT !.a = Me(c).a + 1])
              /\ ttbr0' = [ttbr0 EXCEPT ![c] = d]
              /\ UNCHANGED <<current, failed>> /\ keep_arena
           \/ /\ freelist = 0
              /\ set(c, [Me(c) EXCEPT !.pc = "bad"])
              /\ UNCHANGED <<freelist, image, current, ttbr0, zero, lost, failed>> /\ keep_arena

\* After the segments the arguments are read from the old image and copyout
\* makes the stack, its table first.  It may stop on the way: one is not a
\* string, or there is no page.  Without a page for the table it may find one
\* in page 0, at the last entry; the next store to the stack faults.  Else the
\* new image replaces the old one, which is not freed.
exec_args(c) ==
    LET d == new(Me(c).old)
    IN  /\ At(c, "load") /\ Me(c).a > Base
        /\ \/ \E made \in {{}, {table_of(STACK)}, {table_of(STACK), STACK}} :
                /\ Cardinality(made) <= freelist
                /\ freelist' = freelist - Cardinality(made)
                /\ image' = [image EXCEPT ![d] = @ \cup made]
                /\ ttbr0' = [ttbr0 EXCEPT ![c] = Me(c).old]
                /\ set(c, [Me(c) EXCEPT !.pc = "bad"])
                /\ UNCHANGED <<current, zero, lost, failed>> /\ keep_arena
           \/ freelist = 0 /\ Entries - 1 \in zero /\ panic
           \/ /\ freelist >= 2
              /\ freelist' = freelist - 2
              /\ image' = [image EXCEPT ![d] = @ \cup {table_of(STACK), STACK}, ![Me(c).old] = {}]
              /\ lost' = lost + Cardinality(image[Me(c).old])
              /\ ttbr0' = [ttbr0 EXCEPT ![c] = d]
              /\ set(c, [Me(c) EXCEPT !.pc = "user", !.sz = Me(c).a, !.a = 0, !.old = None])
              /\ UNCHANGED <<current, zero, failed>> /\ keep_arena

\* bad: the new image is freed while it is still p->pgdir, then the inode is
\* put and the operation ended, where the process may sleep.
exec_free(c) ==
    /\ At(c, "bad")
    /\ vm_free(new(Me(c).old))
    /\ set(c, [Me(c) EXCEPT !.pc = "put"])
    /\ UNCHANGED <<current, ttbr0, zero, lost, failed>> /\ keep_arena

\* Mutant: p->pgdir stays the freed directory.
restored_Not(r) == r.pgdir

restored(r) == r.old

\* p->pgdir is the old one again; nothing switches ttbr0.
exec_fails(c) ==
    /\ At(c, "put")
    /\ set(c, [Me(c) EXCEPT !.pc = "user", !.pgdir = restored(Me(c)), !.a = 0, !.old = None])
    /\ failed' = IF Me(c).pgdir = Me(c).old THEN failed ELSE failed \cup {current[c]}
    /\ UNCHANGED <<freelist, image, current, ttbr0, zero, lost>> /\ keep_arena
-----------------------------------------------------------------------------
\* growproc by n pages: uvm_alloc.
growproc(c, n) ==
    /\ Program(c) /\ Me(c).sz + n <= Low
    /\ set(c, [Me(c) EXCEPT !.pc = "grow", !.a = Me(c).sz, !.newsz = Me(c).sz + n])
    /\ UNCHANGED <<freelist, image, current, ttbr0, zero, lost, failed>> /\ keep_arena

\* The pages from newsz up to oldsz are unmapped and freed; where the image has
\* no table, those of page 0.
uvm_dealloc(d, oldsz, newsz) ==
    LET range == newsz .. oldsz - 1
        stray == zero \cap {entry(v) : v \in {u \in range : table_of(u) \notin image[d]}}
    IN  /\ freelist' = freelist + Cardinality(image[d] \cap range) + Cardinality(stray)
        /\ image' = [image EXCEPT ![d] = @ \ range]
        /\ zero' = zero \ stray

\* Without a page, uvm_alloc gives back all pages it took but the last.
grow_step(c) ==
    /\ At(c, "grow") /\ Me(c).a < Me(c).newsz
    /\ \/ /\ \/ alloc_page(Me(c).pgdir, Me(c).a)
             \/ alloc_stray(Me(c).pgdir, Me(c).a)
          /\ set(c, [Me(c) EXCEPT !.a = Me(c).a + 1])
          /\ UNCHANGED <<current, ttbr0, failed>> /\ keep_arena
       \/ /\ freelist = 0
          /\ uvm_dealloc(Me(c).pgdir, Me(c).a - 1, Me(c).sz)
          /\ set(c, [Me(c) EXCEPT !.pc = "user", !.a = 0, !.newsz = 0])
          /\ UNCHANGED <<current, ttbr0, lost, failed>> /\ keep_arena

grow_end(c) ==
    /\ At(c, "grow") /\ Me(c).a = Me(c).newsz
    /\ set(c, [Me(c) EXCEPT !.pc = "user", !.sz = Me(c).newsz, !.a = 0, !.newsz = 0])
    /\ ttbr0' = [ttbr0 EXCEPT ![c] = Me(c).pgdir]
    /\ UNCHANGED <<freelist, image, current, zero, lost, failed>> /\ keep_arena

\* growproc by less than zero; a new size of zero is taken for an error.
shrink(c, newsz) ==
    /\ Program(c) /\ newsz < Me(c).sz
    /\ uvm_dealloc(Me(c).pgdir, Me(c).sz, newsz)
    /\ set(c, [Me(c) EXCEPT !.sz = IF newsz = 0 THEN Me(c).sz ELSE newsz])
    /\ ttbr0' = IF newsz = 0 THEN ttbr0 ELSE [ttbr0 EXCEPT ![c] = Me(c).pgdir]
    /\ UNCHANGED <<current, lost, failed>> /\ keep_arena

Next ==
    /\ ~panicked
    /\ \/ \E c \in Cpu, p \in Proc : switch(c, p) \/ fork(c, p) \/ wait(c, p)
       \/ \E c \in Cpu : yield(c) \/ exit(c) \/ grow_step(c) \/ grow_end(c)
       \/ \E c \in Cpu, n \in 0 .. Low : (n > 0 /\ growproc(c, n)) \/ shrink(c, n)
       \/ \E c \in Cpu : \/ execve(c) \/ exec_bad(c) \/ exec_elf(c) \/ exec_load(c)
                         \/ exec_args(c) \/ exec_free(c) \/ exec_fails(c)
       \/ ArenaNext /\ UNCHANGED memvars

Spec == Init /\ [][Next]_vars
-----------------------------------------------------------------------------
\* Every page is free, a part of an image, a kernel stack, in the arena or in
\* an entry of page 0, and counted once: nothing is freed twice, also when there
\* is no page for a table, and pages get lost only where the code forgets them
\* (the directory alloc_proc makes for fork, the old image of execve, a page
\* uvm_map maps over).
PagesConserved ==
    NPages = freelist + lost + Cardinality(zero) + Len(pages)
             + Cardinality({p \in Proc : proc[p].state # "UNUSED"})
             + Cardinality({x \in Image \X Parts : x[2] \in image[x[1]]})

\* A process runs user code on its own directory, which is not freed; except,
\* until the next switch, after an execve that failed when it had set p->pgdir.
RunsOnOwnTable ==
    \A c \in Cpu : At(c, "user") /\ current[c] \notin failed
        => ttbr0[c] = Me(c).pgdir /\ DIR \in image[Me(c).pgdir]
=============================================================================
