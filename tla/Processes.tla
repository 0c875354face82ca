------------------------------ MODULE Processes ------------------------------
(***************************************************************************)
(* fork, exit and wait (src/core/proc.c) and the allocation of process     *)
(* table entries and pids (alloc_pcb of src/core/sched.c, alloc_resource   *)
(* of src/core/container.c) in the root container, on the CPUs of          *)
(* Scheduler.                                                              *)
(*                                                                         *)
(* Of memory there is only that fork's copy may fail for lack of it.  The  *)
(* open files that exit closes first, and killed, which nothing ever sets, *)
(* are left out.                                                           *)
(***************************************************************************)
EXTENDS Scheduler

CONSTANT NPID  \* pids a container can give out

ASSUME PidAssumption == NPID \in Nat \ {0}

VARIABLES
    parent, pid,  \* members of struct proc
    last_pid,     \* scheduler.pid: the latest pid given out
    cont_lock,    \* the CPU that holds the container's lock
    child,        \* the entry a process in fork has allocated
    forker,       \* history: the pid of the process that forked each process
    orphaned,     \* history: a process exited before a child of its was reaped
    panic         \* the message of PANIC, which stops the kernel

treevars == <<parent, pid, last_pid, cont_lock, child, forker, orphaned, panic>>
vars == <<schedvars, treevars>>

\* The first process is ready to run.
Init ==
    /\ sched_lock = None
    /\ current = [c \in Cpu |-> None]
    /\ scan = [c \in Cpu |-> 0]
    /\ state = [p \in Proc |-> IF p = 1 THEN "RUNNABLE" ELSE "UNUSED"]
    /\ chan = [p \in Proc |-> None]
    /\ pc = [p \in Proc |-> "forkret"]
    /\ parent = [p \in Proc |-> None]
    /\ pid = [p \in Proc |-> IF p = 1 THEN 1 ELSE 0]
    /\ last_pid = 1
    /\ cont_lock = None
    /\ child = [p \in Proc |-> None]
    /\ forker = [p \in Proc |-> 0]
    /\ orphaned = FALSE
    /\ panic = "none"

goto(c, l) == pc' = [pc EXCEPT ![current[c]] = l]

Unused == {p \in Proc : state[p] = "UNUSED"}

\* Mutant: the parent is not compared.
Children_All(p) == {q \in Proc : state[q] # "UNUSED"} \ {p}

Children(p) == {q \in Proc : parent[q] = p}

\* Mutant: wait reaps a child in whatever state.
Zombies_Any(p) == Children(p)

Zombies(p) == {q \in Children(p) : state[q] = "ZOMBIE"}
-----------------------------------------------------------------------------
\* A new process starts in forkret, which releases the lock it inherits.
forkret(c) == resume(c, "forkret", "user") /\ UNCHANGED treevars

\* alloc_proc panics when the table is full.
alloc_proc_full(c) ==
    /\ At(c, "user")
    /\ sched_lock = None
    /\ Unused = {}
    /\ panic' = "no free pcbs"
    /\ UNCHANGED <<schedvars, parent, pid, last_pid, cont_lock, child, forker, orphaned>>

\* alloc_pcb has found an entry and calls alloc_resource for a pid.
alloc_pcb(c) ==
    /\ At(c, "user")
    /\ sched_lock = None
    /\ sched_lock' = c
    /\ \E q \in First(Unused) : child' = [child EXCEPT ![current[c]] = q]
    /\ goto(c, "alloc")
    /\ UNCHANGED <<current, scan, state, chan, parent, pid, last_pid, cont_lock,
                   forker, orphaned, panic>>

pids_used_up == last_pid = NPID

\* alloc_resource: the container's lock is taken, and kept when the pids are
\* used up; alloc_pcb does not look at the result.
alloc_resource(c) ==
    /\ At(c, "alloc")
    /\ cont_lock = None
    /\ IF pids_used_up
       THEN cont_lock' = c /\ UNCHANGED last_pid
       ELSE last_pid' = last_pid + 1 /\ UNCHANGED cont_lock
    /\ state' = [state EXCEPT ![child[current[c]]] = "EMBRYO"]
    /\ pid' = [pid EXCEPT ![child[current[c]]] = last_pid']
    /\ sched_lock' = None
    /\ goto(c, "fork")
    /\ UNCHANGED <<current, scan, chan, parent, child, forker, orphaned, panic>>

\* The container's lock is taken again by the CPU that kept it.  (Another
\* CPU waits for it for ever, holding the lock of the process table.)
alloc_resource_held(c) ==
    /\ At(c, "alloc")
    /\ cont_lock = c
    /\ panic' = "acquire: lock already held"
    /\ UNCHANGED <<schedvars, parent, pid, last_pid, cont_lock, child, forker, orphaned>>

\* The rest of fork; the new process becomes visible without the lock.
fork(c) ==
    /\ At(c, "fork")
    /\ LET p == current[c] q == child[p]
       IN  /\ parent' = [parent EXCEPT ![q] = p]
           /\ forker' = [forker EXCEPT ![q] = pid[p]]
           /\ state' = [state EXCEPT ![q] = "RUNNABLE"]
           /\ pc' = [pc EXCEPT ![p] = "user", ![q] = "forkret"]
           /\ child' = [child EXCEPT ![p] = None]
    /\ UNCHANGED <<sched_lock, current, scan, chan, pid, last_pid, cont_lock, orphaned, panic>>

\* uvm_copy finds no memory.
fork_fail(c) ==
    /\ At(c, "fork")
    /\ LET p == current[c]
       IN  /\ state' = [state EXCEPT ![child[p]] = "UNUSED"]
           /\ child' = [child EXCEPT ![p] = None]
           /\ goto(c, "user")
    /\ UNCHANGED <<sched_lock, current, scan, chan, parent, pid, last_pid,
                   cont_lock, forker, orphaned, panic>>

\* Mutant: the parent is not woken.
exit_wakeup_Not(p) == state

exit_wakeup(p) == woken(parent[p])

\* exit: wake the parent and become a zombie.  (A parent of None is the null
\* channel, on which nobody sleeps.  The wakeups on behalf of the zombies
\* among its own children are for the exiting process itself, which runs.)
exit(c) ==
    /\ At(c, "user")
    /\ sched_lock = None
    /\ sched_lock' = c
    /\ state' = [exit_wakeup(current[c]) EXCEPT ![current[c]] = "ZOMBIE"]
    /\ goto(c, "exit")
    /\ orphaned' = (orphaned \/ \E q \in Proc : parent[q] = current[c])
    /\ UNCHANGED <<current, scan, chan, parent, pid, last_pid, cont_lock, child, forker, panic>>

\* One pass of wait's loop, the lock being held: reap a zombie, find that
\* there is no child, or sleep on the process's own address.
wait_pass(c, p) ==
    \/ /\ \E q \in First(Zombies(p)) :
             /\ state' = [state EXCEPT ![q] = "UNUSED"]
             /\ pid' = [pid EXCEPT ![q] = 0]
             /\ parent' = [parent EXCEPT ![q] = None]
       /\ sched_lock' = None
       /\ goto(c, "user")
       /\ chan' = [chan EXCEPT ![p] = None]
    \/ /\ Children(p) = {}
       /\ sched_lock' = None
       /\ goto(c, "user")
       /\ chan' = [chan EXCEPT ![p] = None]
       /\ UNCHANGED <<state, pid, parent>>
    \/ /\ Children(p) # {} /\ Zombies(p) = {}
       /\ sched_lock' = c
       /\ state' = [state EXCEPT ![p] = "SLEEPING"]
       /\ chan' = [chan EXCEPT ![p] = p]
       /\ goto(c, "wait")
       /\ UNCHANGED <<pid, parent>>

wait(c) ==
    /\ (At(c, "user") /\ sched_lock = None) \/ At(c, "wait")
    /\ wait_pass(c, current[c])
    /\ UNCHANGED <<current, scan, last_pid, cont_lock, child, forker, orphaned, panic>>

Next ==
    /\ panic = "none"
    /\ \E c \in Cpu :
          \/ (Switch(c) \/ yield(c)) /\ UNCHANGED treevars
          \/ forkret(c) \/ alloc_proc_full(c) \/ alloc_pcb(c)
          \/ alloc_resource(c) \/ alloc_resource_held(c)
          \/ fork(c) \/ fork_fail(c) \/ exit(c) \/ wait(c)

Spec == Init /\ [][Next]_vars
-----------------------------------------------------------------------------
\* The kernel stack on which a CPU runs has not been freed: wait reaps a
\* process that exits only after its CPU has left its stack.
StackKept ==
    \A c \in Cpu : current[c] # None => state[current[c]] \notin {"UNUSED", "EMBRYO"}

\* Whenever the lock is free, a process that sleeps in wait has a child and
\* none of its children is a zombie: no exit is missed, whether it comes
\* before, while or after the parent looks.
NoMissedExit ==
    sched_lock = None =>
        \A p \in Proc : state[p] = "SLEEPING" /\ pc[p] = "wait"
            => Children(p) # {} /\ Zombies(p) = {}

\* wait reaps a child of the caller ("Wait for a child process to exit and
\* return its pid"): the process it removes was forked by the process that
\* waits; as long as every process waits for its children before it exits
\* (an orphan keeps the address of its parent, which may be used again).
ReapsOwnChild ==
    [][\A c \in Cpu, q \in Proc :
          wait(c) /\ state[q] = "ZOMBIE" /\ state'[q] = "UNUSED" /\ ~orphaned
          => forker[q] = pid[current[c]]]_vars
=============================================================================
