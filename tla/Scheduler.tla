------------------------------ MODULE Scheduler ------------------------------
(***************************************************************************)
(* The process table of one container, the scheduler loop each CPU runs    *)
(* (src/core/sched.c) and the switches between it and kernel threads       *)
(* (src/core/proc.c).                                                      *)
(*                                                                         *)
(* The table's lock is held across a switch: a thread that gives up its    *)
(* CPU takes it and the scheduler inherits it, and the other way round.    *)
(* Kernel code runs with interrupts off, so a thread leaves its CPU only   *)
(* where the code calls sched.  A section under the lock is one step, but  *)
(* the switch itself is a step of its own.                                 *)
(***************************************************************************)
EXTENDS Integers, FiniteSets

CONSTANTS
    Cpu,
    NPROC,  \* number of process table entries
    None    \* no CPU, no process, no channel

Proc == 1 .. NPROC

ASSUME SchedulerAssumption ==
    /\ NPROC \in Nat \ {0}
    /\ None \notin Proc \cup Cpu

VARIABLES
    sched_lock,  \* the CPU that holds ptable.lock
    current,     \* the process on whose kernel stack a CPU runs; None: scheduler
    scan,        \* the scheduler's position in the table, 0 outside its loop
    state, chan, \* members of struct proc
    pc           \* where each process is, or resumes, in the kernel

schedvars == <<sched_lock, current, scan, state, chan, pc>>

\* The process on CPU c is at label l; state RUNNING tells a process that was
\* resumed from one that is about to switch away.
At(c, l) ==
    /\ current[c] # None
    /\ state[current[c]] = "RUNNING"
    /\ pc[current[c]] = l

\* The entries that the rest of the scan would run, and the first of them.
RunnableFrom(n) == {p \in Proc : p >= n /\ state[p] = "RUNNABLE"}
First(S) == {p \in S : \A q \in S : p <= q}

-----------------------------------------------------------------------------
\* scheduler_simple: take the lock, run every runnable process of the table
\* in turn, release the lock at the end of the table.
scheduler_lock(c) ==
    /\ current[c] = None /\ scan[c] = 0
    /\ sched_lock = None
    /\ sched_lock' = c
    /\ scan' = [scan EXCEPT ![c] = 1]
    /\ UNCHANGED <<current, state, chan, pc>>

\* Mutant: the scan starts again at the first entry.
scan_after_First(p) == 1

scan_after(p) == p + 1

scheduler_run(c) ==
    /\ current[c] = None /\ scan[c] # 0
    /\ \E p \in First(RunnableFrom(scan[c])) :
          /\ current' = [current EXCEPT ![c] = p]
          /\ state' = [state EXCEPT ![p] = "RUNNING"]
          /\ scan' = [scan EXCEPT ![c] = scan_after(p)]
    /\ UNCHANGED <<sched_lock, chan, pc>>

scheduler_unlock(c) ==
    /\ current[c] = None /\ scan[c] # 0
    /\ RunnableFrom(scan[c]) = {}
    /\ sched_lock' = None
    /\ scan' = [scan EXCEPT ![c] = 0]
    /\ UNCHANGED <<current, state, chan, pc>>

\* sched: back to the scheduler, which finds the lock held by its CPU.
sched(c) ==
    /\ current[c] # None
    /\ state[current[c]] # "RUNNING"
    /\ current' = [current EXCEPT ![c] = None]
    /\ UNCHANGED <<sched_lock, scan, state, chan, pc>>

\* Process current[c] leaves label `from`, takes the lock, gets state s and
\* channel ch, and is about to switch away; it will resume at label `to`.
block(c, from, to, s, ch) ==
    /\ At(c, from)
    /\ sched_lock = None
    /\ sched_lock' = c
    /\ state' = [state EXCEPT ![current[c]] = s]
    /\ chan' = [chan EXCEPT ![current[c]] = ch]
    /\ pc' = [pc EXCEPT ![current[c]] = to]
    /\ UNCHANGED <<current, scan>>

\* Mutant: the state changes although another CPU holds the lock.
yield_Unlocked(c) ==
    /\ At(c, "user")
    /\ state' = [state EXCEPT ![current[c]] = "RUNNABLE"]
    /\ pc' = [pc EXCEPT ![current[c]] = "yield"]
    /\ UNCHANGED <<sched_lock, current, scan, chan>>

\* yield, called by the timer interrupt of user code.
yield(c) == block(c, "user", "yield", "RUNNABLE", None)

\* A resumed process continues at label l without the lock.
resume(c, from, l) ==
    /\ At(c, from)
    /\ sched_lock' = None
    /\ chan' = [chan EXCEPT ![current[c]] = None]
    /\ pc' = [pc EXCEPT ![current[c]] = l]
    /\ UNCHANGED <<current, scan, state>>

yield_return(c) == resume(c, "yield", "user")

\* state after the processes that sleep on channel ch are made runnable.
woken(ch) ==
    [p \in Proc |-> IF state[p] = "SLEEPING" /\ chan[p] = ch
                    THEN "RUNNABLE" ELSE state[p]]

\* The steps of a CPU that do not depend on what its process is doing.
Switch(c) ==
    \/ scheduler_lock(c) \/ scheduler_run(c) \/ scheduler_unlock(c)
    \/ sched(c) \/ yield_return(c)
-----------------------------------------------------------------------------
\* No process runs on two CPUs: the state of a process that leaves its CPU
\* changes before its stack is free, and only the lock keeps the others out.
OneCpu ==
    \A c, d \in Cpu : current[c] # None /\ current[c] = current[d] => c = d

\* Whoever switches holds the lock: the thread in sched ("sched: not holding
\* ptable lock" is never reached), and the scheduler inside its loop.
LockAcrossSwitch ==
    \A c \in Cpu :
        \/ current[c] # None /\ state[current[c]] # "RUNNING"
        \/ current[c] = None /\ scan[c] # 0
        => sched_lock = c
=============================================================================
