------------------------------ MODULE SleepLock ------------------------------
(***************************************************************************)
(* A sleeplock (src/core/sleeplock.c) on top of sleep and wakeup of        *)
(* src/core/proc.c, used by the processes of Scheduler.  Its spinlock and  *)
(* the process table's lock are taken in the order the code takes them.    *)
(* While a process holds the sleeplock it may sleep for the disk, whose    *)
(* interrupt goes to one CPU, and is taken there when it runs user code:   *)
(* the kernel never enables interrupts.                                    *)
(***************************************************************************)
EXTENDS Scheduler

CONSTANTS
    Core0,       \* the CPU that gets the interrupts of the disk
    Lock, Disk,  \* channels: the sleeplock, a disk request
    Idle         \* the processes idle_init makes: they loop in user code

ASSUME ChannelAssumption ==
    /\ Core0 \in Cpu
    /\ Lock # Disk /\ None \notin {Lock, Disk}
    /\ Idle \subseteq Proc

VARIABLES
    spin,   \* the CPU that holds lock->lock
    locked  \* lock->locked

vars == <<schedvars, spin, locked>>

Init ==
    /\ sched_lock = None
    /\ current = [c \in Cpu |-> None]
    /\ scan = [c \in Cpu |-> 0]
    /\ state = [p \in Proc |-> "RUNNABLE"]
    /\ chan = [p \in Proc |-> None]
    /\ pc = [p \in Proc |-> "yield"]
    /\ spin = None
    /\ locked = FALSE

goto(c, l) == pc' = [pc EXCEPT ![current[c]] = l]
-----------------------------------------------------------------------------
\* acquire_sleeplock, called ("user") or repeating its loop ("retry").
Acquiring(c) ==
    \/ At(c, "user") /\ current[c] \notin Idle
    \/ At(c, "retry")

\* Mutant: the sleeplock is taken without a look at it.
acquire_free_Blind(c) ==
    /\ Acquiring(c)
    /\ spin = None
    /\ locked' = TRUE
    /\ goto(c, "holding")
    /\ UNCHANGED <<sched_lock, current, scan, state, chan, spin>>

acquire_free(c) ==
    /\ Acquiring(c)
    /\ spin = None /\ ~locked
    /\ locked' = TRUE
    /\ goto(c, "holding")
    /\ UNCHANGED <<sched_lock, current, scan, state, chan, spin>>

\* Mutant: the spinlock is given up before sleep takes the table's lock.
acquire_busy_Unlocked(c) ==
    /\ Acquiring(c)
    /\ spin = None /\ locked
    /\ goto(c, "sleep")
    /\ UNCHANGED <<sched_lock, current, scan, state, chan, spin, locked>>

acquire_busy(c) ==
    /\ Acquiring(c)
    /\ spin = None /\ locked
    /\ spin' = c
    /\ goto(c, "sleep")
    /\ UNCHANGED <<sched_lock, current, scan, state, chan, locked>>

\* sleep: the spinlock is released once the table's lock is held.
sleep(c) ==
    /\ block(c, "sleep", "slept", "SLEEPING", Lock)
    /\ spin' = None
    /\ UNCHANGED locked

sleep_return(c) == resume(c, "slept", "retry") /\ UNCHANGED <<spin, locked>>

release_sleeplock(c) ==
    /\ At(c, "holding")
    /\ spin = None
    /\ locked' = FALSE
    /\ goto(c, "wakeup")
    /\ UNCHANGED <<sched_lock, current, scan, state, chan, spin>>

wakeup(c) ==
    /\ At(c, "wakeup")
    /\ sched_lock = None
    /\ state' = woken(Lock)
    /\ goto(c, "user")
    /\ UNCHANGED <<sched_lock, current, scan, chan, spin, locked>>

\* The holder waits for the disk; the interrupt of the disk wakes it.
disk_wait(c) ==
    /\ block(c, "holding", "disk", "SLEEPING", Disk)
    /\ UNCHANGED <<spin, locked>>

disk_return(c) == resume(c, "disk", "holding") /\ UNCHANGED <<spin, locked>>

sd_intr ==
    /\ At(Core0, "user")
    /\ sched_lock = None
    /\ \E p \in Proc : state[p] = "SLEEPING" /\ chan[p] = Disk
    /\ state' = woken(Disk)
    /\ UNCHANGED <<sched_lock, current, scan, chan, pc, spin, locked>>

\* What a CPU does by itself, apart from the choices of user code.
CpuStep(c) ==
    \/ Switch(c) /\ UNCHANGED <<spin, locked>>
    \/ At(c, "retry") /\ (acquire_free(c) \/ acquire_busy(c))
    \/ sleep(c) \/ sleep_return(c) \/ disk_return(c)
    \/ release_sleeplock(c) \/ wakeup(c)

Timer(c) == yield(c) /\ UNCHANGED <<spin, locked>>

Next ==
    \/ \E c \in Cpu : CpuStep(c) \/ Timer(c) \/ disk_wait(c)
    \/ sd_intr
    \/ \E c \in Cpu : At(c, "user") /\ (acquire_free(c) \/ acquire_busy(c))

Spec == Init /\ [][Next]_vars

\* Each CPU goes on, its timer interrupts user code again and again, the disk
\* interrupts that of Core0 once it has an answer, and a process does not go back to
\* the disk for ever.
FairSpec ==
    /\ Spec
    /\ \A c \in Cpu : WF_vars(CpuStep(c)) /\ SF_vars(Timer(c)) /\ SF_vars(release_sleeplock(c))
    /\ SF_vars(sd_intr)
-----------------------------------------------------------------------------
\* Types.
TypeOK ==
    /\ sched_lock \in Cpu \cup {None} /\ spin \in Cpu \cup {None}
    /\ current \in [Cpu -> Proc \cup {None}]
    /\ scan \in [Cpu -> 0 .. NPROC + 1]
    /\ state \in [Proc -> {"SLEEPING", "RUNNABLE", "RUNNING"}]
    /\ chan \in [Proc -> {None, Lock, Disk}]
    /\ pc \in [Proc -> {"yield", "user", "retry", "sleep", "slept", "holding",
                        "disk", "wakeup"}]
    /\ locked \in BOOLEAN

Holders == {p \in Proc : pc[p] \in {"holding", "disk"}}

\* One process at a time holds the sleeplock, across switches and CPUs, and
\* locked tells whether there is one.
OneHolder ==
    /\ \A p, q \in Holders : p = q
    /\ locked <=> Holders # {}

\* No wakeup is lost between the test of locked and the switch in sleep: when
\* a process sleeps on a free sleeplock, the releaser has not yet woken it.
NoLostWakeup ==
    \A p \in Proc : state[p] = "SLEEPING" /\ chan[p] = Lock /\ ~locked
        => \E q \in Proc : pc[q] = "wakeup"

\* Nothing makes the spinlocks fair, so that a CPU may wait for ever for the
\* table's lock.  What follows is said of the time after all CPUs but one have lost
\* the lock for good; until then they do what they like.
Alone(c) == \A d \in Cpu \ {c} : current[d] = None /\ scan[d] = 0

\* A process that sleeps for the sleeplock is woken, whatever the CPUs did to
\* each other before only Core0 was left: the holder gets its answer from the disk,
\* and no waiter is forgotten.  (It may find the lock taken again: sleeplocks are
\* not fair.)
SleeperWoken ==
    \A p \in Proc :
        <>[]Alone(Core0) => (state[p] = "SLEEPING" /\ chan[p] = Lock ~> state[p] # "SLEEPING")

\* The scan of the table starves nobody, on the CPU that is left.
RunnableRuns ==
    \A c \in Cpu, p \in Proc :
        <>[]Alone(c) => (state[p] = "RUNNABLE" ~> state[p] = "RUNNING")
=============================================================================
