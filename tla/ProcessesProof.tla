--------------------------- MODULE ProcessesProof ----------------------------
(***************************************************************************)
(* Proofs about Processes: for any number of CPUs, table entries and pids, *)
(* wait frees no kernel stack in use and misses no exit.                   *)
(***************************************************************************)
EXTENDS Processes, TLAPS

TypeOK ==
    /\ sched_lock \in Cpu \cup {None}
    /\ current \in [Cpu -> Proc \cup {None}]
    /\ state \in [Proc -> {"UNUSED", "EMBRYO", "RUNNABLE", "RUNNING", "SLEEPING", "ZOMBIE"}]
    /\ chan \in [Proc -> Proc \cup {None}]
    /\ pc \in [Proc -> {"forkret", "user", "alloc", "fork", "exit", "wait", "yield"}]
    /\ parent \in [Proc -> Proc \cup {None}]
    /\ child \in [Proc -> Proc \cup {None}]
    /\ scan \in [Cpu -> Nat]

\* Where a process resumes that was switched away.
ResumePC == {"forkret", "yield", "wait"}

\* CPU c holds the lock of the table: it is about to switch or has just
\* switched, or its process is in alloc_pcb.
Switching(c) ==
    IF current[c] = None
    THEN scan[c] # 0
    ELSE state[current[c]] # "RUNNING" \/ pc[current[c]] \in ResumePC \cup {"alloc"}

LockOwner == \A c \in Cpu : Switching(c) <=> sched_lock = c

\* A process was dispatched from inside the scheduler's loop.
InLoop == \A c \in Cpu : current[c] # None => scan[c] # 0

SwitchedAway == \A p \in Proc : state[p] \in {"RUNNABLE", "SLEEPING"} => pc[p] \in ResumePC

\* An entry that is free or being made is nobody's child.
NoParent == \A p \in Proc : state[p] \in {"UNUSED", "EMBRYO"} => parent[p] = None

\* A process in fork has an entry of its own.
OwnChild ==
    /\ \A c \in Cpu :
          /\ At(c, "alloc") => child[current[c]] \in Proc /\ state[child[current[c]]] = "UNUSED"
          /\ At(c, "fork") => child[current[c]] \in Proc /\ state[child[current[c]]] = "EMBRYO"
    /\ \A c, d \in Cpu : At(c, "fork") /\ At(d, "fork") /\ child[current[c]] = child[current[d]]
          => c = d

\* Only wait sleeps, on the process's own address, with a child to wait for.
Asleep ==
    \A p \in Proc : state[p] = "SLEEPING" =>
        /\ chan[p] = p
        /\ \E q \in Proc : parent[q] = p
        /\ \A q \in Proc : parent[q] = p => state[q] # "ZOMBIE"

\* The parts of ReapsOwnChild: a process that has children lives, and the pid
\* of the process that forked a child is its parent's, as long as nobody
\* exited before its children.
PidType == pid \in [Proc -> Nat] /\ forker \in [Proc -> Nat] /\ last_pid \in Nat

ForkerIsParent ==
    ~orphaned => \A q \in Proc : parent[q] # None =>
        /\ state[parent[q]] \notin {"UNUSED", "EMBRYO", "ZOMBIE"}
        /\ forker[q] = pid[parent[q]]

IInv ==
    /\ TypeOK /\ OneCpu /\ LockOwner /\ InLoop /\ SwitchedAway
    /\ StackKept /\ NoParent /\ OwnChild /\ Asleep
-----------------------------------------------------------------------------
\* The initial state: the first process is runnable and nothing runs.
LEMMA Initial == Init => IInv
<1> SUFFICES ASSUME Init PROVE IInv
  OBVIOUS
<1> USE SchedulerAssumption DEF Init, Proc
<1>1. TypeOK
  BY DEF TypeOK
<1>2. OneCpu /\ LockOwner /\ InLoop /\ SwitchedAway
  BY DEF OneCpu, LockOwner, Switching, InLoop, SwitchedAway, ResumePC
<1>3. StackKept /\ NoParent /\ OwnChild /\ Asleep
  BY DEF StackKept, NoParent, OwnChild, At, Asleep
<1> QED
  BY <1>1, <1>2, <1>3 DEF IInv

\* The invariant does not depend on pids, the container's lock and the histories.
LEMMA Kept ==
    ASSUME IInv, UNCHANGED <<sched_lock, current, scan, state, chan, pc, parent, child>>
    PROVE  IInv'
BY DEF IInv, TypeOK, At, OneCpu, LockOwner, Switching, InLoop, SwitchedAway, StackKept,
   NoParent, OwnChild, Asleep

\* Every step preserves the invariant.
LEMMA Inductive == IInv /\ [Next]_vars => IInv'
<1> SUFFICES ASSUME IInv, [Next]_vars PROVE IInv'
  OBVIOUS
<1> USE SchedulerAssumption DEF IInv, TypeOK, At
<1>0. CASE UNCHANGED vars
  BY <1>0, Kept DEF vars, schedvars, treevars
<1>1. ASSUME NEW c \in Cpu, scheduler_lock(c) /\ UNCHANGED treevars PROVE IInv'
  <2>1. TypeOK'
    BY <1>1 DEF scheduler_lock, treevars
  <2>2. (OneCpu /\ LockOwner /\ InLoop /\ SwitchedAway)'
    BY <1>1 DEF OneCpu, LockOwner, Switching, InLoop, SwitchedAway, ResumePC,
       StackKept, OwnChild, scheduler_lock, treevars
  <2>3. (StackKept /\ NoParent)'
    BY <1>1 DEF StackKept, NoParent, OwnChild, LockOwner, Switching, ResumePC, scheduler_lock, treevars
  <2>4. OwnChild'
    BY <1>1 DEF OwnChild, OneCpu, LockOwner, Switching, SwitchedAway, ResumePC,
       StackKept, scheduler_lock, treevars
  <2>5. Asleep'
    BY <1>1 DEF Asleep, NoParent, OwnChild, scheduler_lock, treevars
  <2> QED  BY <2>1, <2>2, <2>3, <2>4, <2>5
<1>2. ASSUME NEW c \in Cpu, scheduler_run(c) /\ UNCHANGED treevars PROVE IInv'
  <2>a. PICK r \in Proc : /\ state[r] = "RUNNABLE"
                         /\ current' = [current EXCEPT ![c] = r]
                         /\ state' = [state EXCEPT ![r] = "RUNNING"]
                         /\ scan' = [scan EXCEPT ![c] = r + 1]
                         /\ current[c] = None /\ scan[c] # 0
                         /\ UNCHANGED <<sched_lock, chan, pc, parent, child>>
    BY <1>2 DEF scheduler_run, RunnableFrom, First, scan_after, treevars
  <2>b. r \in Nat
    BY DEF Proc
  <2>c. sched_lock = c /\ pc[r] \in ResumePC /\ \A d \in Cpu : current[d] # r
    BY <2>a DEF LockOwner, Switching, SwitchedAway
  <2>1. TypeOK'
    BY <2>a, <2>b, <2>c
  <2>2. (OneCpu /\ LockOwner /\ InLoop /\ SwitchedAway)'
    BY <2>a, <2>b, <2>c DEF OneCpu, LockOwner, Switching, InLoop, SwitchedAway, ResumePC,
       StackKept, OwnChild
  <2>3. (StackKept /\ NoParent)'
    BY <2>a, <2>b, <2>c DEF StackKept, NoParent, OwnChild, LockOwner, Switching, ResumePC
  <2>4. OwnChild'
    BY <2>a, <2>b, <2>c DEF OwnChild, OneCpu, LockOwner, Switching, SwitchedAway, ResumePC,
       StackKept
  <2>5. Asleep'
    BY <2>a, <2>b, <2>c DEF Asleep, NoParent, OwnChild
  <2> QED  BY <2>1, <2>2, <2>3, <2>4, <2>5
<1>3. ASSUME NEW c \in Cpu, scheduler_unlock(c) /\ UNCHANGED treevars PROVE IInv'
  <2>1. TypeOK'
    BY <1>3 DEF scheduler_unlock, treevars
  <2>2. (OneCpu /\ LockOwner /\ InLoop /\ SwitchedAway)'
    BY <1>3 DEF OneCpu, LockOwner, Switching, InLoop, SwitchedAway, ResumePC,
       StackKept, OwnChild, scheduler_unlock, treevars
  <2>3. (StackKept /\ NoParent)'
    BY <1>3 DEF StackKept, NoParent, OwnChild, LockOwner, Switching, ResumePC, scheduler_unlock, treevars
  <2>4. OwnChild'
    BY <1>3 DEF OwnChild, OneCpu, LockOwner, Switching, SwitchedAway, ResumePC,
       StackKept, scheduler_unlock, treevars
  <2>5. Asleep'
    BY <1>3 DEF Asleep, NoParent, OwnChild, scheduler_unlock, treevars
  <2> QED  BY <2>1, <2>2, <2>3, <2>4, <2>5
<1>4. ASSUME NEW c \in Cpu, sched(c) /\ UNCHANGED treevars PROVE IInv'
  <2>1. TypeOK'
    BY <1>4 DEF sched, treevars
  <2>2. (OneCpu /\ LockOwner /\ InLoop /\ SwitchedAway)'
    BY <1>4 DEF OneCpu, LockOwner, Switching, InLoop, SwitchedAway, ResumePC,
       StackKept, OwnChild, sched, treevars
  <2>3. (StackKept /\ NoParent)'
    BY <1>4 DEF StackKept, NoParent, OwnChild, LockOwner, Switching, ResumePC, sched, treevars
  <2>4. OwnChild'
    BY <1>4 DEF OwnChild, OneCpu, LockOwner, Switching, SwitchedAway, ResumePC,
       StackKept, sched, treevars
  <2>5. Asleep'
    BY <1>4 DEF Asleep, NoParent, OwnChild, sched, treevars
  <2> QED  BY <2>1, <2>2, <2>3, <2>4, <2>5
<1>5. ASSUME NEW c \in Cpu, yield_return(c) /\ UNCHANGED treevars PROVE IInv'
  <2>1. TypeOK'
    BY <1>5 DEF yield_return, resume, treevars
  <2>2. (OneCpu /\ LockOwner /\ InLoop /\ SwitchedAway)'
    BY <1>5 DEF OneCpu, LockOwner, Switching, InLoop, SwitchedAway, ResumePC,
       StackKept, OwnChild, yield_return, resume, treevars
  <2>3. (StackKept /\ NoParent)'
    BY <1>5 DEF StackKept, NoParent, OwnChild, LockOwner, Switching, ResumePC, yield_return, resume, treevars
  <2>4. OwnChild'
    BY <1>5 DEF OwnChild, OneCpu, LockOwner, Switching, SwitchedAway, ResumePC,
       StackKept, yield_return, resume, treevars
  <2>5. Asleep'
    BY <1>5 DEF Asleep, NoParent, OwnChild, yield_return, resume, treevars
  <2> QED  BY <2>1, <2>2, <2>3, <2>4, <2>5
<1>6. ASSUME NEW c \in Cpu, yield(c) /\ UNCHANGED treevars PROVE IInv'
  <2>1. TypeOK'
    BY <1>6 DEF yield, block, treevars
  <2>2. (OneCpu /\ LockOwner /\ InLoop /\ SwitchedAway)'
    BY <1>6 DEF OneCpu, LockOwner, Switching, InLoop, SwitchedAway, ResumePC,
       StackKept, OwnChild, yield, block, treevars
  <2>3. (StackKept /\ NoParent)'
    BY <1>6 DEF StackKept, NoParent, OwnChild, LockOwner, Switching, ResumePC, yield, block, treevars
  <2>4. OwnChild'
    BY <1>6 DEF OwnChild, OneCpu, LockOwner, Switching, SwitchedAway, ResumePC,
       StackKept, yield, block, treevars
  <2>5. Asleep'
    BY <1>6 DEF Asleep, NoParent, OwnChild, yield, block, treevars
  <2> QED  BY <2>1, <2>2, <2>3, <2>4, <2>5
<1>7. ASSUME NEW c \in Cpu, forkret(c) PROVE IInv'
  <2>1. TypeOK'
    BY <1>7 DEF forkret, resume, treevars
  <2>2. (OneCpu /\ LockOwner /\ InLoop /\ SwitchedAway)'
    BY <1>7 DEF OneCpu, LockOwner, Switching, InLoop, SwitchedAway, ResumePC,
       StackKept, OwnChild, forkret, resume, treevars
  <2>3. (StackKept /\ NoParent)'
    BY <1>7 DEF StackKept, NoParent, OwnChild, LockOwner, Switching, ResumePC, forkret, resume, treevars
  <2>4. OwnChild'
    BY <1>7 DEF OwnChild, OneCpu, LockOwner, Switching, SwitchedAway, ResumePC,
       StackKept, forkret, resume, treevars
  <2>5. Asleep'
    BY <1>7 DEF Asleep, NoParent, OwnChild, forkret, resume, treevars
  <2> QED  BY <2>1, <2>2, <2>3, <2>4, <2>5
<1>8. ASSUME NEW c \in Cpu, alloc_proc_full(c) \/ alloc_resource_held(c) PROVE IInv'
  <2>1. UNCHANGED <<sched_lock, current, scan, state, chan, pc, parent, child>>
    BY <1>8 DEF alloc_proc_full, alloc_resource_held, schedvars
  <2> QED
    BY <2>1, Kept
<1>9. ASSUME NEW c \in Cpu, alloc_pcb(c) PROVE IInv'
  <2>a. PICK q \in Proc : state[q] = "UNUSED" /\ child' = [child EXCEPT ![current[c]] = q]
    BY <1>9 DEF alloc_pcb, Unused, First
  <2>1. TypeOK'
    BY <1>9, <2>a DEF alloc_pcb, goto
  <2>2. (OneCpu /\ LockOwner /\ InLoop /\ SwitchedAway)'
    BY <1>9, <2>a DEF OneCpu, LockOwner, Switching, InLoop, SwitchedAway, ResumePC,
       StackKept, OwnChild, alloc_pcb, goto
  <2>3. (StackKept /\ NoParent)'
    BY <1>9, <2>a DEF StackKept, NoParent, OwnChild, LockOwner, Switching, ResumePC, alloc_pcb, goto
  <2>4. OwnChild'
    BY <1>9, <2>a DEF OwnChild, OneCpu, LockOwner, Switching, SwitchedAway, ResumePC,
       StackKept, alloc_pcb, goto
  <2>5. Asleep'
    BY <1>9, <2>a DEF Asleep, NoParent, OwnChild, alloc_pcb, goto
  <2> QED  BY <2>1, <2>2, <2>3, <2>4, <2>5
<1>10. ASSUME NEW c \in Cpu, alloc_resource(c) PROVE IInv'
  <2>1. TypeOK'
    BY <1>10 DEF alloc_resource, goto
  <2>2. (OneCpu /\ LockOwner /\ InLoop /\ SwitchedAway)'
    BY <1>10 DEF OneCpu, LockOwner, Switching, InLoop, SwitchedAway, ResumePC,
       StackKept, OwnChild, alloc_resource, goto
  <2>3. (StackKept /\ NoParent)'
    BY <1>10 DEF StackKept, NoParent, OwnChild, LockOwner, Switching, ResumePC, alloc_resource, goto
  <2>4. OwnChild'
    BY <1>10 DEF OwnChild, OneCpu, LockOwner, Switching, SwitchedAway, ResumePC,
       StackKept, alloc_resource, goto
  <2>5. Asleep'
    BY <1>10 DEF Asleep, NoParent, OwnChild, alloc_resource, goto
  <2> QED  BY <2>1, <2>2, <2>3, <2>4, <2>5
<1>11. ASSUME NEW c \in Cpu, fork(c) PROVE IInv'
  <2>a. /\ child[current[c]] \in Proc /\ state[child[current[c]]] = "EMBRYO"
        /\ \A d \in Cpu : current[d] # child[current[c]]
        /\ parent[child[current[c]]] = None /\ child[current[c]] # current[c]
    BY <1>11 DEF fork, OwnChild, StackKept, NoParent
  <2>1. TypeOK'
    BY <1>11, <2>a DEF fork
  <2>2. (OneCpu /\ LockOwner /\ InLoop /\ SwitchedAway)'
    BY <1>11, <2>a DEF OneCpu, LockOwner, Switching, InLoop, SwitchedAway, ResumePC,
       StackKept, OwnChild, fork
  <2>3. (StackKept /\ NoParent)'
    BY <1>11, <2>a DEF StackKept, NoParent, OwnChild, LockOwner, Switching, ResumePC, fork
  <2>4. OwnChild'
    BY <1>11, <2>a DEF OwnChild, OneCpu, LockOwner, Switching, SwitchedAway, ResumePC,
       StackKept, fork
  <2>5. Asleep'
    BY <1>11, <2>a DEF Asleep, NoParent, OwnChild, fork
  <2> QED  BY <2>1, <2>2, <2>3, <2>4, <2>5
<1>12. ASSUME NEW c \in Cpu, fork_fail(c) PROVE IInv'
  <2>a. /\ child[current[c]] \in Proc /\ state[child[current[c]]] = "EMBRYO"
        /\ \A d \in Cpu : current[d] # child[current[c]]
    BY <1>12 DEF fork_fail, OwnChild, StackKept
  <2>1. TypeOK'
    BY <1>12, <2>a DEF fork_fail, goto
  <2>2. (OneCpu /\ LockOwner /\ InLoop /\ SwitchedAway)'
    BY <1>12, <2>a DEF OneCpu, LockOwner, Switching, InLoop, SwitchedAway, ResumePC,
       StackKept, OwnChild, fork_fail, goto
  <2>3. (StackKept /\ NoParent)'
    BY <1>12, <2>a DEF StackKept, NoParent, OwnChild, LockOwner, Switching, ResumePC, fork_fail, goto
  <2>4. OwnChild'
    BY <1>12, <2>a DEF OwnChild, OneCpu, LockOwner, Switching, SwitchedAway, ResumePC,
       StackKept, fork_fail, goto
  <2>5. Asleep'
    BY <1>12, <2>a DEF Asleep, NoParent, OwnChild, fork_fail, goto
  <2> QED  BY <2>1, <2>2, <2>3, <2>4, <2>5
<1>13. ASSUME NEW c \in Cpu, exit(c) PROVE IInv'
  <2>1. TypeOK'
    BY <1>13 DEF exit, exit_wakeup, woken, goto
  <2>2. (OneCpu /\ LockOwner /\ InLoop /\ SwitchedAway)'
    BY <1>13 DEF OneCpu, LockOwner, Switching, InLoop, SwitchedAway, ResumePC,
       StackKept, OwnChild, exit, exit_wakeup, woken, goto
  <2>3. (StackKept /\ NoParent)'
    BY <1>13 DEF StackKept, NoParent, OwnChild, LockOwner, Switching, ResumePC, exit, exit_wakeup, woken, goto
  <2>4. OwnChild'
    BY <1>13 DEF OwnChild, OneCpu, LockOwner, Switching, SwitchedAway, ResumePC,
       StackKept, exit, exit_wakeup, woken, goto
  <2>5. Asleep'
    BY <1>13 DEF Asleep, NoParent, OwnChild, exit, exit_wakeup, woken, goto
  <2> QED  BY <2>1, <2>2, <2>3, <2>4, <2>5
<1>14. ASSUME NEW c \in Cpu, wait(c) PROVE IInv'
  <2> DEFINE p == current[c]
  <2>a. /\ p \in Proc /\ state[p] = "RUNNING" /\ pc[p] \in {"user", "wait"}
        /\ sched_lock \in {None, c} /\ (pc[p] = "user" => sched_lock = None)
        /\ UNCHANGED <<current, scan, child>>
    BY <1>14 DEF wait, LockOwner, Switching, ResumePC
  <2>b. wait_pass(c, p)
    BY <1>14 DEF wait
  <2>r. ASSUME NEW q \in Proc, state[q] = "ZOMBIE", parent[q] = p,
               state' = [state EXCEPT ![q] = "UNUSED"],
               parent' = [parent EXCEPT ![q] = None],
               sched_lock' = None, pc' = [pc EXCEPT ![p] = "user"],
               chan' = [chan EXCEPT ![p] = None]
        PROVE  IInv'
    <3>0. \A d \in Cpu : current[d] # q
      BY <2>a, <2>r DEF LockOwner, Switching
    <3>1. TypeOK'
      BY <2>a, <2>r, <3>0
    <3>2. (OneCpu /\ LockOwner /\ InLoop /\ SwitchedAway)'
      BY <2>a, <2>r, <3>0 DEF OneCpu, LockOwner, Switching, InLoop, SwitchedAway, ResumePC
    <3>3. (StackKept /\ NoParent)'
      BY <2>a, <2>r, <3>0 DEF StackKept, NoParent
    <3>4. OwnChild'
      BY <2>a, <2>r, <3>0 DEF OwnChild, OneCpu
    <3>5. Asleep'
      BY <2>a, <2>r, <3>0 DEF Asleep, NoParent
    <3> QED  BY <3>1, <3>2, <3>3, <3>4, <3>5
  <2>n. ASSUME sched_lock' = None, pc' = [pc EXCEPT ![p] = "user"],
               chan' = [chan EXCEPT ![p] = None], UNCHANGED <<state, parent>>
        PROVE  IInv'
    <3>1. TypeOK'
      BY <2>a, <2>n
    <3>2. (OneCpu /\ LockOwner /\ InLoop /\ SwitchedAway)'
      BY <2>a, <2>n DEF OneCpu, LockOwner, Switching, InLoop, SwitchedAway, ResumePC
    <3>3. (StackKept /\ NoParent)'
      BY <2>a, <2>n DEF StackKept, NoParent
    <3>4. OwnChild'
      BY <2>a, <2>n DEF OwnChild, OneCpu
    <3>5. Asleep'
      BY <2>a, <2>n DEF Asleep, NoParent
    <3> QED  BY <3>1, <3>2, <3>3, <3>4, <3>5
  <2>s. ASSUME Children(p) # {}, Zombies(p) = {}, sched_lock' = c,
               state' = [state EXCEPT ![p] = "SLEEPING"],
               chan' = [chan EXCEPT ![p] = p], pc' = [pc EXCEPT ![p] = "wait"],
               UNCHANGED parent
        PROVE  IInv'
    <3>1. TypeOK'
      BY <2>a, <2>s DEF Children, Zombies
    <3>2. (OneCpu /\ LockOwner /\ InLoop /\ SwitchedAway)'
      BY <2>a, <2>s DEF OneCpu, LockOwner, Switching, InLoop, SwitchedAway, ResumePC, Children, Zombies
    <3>3. (StackKept /\ NoParent)'
      BY <2>a, <2>s DEF StackKept, NoParent, Children, Zombies
    <3>4. OwnChild'
      BY <2>a, <2>s DEF OwnChild, OneCpu, Children, Zombies
    <3>5. Asleep'
      BY <2>a, <2>s DEF Asleep, NoParent, Children, Zombies
    <3> QED  BY <3>1, <3>2, <3>3, <3>4, <3>5
  <2>1. ASSUME NEW q \in Zombies(p), state' = [state EXCEPT ![q] = "UNUSED"],
               parent' = [parent EXCEPT ![q] = None],
               sched_lock' = None, goto(c, "user"), chan' = [chan EXCEPT ![p] = None]
        PROVE  IInv'
    BY <2>1, <2>r DEF Zombies, Children, goto
  <2> QED
    BY <2>b, <2>1, <2>n, <2>s DEF wait_pass, First, goto
<1> QED
  BY <1>0, <1>1, <1>2, <1>3, <1>4, <1>5, <1>6, <1>7, <1>8, <1>9, <1>10, <1>11, <1>12, <1>13,
     <1>14 DEF Next, Switch

\* wait frees the stack of a zombie only after the zombie's CPU has left it,
\* whatever the order in which exit, the switch and wait take the lock.
THEOREM NoStackFreedInUse == Spec => []StackKept
<1>1. IInv => StackKept
  BY DEF IInv
<1> QED
  BY <1>1, Initial, Inductive, PTL DEF Spec

\* A parent asleep in wait has a child left and no zombie among its children:
\* no order of exit and wait on two CPUs makes it miss an exit.
THEOREM ExitSeen == Spec => []NoMissedExit
<1>1. IInv => NoMissedExit
  BY DEF IInv, Asleep, NoMissedExit, Children, Zombies
<1> QED
  BY <1>1, Initial, Inductive, PTL DEF Spec

\* What the first branch of wait_pass does.
LEMMA Reaped ==
    ASSUME NEW c \in Cpu, wait(c), Zombies(current[c]) # {}
    PROVE  \E r \in Proc : /\ state[r] = "ZOMBIE" /\ parent[r] = current[c]
                           /\ state' = [state EXCEPT ![r] = "UNUSED"]
                           /\ pid' = [pid EXCEPT ![r] = 0]
                           /\ parent' = [parent EXCEPT ![r] = None]
<1>1. Children(current[c]) # {}
  BY DEF Zombies
<1> QED
  BY <1>1 DEF wait, wait_pass, First, Zombies, Children

\* Pids are numbers, so that they can be compared.
LEMMA PidTypes == IInv /\ PidType /\ [Next]_vars => PidType'
<1> SUFFICES ASSUME IInv, PidType, [Next]_vars PROVE PidType'
  OBVIOUS
<1> USE DEF PidType
<1>1. CASE UNCHANGED <<pid, forker, last_pid>>
  BY <1>1
<1>2. ASSUME NEW c \in Cpu, alloc_resource(c) PROVE PidType'
  <2>1. last_pid' \in Nat
    <3>1. CASE pids_used_up
      BY <1>2, <3>1 DEF alloc_resource
    <3>2. CASE ~pids_used_up
      BY <1>2, <3>2 DEF alloc_resource
    <3> QED  BY <3>1, <3>2
  <2>2. pid' = [pid EXCEPT ![child[current[c]]] = last_pid'] /\ UNCHANGED forker
    BY <1>2 DEF alloc_resource
  <2> QED
    BY <2>1, <2>2
<1>3. ASSUME NEW c \in Cpu, fork(c) PROVE PidType'
  <2>1. forker' = [forker EXCEPT ![child[current[c]]] = pid[current[c]]] /\ UNCHANGED <<pid, last_pid>>
    BY <1>3 DEF fork
  <2>2. current[c] \in Proc
    BY <1>3 DEF fork, At, IInv, TypeOK
  <2> QED
    BY <2>1, <2>2
<1>4. ASSUME NEW c \in Cpu, wait(c) PROVE PidType'
  BY <1>4 DEF wait, wait_pass
<1> QED
  BY <1>1, <1>2, <1>3, <1>4 DEF Next, Switch, vars, treevars, scheduler_lock, scheduler_run,
     scheduler_unlock, sched, yield_return, yield, forkret, alloc_proc_full,
     alloc_resource_held, alloc_pcb, fork_fail, exit

\* As long as no process left children behind, a parent lives and keeps its pid.
LEMMA ForkersKept == IInv /\ PidType /\ ForkerIsParent /\ [Next]_vars => ForkerIsParent'
<1> SUFFICES ASSUME IInv, PidType, ForkerIsParent, [Next]_vars, ~orphaned',
                    NEW q \in Proc, parent'[q] # None
             PROVE  /\ state'[parent'[q]] \notin {"UNUSED", "EMBRYO", "ZOMBIE"}
                    /\ forker'[q] = pid'[parent'[q]]
  BY DEF ForkerIsParent
<1> USE SchedulerAssumption DEF IInv, TypeOK, PidType, At
<1>0. orphaned' = orphaned \/ \E c \in Cpu : exit(c)
  BY DEF Next, Switch, vars, treevars, yield, forkret, alloc_proc_full,
     alloc_resource_held, alloc_pcb, alloc_resource, fork, fork_fail, wait
<1>1. ~orphaned
  BY <1>0, Zenon DEF exit
<1>2. ASSUME NEW r \in Proc, parent[r] # None
      PROVE  /\ parent[r] \in Proc
             /\ state[parent[r]] \notin {"UNUSED", "EMBRYO", "ZOMBIE"}
             /\ forker[r] = pid[parent[r]]
  BY <1>1, <1>2 DEF ForkerIsParent
<1>3. CASE UNCHANGED <<state, parent, forker, pid>>
  BY <1>2, <1>3
<1>4. ASSUME NEW c \in Cpu, scheduler_run(c) /\ UNCHANGED treevars
      PROVE  /\ state'[parent'[q]] \notin {"UNUSED", "EMBRYO", "ZOMBIE"}
             /\ forker'[q] = pid'[parent'[q]]
  <2>1. PICK r \in Proc : state' = [state EXCEPT ![r] = "RUNNING"]
    BY <1>4 DEF scheduler_run, RunnableFrom, First
  <2> QED
    BY <1>2, <1>4, <2>1 DEF treevars
<1>5. ASSUME NEW c \in Cpu, yield(c) /\ UNCHANGED treevars
      PROVE  /\ state'[parent'[q]] \notin {"UNUSED", "EMBRYO", "ZOMBIE"}
             /\ forker'[q] = pid'[parent'[q]]
  BY <1>2, <1>5 DEF yield, block, treevars
<1>6. ASSUME NEW c \in Cpu, alloc_resource(c)
      PROVE  /\ state'[parent'[q]] \notin {"UNUSED", "EMBRYO", "ZOMBIE"}
             /\ forker'[q] = pid'[parent'[q]]
  BY <1>2, <1>6 DEF alloc_resource, OwnChild
<1>7. ASSUME NEW c \in Cpu, fork(c)
      PROVE  /\ state'[parent'[q]] \notin {"UNUSED", "EMBRYO", "ZOMBIE"}
             /\ forker'[q] = pid'[parent'[q]]
  BY <1>2, <1>7 DEF fork, OwnChild
<1>8. ASSUME NEW c \in Cpu, fork_fail(c)
      PROVE  /\ state'[parent'[q]] \notin {"UNUSED", "EMBRYO", "ZOMBIE"}
             /\ forker'[q] = pid'[parent'[q]]
  BY <1>2, <1>8 DEF fork_fail, OwnChild
<1>9. ASSUME NEW c \in Cpu, exit(c)
      PROVE  /\ state'[parent'[q]] \notin {"UNUSED", "EMBRYO", "ZOMBIE"}
             /\ forker'[q] = pid'[parent'[q]]
  <2>1. \A r \in Proc : parent[r] # current[c]
    BY <1>9, Zenon DEF exit
  <2> QED
    BY <1>2, <1>9, <2>1 DEF exit, exit_wakeup, woken
<1>10. ASSUME NEW c \in Cpu, wait(c)
      PROVE  /\ state'[parent'[q]] \notin {"UNUSED", "EMBRYO", "ZOMBIE"}
             /\ forker'[q] = pid'[parent'[q]]
  <2>1. CASE Zombies(current[c]) # {}
    <3>1. PICK r \in Proc : /\ state[r] = "ZOMBIE"
                            /\ state' = [state EXCEPT ![r] = "UNUSED"]
                            /\ pid' = [pid EXCEPT ![r] = 0]
                            /\ parent' = [parent EXCEPT ![r] = None]
      BY <1>10, <2>1, Reaped
    <3> QED
      BY <1>2, <1>10, <3>1 DEF wait
  <2>2. CASE Zombies(current[c]) = {}
    BY <1>2, <1>10, <2>2 DEF wait, wait_pass, First
  <2> QED
    BY <2>1, <2>2
<1> QED
  BY <1>3, <1>4, <1>5, <1>6, <1>7, <1>8, <1>9, <1>10 DEF Next, Switch, vars, treevars, schedvars,
     scheduler_lock, scheduler_unlock, sched, yield_return, resume, forkret,
     alloc_proc_full, alloc_resource_held, alloc_pcb

\* A process that wait removes was forked by the process that waits, as long as
\* no process exits before its children: the entry of a parent is not reused.
THEOREM ReapedByForker == Spec => ReapsOwnChild
<1>1. Init => PidType /\ ForkerIsParent
  BY SchedulerAssumption DEF Init, PidType, ForkerIsParent
<1>2. IInv /\ PidType /\ ForkerIsParent =>
        [\A c \in Cpu, q \in Proc :
            wait(c) /\ state[q] = "ZOMBIE" /\ state'[q] = "UNUSED" /\ ~orphaned
            => forker[q] = pid[current[c]]]_vars
  <2> SUFFICES ASSUME IInv, ForkerIsParent, NEW c \in Cpu, NEW q \in Proc, wait(c),
                      state[q] = "ZOMBIE", state'[q] = "UNUSED", ~orphaned
               PROVE  forker[q] = pid[current[c]]
    OBVIOUS
  <2>1. Zombies(current[c]) # {}
    BY SchedulerAssumption DEF wait, wait_pass, First, IInv, TypeOK, At
  <2>2. PICK r \in Proc : parent[r] = current[c] /\ state' = [state EXCEPT ![r] = "UNUSED"]
    BY <2>1, Reaped
  <2>3. r = q
    BY <2>2 DEF IInv, TypeOK
  <2> QED
    BY <2>2, <2>3, SchedulerAssumption DEF ForkerIsParent, wait, At, IInv, TypeOK
<1> QED
  BY <1>1, <1>2, Initial, Inductive, PidTypes, ForkersKept, PTL DEF Spec, ReapsOwnChild
=============================================================================
