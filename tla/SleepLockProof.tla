---------------------------- MODULE SleepLockProof ---------------------------
(***************************************************************************)
(* Proofs about Scheduler and SleepLock: for any number of CPUs and        *)
(* processes, no process runs on two CPUs, the lock of the process table   *)
(* is handed over at every switch, the sleeplock has one holder and no     *)
(* wakeup is lost.                                                         *)
(***************************************************************************)
EXTENDS SleepLock, TLAPS

\* Where a process resumes that was switched away.
ResumePC == {"yield", "slept", "disk"}

\* CPU c is about to switch, or has just switched, and so holds the lock.
Switching(c) ==
    IF current[c] = None
    THEN scan[c] # 0
    ELSE state[current[c]] # "RUNNING" \/ pc[current[c]] \in ResumePC

\* The lock of the table is held across switches and nowhere else: every other
\* section under it is a single step.
LockOwner == \A c \in Cpu : Switching(c) <=> sched_lock = c

\* A process was dispatched from inside the scheduler's loop.
InLoop == \A c \in Cpu : current[c] # None => scan[c] # 0

\* A process that does not run was switched away at a place where it resumes.
SwitchedAway == \A p \in Proc : state[p] # "RUNNING" => pc[p] \in ResumePC

\* A process that has found the sleeplock taken holds the spinlock until it
\* sleeps, which keeps the sleeplock from being released.
SpinKept ==
    \A c \in Cpu : current[c] # None /\ pc[current[c]] = "sleep" => spin = c /\ locked

IInv ==
    /\ TypeOK /\ OneCpu /\ LockOwner /\ InLoop /\ SwitchedAway /\ SpinKept
    /\ OneHolder /\ NoLostWakeup
-----------------------------------------------------------------------------
\* The initial state satisfies the invariant: every CPU is in its scheduler.
LEMMA Initial == Init => IInv
<1> SUFFICES ASSUME Init PROVE IInv
  OBVIOUS
<1> USE SchedulerAssumption, ChannelAssumption DEF Init, Proc
<1>1. TypeOK
  <2>1. locked \in BOOLEAN
    BY Zenon
  <2>2. 0 \in 0 .. NPROC + 1
    OBVIOUS
  <2>3. scan \in [Cpu -> 0 .. NPROC + 1] /\ current \in [Cpu -> Proc \cup {None}]
    BY <2>2
  <2>4. /\ state \in [Proc -> {"SLEEPING", "RUNNABLE", "RUNNING"}]
        /\ chan \in [Proc -> {None, Lock, Disk}]
        /\ pc \in [Proc -> {"yield", "user", "retry", "sleep", "slept", "holding",
                            "disk", "wakeup"}]
    OBVIOUS
  <2> QED
    BY <2>1, <2>3, <2>4 DEF TypeOK
<1>2. OneCpu /\ InLoop /\ SpinKept
  BY DEF OneCpu, InLoop, SpinKept
<1>3. LockOwner
  BY DEF LockOwner, Switching
<1>4. SwitchedAway /\ NoLostWakeup
  BY DEF SwitchedAway, ResumePC, NoLostWakeup
<1>5. OneHolder
  BY DEF OneHolder, Holders
<1> QED
  BY <1>1, <1>2, <1>3, <1>4, <1>5 DEF IInv

\* Every step preserves the invariant.
LEMMA Inductive == IInv /\ [Next]_vars => IInv'
<1> SUFFICES ASSUME IInv, [Next]_vars PROVE IInv'
  OBVIOUS
<1> USE SchedulerAssumption, ChannelAssumption DEF Proc
<1>0. CASE UNCHANGED vars
  BY <1>0 DEF vars, schedvars, IInv, TypeOK, OneCpu, LockOwner, Switching,
     InLoop, SwitchedAway,
     SpinKept, OneHolder, Holders, NoLostWakeup
<1>1. ASSUME NEW c \in Cpu, scheduler_lock(c) /\ UNCHANGED <<spin, locked>> PROVE IInv'
  <2>1. TypeOK'
    BY <1>1 DEF IInv, TypeOK, scheduler_lock
  <2>2. (OneCpu /\ LockOwner /\ InLoop)'
    BY <1>1 DEF IInv, TypeOK, OneCpu, LockOwner, Switching, InLoop,
       SwitchedAway, ResumePC, scheduler_lock
  <2>3. (SwitchedAway /\ SpinKept)'
    BY <1>1 DEF IInv, TypeOK, OneCpu, SwitchedAway, SpinKept, ResumePC,
       OneHolder, Holders, LockOwner, Switching, scheduler_lock
  <2>4. OneHolder'
    BY <1>1 DEF IInv, TypeOK, OneHolder, Holders, SwitchedAway, ResumePC, scheduler_lock
  <2>5. NoLostWakeup'
    BY <1>1 DEF IInv, TypeOK, NoLostWakeup, SpinKept, scheduler_lock
  <2> QED  BY <2>1, <2>2, <2>3, <2>4, <2>5 DEF IInv
<1>2. ASSUME NEW c \in Cpu, scheduler_run(c) /\ UNCHANGED <<spin, locked>> PROVE IInv'
  <2>0. PICK r \in Proc :
        /\ state[r] = "RUNNABLE"
        /\ current[c] = None /\ scan[c] # 0
        /\ current' = [current EXCEPT ![c] = r]
        /\ state' = [state EXCEPT ![r] = "RUNNING"]
        /\ scan' = [scan EXCEPT ![c] = r + 1]
        /\ UNCHANGED <<sched_lock, chan, pc, spin, locked>>
    BY <1>2 DEF scheduler_run, RunnableFrom, First, scan_after
  <2>b. sched_lock = c /\ pc[r] \in ResumePC /\ \A d \in Cpu : current[d] # r
    BY <2>0 DEF IInv, TypeOK, LockOwner, Switching, SwitchedAway
  <2>1. TypeOK'
    BY <2>0, <2>b DEF IInv, TypeOK
  <2>2. (OneCpu /\ LockOwner /\ InLoop)'
    BY <2>0, <2>b DEF IInv, TypeOK, OneCpu, LockOwner, Switching, InLoop,
       SwitchedAway, ResumePC
  <2>3. (SwitchedAway /\ SpinKept)'
    BY <2>0, <2>b DEF IInv, TypeOK, OneCpu, SwitchedAway, SpinKept,
       ResumePC, OneHolder, Holders, LockOwner, Switching
  <2>4. OneHolder'
    BY <2>0, <2>b DEF IInv, TypeOK, OneHolder, Holders, SwitchedAway, ResumePC
  <2>5. NoLostWakeup'
    BY <2>0, <2>b DEF IInv, TypeOK, NoLostWakeup, SpinKept
  <2> QED  BY <2>1, <2>2, <2>3, <2>4, <2>5 DEF IInv
<1>3. ASSUME NEW c \in Cpu, scheduler_unlock(c) /\ UNCHANGED <<spin, locked>> PROVE IInv'
  <2>1. TypeOK'
    BY <1>3 DEF IInv, TypeOK, scheduler_unlock
  <2>2. (OneCpu /\ LockOwner /\ InLoop)'
    BY <1>3 DEF IInv, TypeOK, OneCpu, LockOwner, Switching, InLoop,
       SwitchedAway, ResumePC, scheduler_unlock
  <2>3. (SwitchedAway /\ SpinKept)'
    BY <1>3 DEF IInv, TypeOK, OneCpu, SwitchedAway, SpinKept, ResumePC,
       OneHolder, Holders, LockOwner, Switching, scheduler_unlock
  <2>4. OneHolder'
    BY <1>3 DEF IInv, TypeOK, OneHolder, Holders, SwitchedAway, ResumePC, scheduler_unlock
  <2>5. NoLostWakeup'
    BY <1>3 DEF IInv, TypeOK, NoLostWakeup, SpinKept, scheduler_unlock
  <2> QED  BY <2>1, <2>2, <2>3, <2>4, <2>5 DEF IInv
<1>4. ASSUME NEW c \in Cpu, sched(c) /\ UNCHANGED <<spin, locked>> PROVE IInv'
  <2>1. TypeOK'
    BY <1>4 DEF IInv, TypeOK, sched
  <2>2. (OneCpu /\ LockOwner /\ InLoop)'
    BY <1>4 DEF IInv, TypeOK, OneCpu, LockOwner, Switching, InLoop,
       SwitchedAway, ResumePC, sched
  <2>3. (SwitchedAway /\ SpinKept)'
    BY <1>4 DEF IInv, TypeOK, OneCpu, SwitchedAway, SpinKept, ResumePC,
       OneHolder, Holders, LockOwner, Switching, sched
  <2>4. OneHolder'
    BY <1>4 DEF IInv, TypeOK, OneHolder, Holders, SwitchedAway, ResumePC, sched
  <2>5. NoLostWakeup'
    BY <1>4 DEF IInv, TypeOK, NoLostWakeup, SpinKept, sched
  <2> QED  BY <2>1, <2>2, <2>3, <2>4, <2>5 DEF IInv
<1>5. ASSUME NEW c \in Cpu, yield_return(c) /\ UNCHANGED <<spin, locked>> PROVE IInv'
  <2>1. TypeOK'
    BY <1>5 DEF IInv, TypeOK, yield_return, resume, At
  <2>2. (OneCpu /\ LockOwner /\ InLoop)'
    BY <1>5 DEF IInv, TypeOK, OneCpu, LockOwner, Switching, InLoop,
       SwitchedAway, ResumePC, yield_return, resume, At
  <2>3. (SwitchedAway /\ SpinKept)'
    BY <1>5 DEF IInv, TypeOK, OneCpu, SwitchedAway, SpinKept, ResumePC,
       OneHolder, Holders, LockOwner, Switching, yield_return, resume, At
  <2>4. OneHolder'
    BY <1>5 DEF IInv, TypeOK, OneHolder, Holders, SwitchedAway, ResumePC,
       yield_return, resume, At
  <2>5. NoLostWakeup'
    BY <1>5 DEF IInv, TypeOK, NoLostWakeup, SpinKept, yield_return, resume, At
  <2> QED  BY <2>1, <2>2, <2>3, <2>4, <2>5 DEF IInv
<1>6. ASSUME NEW c \in Cpu, Timer(c) PROVE IInv'
  <2>1. TypeOK'
    BY <1>6 DEF IInv, TypeOK, Timer, yield, block, At
  <2>2. (OneCpu /\ LockOwner /\ InLoop)'
    BY <1>6 DEF IInv, TypeOK, OneCpu, LockOwner, Switching, InLoop,
       SwitchedAway, ResumePC, Timer, yield, block, At
  <2>3. (SwitchedAway /\ SpinKept)'
    BY <1>6 DEF IInv, TypeOK, OneCpu, SwitchedAway, SpinKept, ResumePC,
       OneHolder, Holders, LockOwner, Switching, Timer, yield, block, At
  <2>4. OneHolder'
    BY <1>6 DEF IInv, TypeOK, OneHolder, Holders, SwitchedAway, ResumePC,
       Timer, yield, block, At
  <2>5. NoLostWakeup'
    BY <1>6 DEF IInv, TypeOK, NoLostWakeup, SpinKept, Timer, yield, block, At
  <2> QED  BY <2>1, <2>2, <2>3, <2>4, <2>5 DEF IInv
<1>7. ASSUME NEW c \in Cpu, acquire_free(c) PROVE IInv'
  <2>1. TypeOK'
    BY <1>7 DEF IInv, TypeOK, acquire_free, Acquiring, At, goto
  <2>2. (OneCpu /\ LockOwner /\ InLoop)'
    BY <1>7 DEF IInv, TypeOK, OneCpu, LockOwner, Switching, InLoop,
       SwitchedAway, ResumePC, acquire_free, Acquiring, At, goto
  <2>3. (SwitchedAway /\ SpinKept)'
    BY <1>7 DEF IInv, TypeOK, OneCpu, SwitchedAway, SpinKept, ResumePC,
       OneHolder, Holders, LockOwner, Switching, acquire_free, Acquiring, At,
       goto
  <2>0. Holders = {} /\ current[c] \in Proc
    BY <1>7 DEF IInv, TypeOK, OneHolder, acquire_free, Acquiring, At
  <2>4. OneHolder'
    <3>1. Holders' = {current[c]}
      BY <1>7, <2>0 DEF IInv, TypeOK, Holders, acquire_free, goto
    <3> QED
      BY <1>7, <3>1 DEF OneHolder, acquire_free
  <2>5. NoLostWakeup'
    BY <1>7 DEF IInv, TypeOK, NoLostWakeup, SpinKept, acquire_free, Acquiring, At, goto
  <2> QED  BY <2>1, <2>2, <2>3, <2>4, <2>5 DEF IInv
<1>8. ASSUME NEW c \in Cpu, acquire_busy(c) PROVE IInv'
  <2>1. TypeOK'
    BY <1>8 DEF IInv, TypeOK, acquire_busy, Acquiring, At, goto
  <2>2. (OneCpu /\ LockOwner /\ InLoop)'
    BY <1>8 DEF IInv, TypeOK, OneCpu, LockOwner, Switching, InLoop,
       SwitchedAway, ResumePC, acquire_busy, Acquiring, At, goto
  <2>3. (SwitchedAway /\ SpinKept)'
    BY <1>8 DEF IInv, TypeOK, OneCpu, SwitchedAway, SpinKept, ResumePC,
       OneHolder, Holders, LockOwner, Switching, acquire_busy, Acquiring, At,
       goto
  <2>4. OneHolder'
    BY <1>8 DEF IInv, TypeOK, OneHolder, Holders, SwitchedAway, ResumePC,
       acquire_busy, Acquiring, At, goto
  <2>5. NoLostWakeup'
    BY <1>8 DEF IInv, TypeOK, NoLostWakeup, SpinKept, acquire_busy, Acquiring, At, goto
  <2> QED  BY <2>1, <2>2, <2>3, <2>4, <2>5 DEF IInv
<1>9. ASSUME NEW c \in Cpu, sleep(c) PROVE IInv'
  <2>1. TypeOK'
    BY <1>9 DEF IInv, TypeOK, sleep, block, At
  <2>2. (OneCpu /\ LockOwner /\ InLoop)'
    BY <1>9 DEF IInv, TypeOK, OneCpu, LockOwner, Switching, InLoop,
       SwitchedAway, ResumePC, sleep, block, At
  <2>3. (SwitchedAway /\ SpinKept)'
    BY <1>9 DEF IInv, TypeOK, OneCpu, SwitchedAway, SpinKept, ResumePC,
       OneHolder, Holders, LockOwner, Switching, sleep, block, At
  <2>4. OneHolder'
    BY <1>9 DEF IInv, TypeOK, OneHolder, Holders, SwitchedAway, ResumePC, sleep, block, At
  <2>5. NoLostWakeup'
    BY <1>9 DEF IInv, TypeOK, NoLostWakeup, SpinKept, sleep, block, At
  <2> QED  BY <2>1, <2>2, <2>3, <2>4, <2>5 DEF IInv
<1>10. ASSUME NEW c \in Cpu, sleep_return(c) PROVE IInv'
  <2>1. TypeOK'
    BY <1>10 DEF IInv, TypeOK, sleep_return, resume, At
  <2>2. (OneCpu /\ LockOwner /\ InLoop)'
    BY <1>10 DEF IInv, TypeOK, OneCpu, LockOwner, Switching, InLoop,
       SwitchedAway, ResumePC, sleep_return, resume, At
  <2>3. (SwitchedAway /\ SpinKept)'
    BY <1>10 DEF IInv, TypeOK, OneCpu, SwitchedAway, SpinKept, ResumePC,
       OneHolder, Holders, LockOwner, Switching, sleep_return, resume, At
  <2>4. OneHolder'
    BY <1>10 DEF IInv, TypeOK, OneHolder, Holders, SwitchedAway, ResumePC,
       sleep_return, resume, At
  <2>5. NoLostWakeup'
    BY <1>10 DEF IInv, TypeOK, NoLostWakeup, SpinKept, sleep_return, resume, At
  <2> QED  BY <2>1, <2>2, <2>3, <2>4, <2>5 DEF IInv
<1>11. ASSUME NEW c \in Cpu, release_sleeplock(c) PROVE IInv'
  <2>1. TypeOK'
    BY <1>11 DEF IInv, TypeOK, release_sleeplock, At, goto
  <2>2. (OneCpu /\ LockOwner /\ InLoop)'
    BY <1>11 DEF IInv, TypeOK, OneCpu, LockOwner, Switching, InLoop,
       SwitchedAway, ResumePC, release_sleeplock, At, goto
  <2>3. (SwitchedAway /\ SpinKept)'
    BY <1>11 DEF IInv, TypeOK, OneCpu, SwitchedAway, SpinKept, ResumePC,
       OneHolder, Holders, LockOwner, Switching, release_sleeplock, At, goto
  <2>4. OneHolder'
    BY <1>11 DEF IInv, TypeOK, OneHolder, Holders, SwitchedAway, ResumePC,
       release_sleeplock, At, goto
  <2>5. NoLostWakeup'
    BY <1>11 DEF IInv, TypeOK, NoLostWakeup, SpinKept, release_sleeplock, At, goto
  <2> QED  BY <2>1, <2>2, <2>3, <2>4, <2>5 DEF IInv
<1>12. ASSUME NEW c \in Cpu, wakeup(c) PROVE IInv'
  <2>1. TypeOK'
    BY <1>12 DEF IInv, TypeOK, wakeup, woken, At, goto
  <2>2. (OneCpu /\ LockOwner /\ InLoop)'
    BY <1>12 DEF IInv, TypeOK, OneCpu, LockOwner, Switching, InLoop,
       SwitchedAway, ResumePC, wakeup, woken, At, goto
  <2>3. (SwitchedAway /\ SpinKept)'
    BY <1>12 DEF IInv, TypeOK, OneCpu, SwitchedAway, SpinKept, ResumePC,
       OneHolder, Holders, LockOwner, Switching, wakeup, woken, At, goto
  <2>4. OneHolder'
    BY <1>12 DEF IInv, TypeOK, OneHolder, Holders, SwitchedAway, ResumePC,
       wakeup, woken, At, goto
  <2>5. NoLostWakeup'
    BY <1>12 DEF IInv, TypeOK, NoLostWakeup, SpinKept, wakeup, woken, At, goto
  <2> QED  BY <2>1, <2>2, <2>3, <2>4, <2>5 DEF IInv
<1>13. ASSUME NEW c \in Cpu, disk_wait(c) PROVE IInv'
  <2>1. TypeOK'
    BY <1>13 DEF IInv, TypeOK, disk_wait, block, At
  <2>2. (OneCpu /\ LockOwner /\ InLoop)'
    BY <1>13 DEF IInv, TypeOK, OneCpu, LockOwner, Switching, InLoop,
       SwitchedAway, ResumePC, disk_wait, block, At
  <2>3. (SwitchedAway /\ SpinKept)'
    BY <1>13 DEF IInv, TypeOK, OneCpu, SwitchedAway, SpinKept, ResumePC,
       OneHolder, Holders, LockOwner, Switching, disk_wait, block, At
  <2>4. OneHolder'
    BY <1>13 DEF IInv, TypeOK, OneHolder, Holders, SwitchedAway, ResumePC,
       disk_wait, block, At
  <2>5. NoLostWakeup'
    BY <1>13 DEF IInv, TypeOK, NoLostWakeup, SpinKept, disk_wait, block, At
  <2> QED  BY <2>1, <2>2, <2>3, <2>4, <2>5 DEF IInv
<1>14. ASSUME NEW c \in Cpu, disk_return(c) PROVE IInv'
  <2>1. TypeOK'
    BY <1>14 DEF IInv, TypeOK, disk_return, resume, At
  <2>2. (OneCpu /\ LockOwner /\ InLoop)'
    BY <1>14 DEF IInv, TypeOK, OneCpu, LockOwner, Switching, InLoop,
       SwitchedAway, ResumePC, disk_return, resume, At
  <2>3. (SwitchedAway /\ SpinKept)'
    BY <1>14 DEF IInv, TypeOK, OneCpu, SwitchedAway, SpinKept, ResumePC,
       OneHolder, Holders, LockOwner, Switching, disk_return, resume, At
  <2>4. OneHolder'
    BY <1>14 DEF IInv, TypeOK, OneHolder, Holders, SwitchedAway, ResumePC,
       disk_return, resume, At
  <2>5. NoLostWakeup'
    BY <1>14 DEF IInv, TypeOK, NoLostWakeup, SpinKept, disk_return, resume, At
  <2> QED  BY <2>1, <2>2, <2>3, <2>4, <2>5 DEF IInv
<1>15. ASSUME sd_intr PROVE IInv'
  <2>1. TypeOK'
    BY <1>15 DEF IInv, TypeOK, sd_intr, woken, At
  <2>2. (OneCpu /\ LockOwner /\ InLoop)'
    BY <1>15 DEF IInv, TypeOK, OneCpu, LockOwner, Switching, InLoop,
       SwitchedAway, ResumePC, sd_intr, woken, At
  <2>3. (SwitchedAway /\ SpinKept)'
    BY <1>15 DEF IInv, TypeOK, OneCpu, SwitchedAway, SpinKept, ResumePC,
       OneHolder, Holders, LockOwner, Switching, sd_intr, woken, At
  <2>4. OneHolder'
    BY <1>15 DEF IInv, TypeOK, OneHolder, Holders, SwitchedAway, ResumePC,
       sd_intr, woken, At
  <2>5. NoLostWakeup'
    BY <1>15 DEF IInv, TypeOK, NoLostWakeup, SpinKept, sd_intr, woken, At
  <2> QED  BY <2>1, <2>2, <2>3, <2>4, <2>5 DEF IInv
<1> QED
  BY <1>0, <1>1, <1>2, <1>3, <1>4, <1>5, <1>6, <1>7, <1>8, <1>9, <1>10, <1>11,
     <1>12, <1>13, <1>14, <1>15 DEF Next, CpuStep, Switch
-----------------------------------------------------------------------------
\* The inductive invariant holds in every reachable state.
THEOREM Invariance == Spec => []IInv
  BY Initial, Inductive, PTL DEF Spec

\* The switch between threads and schedulers is safe for any number of CPUs
\* and processes: no process runs on two CPUs, whichever order sched, the scan
\* of the table and wakeup take.
THEOREM OneCpuAtATime == Spec => []OneCpu
<1>1. IInv => OneCpu
  BY DEF IInv
<1> QED
  BY <1>1, Invariance, PTL

\* Whoever switches holds the table's lock: sched never finds it free, and the
\* scheduler's loop goes on under it.
THEOREM LockHandedOver == Spec => []LockAcrossSwitch
<1>1. IInv => LockAcrossSwitch
  BY DEF IInv, LockOwner, Switching, LockAcrossSwitch
<1> QED
  BY <1>1, Invariance, PTL

\* The sleeplock has at most one holder, also while the holder sleeps for the
\* disk, and locked tells whether there is one.
THEOREM MutualExclusion == Spec => []OneHolder
<1>1. IInv => OneHolder
  BY DEF IInv
<1> QED
  BY <1>1, Invariance, PTL

\* No wakeup is lost between the test of locked in acquire_sleeplock and the
\* change of state in sleep.
THEOREM WakeupKept == Spec => []NoLostWakeup
<1>1. IInv => NoLostWakeup
  BY DEF IInv
<1> QED
  BY <1>1, Invariance, PTL

\* The types hold.
THEOREM TypeCorrect == Spec => []TypeOK
<1>1. IInv => TypeOK
  BY DEF IInv
<1> QED
  BY <1>1, Invariance, PTL
=============================================================================
