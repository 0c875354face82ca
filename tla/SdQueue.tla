------------------------------- MODULE SdQueue -------------------------------
(***************************************************************************)
(* The request queue of the SD driver: sdrw and sd_intr of src/driver/sd.c *)
(* and the list of src/driver/buf.h.                                       *)
(*                                                                         *)
(* A thread in sdrw keeps its CPU until it sleeps.  sdrw looks at the      *)
(* queue and links its buffer without sdlock, in three steps; what it does *)
(* under sdlock up to sleep is one step, and so is the interrupt handler.  *)
(* Each thread has one buffer, on its stack, named like the thread.        *)
(*                                                                         *)
(* On several CPUs these steps get in each other's way.  raced remembers   *)
(* that they did, and the properties say that nothing else does harm.      *)
(***************************************************************************)
EXTENDS Integers, Sequences, Functions

CONSTANTS
    Thread,   \* threads, and their buffers
    Cpu,
    Core0,    \* the CPU that gets the interrupts of the card
    None,     \* no thread; also the list head
    MaxOdd    \* bound: interrupts of an unexpected kind that leave the kernel running

ASSUME SdAssumption ==
    /\ Core0 \in Cpu
    /\ None \notin Thread
    /\ MaxOdd \in Nat

VARIABLES
    sdque,   \* the buffers reachable from the list head
    pc,      \* where each thread is
    cpu,     \* the CPU a thread in sdrw runs on
    flag,    \* the local variable of sdrw: was the queue empty?
    tail,    \* the node buflist_push found without successor
    done,    \* B_VALID set and B_DIRTY clear in a thread's buffer
    active,  \* the card: the request it was given last and not answered
    intr,    \* the card: interrupt raised: none; the one the request calls for (done);
             \* one with that flag or the other data flag among others (odd); one without (error)
    odd,     \* odd interrupts so far
    stopped, \* PANIC: the kernel has stopped
    clash,   \* history: sd_start was called for a busy card, or without a request
    raced    \* history: the queue changed, or was looked at, between the look and the link of a
             \* thread, or a request was answered before its thread slept

vars == <<sdque, pc, cpu, flag, tail, done, active, intr, odd, stopped, clash, raced>>

Init ==
    /\ sdque = <<>>
    /\ pc = [t \in Thread |-> "idle"]
    /\ cpu = [t \in Thread |-> None]
    /\ flag = [t \in Thread |-> FALSE]
    /\ tail = [t \in Thread |-> None]
    /\ done = [t \in Thread |-> FALSE]
    /\ active = None /\ intr = "none" /\ odd = 0
    /\ stopped = FALSE /\ clash = FALSE /\ raced = FALSE

Free(c) == \A t \in Thread : cpu[t] # c

\* Some thread has looked at the queue and not linked its buffer yet.
Linking == \E t \in Thread : pc[t] \in {"push", "link"}

goto(t, l) == pc' = [pc EXCEPT ![t] = l]
-----------------------------------------------------------------------------
\* sd_start of buffer t, when the card has request b and has raised i: it takes
\* the command, and forgets b, unless an assertion fails, the card refuses the
\* command or it is not ready for the data in time.
sd_start(t, b, i) ==
    /\ clash' = (clash \/ b # None \/ t = None)
    /\ \/ t # None /\ i = "none" /\ active' = t /\ UNCHANGED stopped
       \/ active' = b /\ stopped' = TRUE

\* sd_read or sd_write fills a buffer and sdrw looks at the queue.
sdrw(t, c) ==
    /\ pc[t] = "idle"
    /\ Free(c)
    /\ cpu' = [cpu EXCEPT ![t] = c]
    /\ done' = [done EXCEPT ![t] = FALSE]
    /\ flag' = [flag EXCEPT ![t] = (sdque = <<>>)]
    /\ goto(t, "push")
    /\ raced' = (raced \/ Linking)
    /\ UNCHANGED <<sdque, tail, active, intr, odd, stopped, clash>>

\* buflist_push: walk to the last node.
find_tail(t) ==
    /\ pc[t] = "push"
    /\ tail' = [tail EXCEPT ![t] = IF sdque = <<>> THEN None ELSE sdque[Len(sdque)]]
    /\ goto(t, "link")
    /\ UNCHANGED <<sdque, cpu, flag, done, active, intr, odd, stopped, clash, raced>>

\* Mutant: the newest request goes first.
linked_Front(t) == <<t>> \o sdque

\* buflist_push: the buffer becomes the successor of that node, in place of
\* any that was linked there meanwhile, and the last node of the list.
linked(t) ==
    IF tail[t] = None THEN <<t>>
    ELSE IF tail[t] \in Range(sdque)
         THEN SubSeq(sdque, 1, CHOOSE k \in DOMAIN sdque : sdque[k] = tail[t]) \o <<t>>
         ELSE sdque

buflist_push(t) ==
    /\ pc[t] = "link"
    /\ sdque' = linked(t)
    /\ tail' = [tail EXCEPT ![t] = None]
    /\ goto(t, "lock")
    /\ UNCHANGED <<cpu, flag, done, active, intr, odd, stopped, clash, raced>>

buflist_front == IF sdque = <<>> THEN None ELSE Head(sdque)

\* Mutant: the caller always starts the request at the front.
starts_Always(t) == TRUE

starts(t) == flag[t]

\* The section under sdlock up to sleep.
sdrw_sleep(t) ==
    /\ pc[t] = "lock"
    /\ IF starts(t)
       THEN sd_start(buflist_front, active, intr)
       ELSE UNCHANGED <<active, stopped, clash>>
    /\ cpu' = [cpu EXCEPT ![t] = None]
    /\ flag' = [flag EXCEPT ![t] = FALSE]
    /\ goto(t, "sleep")
    /\ UNCHANGED <<sdque, tail, done, intr, odd, raced>>

\* sleep returned: test the flags of the buffer, which is gone when sdrw returns.
sdrw_test(t) ==
    /\ pc[t] = "test"
    /\ goto(t, IF done[t] THEN "idle" ELSE "sleep")
    /\ done' = [done EXCEPT ![t] = FALSE]
    /\ UNCHANGED <<sdque, cpu, flag, tail, active, intr, odd, stopped, clash, raced>>

\* The card finishes the request it was given, or raises an interrupt that
\* is not the one the kind of request calls for.
card_done ==
    /\ active # None /\ intr = "none"
    /\ \/ intr' \in {"done", "error"} /\ UNCHANGED odd
       \/ odd < MaxOdd /\ intr' = "odd" /\ odd' = odd + 1
    /\ UNCHANGED <<sdque, pc, cpu, flag, tail, done, active, stopped, clash, raced>>

popped == Tail(sdque)

\* The request at the front is finished, and the next one is started.
finished(t) ==
    /\ done' = [done EXCEPT ![t] = TRUE]
    /\ pc' = [pc EXCEPT ![t] = IF @ = "sleep" THEN "test" ELSE @]
    /\ sdque' = popped
    /\ IF popped = <<>>
       THEN active' = None /\ UNCHANGED <<stopped, clash>>
       ELSE sd_start(Head(popped), None, "none")
    /\ raced' = (raced \/ Linking \/ pc[t] = "lock")

\* sd_intr, on a CPU that is not in the kernel: the request at the front is
\* finished, or started again; an interrupt without a data flag stops the kernel.
\* (With an empty queue the handler changes nothing, not even the interrupt.)
sd_intr ==
    /\ intr # "none"
    /\ Free(Core0)
    /\ sdque # <<>>
    /\ \/ /\ intr = "done" /\ intr' = "none"
          /\ finished(Head(sdque))
       \/ /\ intr = "odd" /\ intr' = "none"
          /\ sd_start(Head(sdque), None, "none")
          /\ UNCHANGED <<sdque, pc, done, raced>>
       \/ /\ intr = "error" /\ stopped' = TRUE
          /\ UNCHANGED <<sdque, pc, done, active, intr, clash, raced>>
    /\ UNCHANGED <<cpu, flag, tail, odd>>

Step(t) == find_tail(t) \/ buflist_push(t) \/ sdrw_sleep(t) \/ sdrw_test(t)

Next ==
    /\ ~stopped
    /\ \/ \E t \in Thread, c \in Cpu : sdrw(t, c)
       \/ \E t \in Thread : Step(t)
       \/ card_done
       \/ sd_intr

\* Threads go on, the card answers, and the interrupt is taken.
Spec ==
    /\ Init /\ [][Next]_vars
    /\ \A t \in Thread : WF_vars(~stopped /\ Step(t))
    /\ WF_vars(~stopped /\ card_done) /\ SF_vars(~stopped /\ sd_intr)
-----------------------------------------------------------------------------
\* A request is given to the card only when the card has finished the one
\* before (sd_start: "Ensure that any data operation has completed before
\* doing the transfer"), on any number of CPUs, unless sdrw's unlocked look at the
\* queue was overtaken.
OneRequestAtATime == clash => raced

\* The interrupt handler takes the answer of the card for the request at the
\* front of the queue; it is the request the card was given, under the same
\* condition.
AnswerIsForFront == active # None /\ ~raced => active = buflist_front

\* Every request is answered, under the same condition: sdrw returns, if the
\* kernel is not stopped.
SdrwReturns == \A t \in Thread : pc[t] = "push" ~> (pc[t] = "idle" \/ raced \/ stopped)
=============================================================================
