----------------------------- MODULE AtomicDisk ------------------------------
(***************************************************************************)
(* What the block cache promises to file system operations (cache.h, NOTES *)
(* FOR ATOMIC OPERATIONS): an operation is running, then committed, then   *)
(* persisted, and only then end_op returns.  What a restart finds on the   *)
(* disk is the memory image of an instant at which no operation was        *)
(* running, so every operation is on disk either whole or not at all.      *)
(***************************************************************************)
CONSTANTS Thread, Block, Data

VARIABLES
    mem,      \* block contents every thread sees
    durable,  \* block contents a restart would find
    phase     \* where each thread's operation is

vars == <<mem, durable, phase>>

Init ==
    /\ durable \in [Block -> Data]
    /\ mem = durable
    /\ phase = [t \in Thread |-> "idle"]

Begin(t) ==
    /\ phase[t] = "idle"
    /\ phase' = [phase EXCEPT ![t] = "running"]
    /\ UNCHANGED <<mem, durable>>

Write(t, b, d) ==
    /\ phase[t] = "running"
    /\ mem' = [mem EXCEPT ![b] = d]
    /\ UNCHANGED <<durable, phase>>

Commit(t) ==
    /\ phase[t] = "running"
    /\ phase' = [phase EXCEPT ![t] = "committed"]
    /\ UNCHANGED <<mem, durable>>

\* One instant persists all committed operations; none is running.
Persist ==
    /\ \A t \in Thread : phase[t] # "running"
    /\ durable' = mem
    /\ phase' = [t \in Thread |-> IF phase[t] = "committed"
                                  THEN "persisted" ELSE phase[t]]
    /\ UNCHANGED mem

Return(t) ==
    /\ phase[t] = "persisted"
    /\ phase' = [phase EXCEPT ![t] = "idle"]
    /\ UNCHANGED <<mem, durable>>

Crash ==
    /\ mem' = durable
    /\ phase' = [t \in Thread |-> "idle"]
    /\ UNCHANGED durable

Next ==
    \/ \E t \in Thread : Begin(t) \/ Commit(t) \/ Return(t)
    \/ \E t \in Thread, b \in Block, d \in Data : Write(t, b, d)
    \/ Persist
    \/ Crash

Spec == Init /\ [][Next]_vars
=============================================================================
