---------------------------- MODULE MCSleepLock ------------------------------
(* Two CPUs share four processes that contend for one sleeplock, and an     *)
(* idle one.                                                                *)
EXTENDS SleepLock

CONSTANTS c1, c2

MCCpu == {c1, c2}
=============================================================================
