------------------------------ MODULE MCMemory -------------------------------
(* Two processes on two CPUs, and few enough pages to run out of them. *)
EXTENDS Memory, TLC

CONSTANTS p1, p2, c0, c1, a1, a2

MCProc == {p1, p2}
MCCpu == {c0, c1}
MCPage == {a1, a2}
MCSymmetry == Permutations(MCCpu) \cup Permutations(MCPage)
=============================================================================
