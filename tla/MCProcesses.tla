---------------------------- MODULE MCProcesses ------------------------------
(* Two CPUs.  The table has three entries and there are more pids than       *)
(* entries, so that entries are used again.                                  *)
EXTENDS Processes, TLC

CONSTANTS c1, c2

MCCpu == {c1, c2}
MCSymmetry == Permutations(MCCpu)
=============================================================================
