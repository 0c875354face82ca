---------------------------- MODULE MCGroupCommit ----------------------------
(* Three threads, one more than the log has entries for, and one block more *)
(* than it can hold.  No symmetry: the run checks liveness.                 *)
EXTENDS GroupCommit

CONSTANTS t1, t2, t3, b1, b2, b3

MCThread == {t1, t2, t3}
MCBlock == {b1, b2, b3}
=============================================================================
