--------------------------- MODULE MCWriteAheadLog ---------------------------
(* Two threads on two blocks with two contents.  An operation may record    *)
(* both blocks; the log has room for both operations.                       *)
EXTENDS WriteAheadLog, TLC

CONSTANTS t1, t2, b1, b2, d1, d2

MCThread == {t1, t2}
MCBlock == {b1, b2}
MCData == {d1, d2}
MCSymmetry == Permutations(MCThread) \cup Permutations(MCBlock) \cup Permutations(MCData)
=============================================================================
