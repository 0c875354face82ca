---------------------------- MODULE MCBlockCache -----------------------------
(* Three threads on three blocks with a cache for two.                      *)
EXTENDS BlockCache, TLC

CONSTANTS t1, t2, t3, b1, b2, b3, s1, s2, s3

MCThread == {t1, t2, t3}
MCBlock == {b1, b2, b3}
MCSlot == {s1, s2, s3}
MCSymmetry ==
    Permutations(MCThread) \cup Permutations(MCBlock) \cup Permutations(MCSlot)
=============================================================================
