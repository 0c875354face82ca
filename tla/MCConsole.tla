------------------------------ MODULE MCConsole ------------------------------
(***************************************************************************)
(* Console for TLC: two readers and a ring of three characters, which is   *)
(* passed round more than twice.                                           *)
(***************************************************************************)
EXTENDS Console, TLC

CONSTANTS r1, r2

MCReader == {r1, r2}

Symmetry == Permutations(MCReader)
=============================================================================
