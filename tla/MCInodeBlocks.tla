--------------------------- MODULE MCInodeBlocks -----------------------------
(***************************************************************************)
(* One file, opened twice: short of its block of addresses, or of 64 KiB.  *)
(* Writes of six or seven blocks, and one longer than the log.  A root     *)
(* whose block is one entry short of full, or full.                        *)
(***************************************************************************)
EXTENDS InodeBlocks, TLC

CONSTANTS o1, o2

MCOpen == {o1, o2}
MCCount == {3000, 40000}
MCRootEntries == {31, 32}
MCImageSize == {6000, 63000}
MCSymmetry == Permutations(MCOpen)
=============================================================================
