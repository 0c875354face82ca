----------------------------- MODULE MCNamexOp -------------------------------
(* One thread is enough: its second operation waits for its first.          *)
EXTENDS NamexOp

CONSTANTS t1, b1

MCThread == {t1}
MCBlock == {b1}
=============================================================================
