----------------------------- MODULE MCSdDriver ------------------------------
(* Three threads on two CPUs; every kind of card and of controller.          *)
EXTENDS SdDriver

CONSTANTS t1, t2, t3, c0, c1

MCThreads == {t1, t2, t3}
MCCpu == {c0, c1}
MCKinds == {"v1", "v2_sc", "v2_hc"}
MCVersions == {1, 2}

\* raced stays TRUE once it is, and then the properties of the queue hold
\* whatever follows: a state in which it is TRUE is checked and not continued.
NotRaced == ~raced
=============================================================================
