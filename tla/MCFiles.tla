------------------------------ MODULE MCFiles --------------------------------
(* Two processes on two CPUs, one file in the root, room for two new inodes. *)
EXTENDS Files, TLC

CONSTANTS p1, p2, c0, c1

MCProc == {p1, p2}
MCCpu == {c0, c1}
MCCpus == Permutations(MCCpu)
MCCall == {"open", "creat", "mkdir", "mknod", "chdir"}
MCImage == [f |-> 2]
MCPath == {[abs |-> TRUE, elems |-> <<"d">>], [abs |-> FALSE, elems |-> <<"d", "f">>]}
=============================================================================
