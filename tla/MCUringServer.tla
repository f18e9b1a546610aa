---------------------------- MODULE MCUringServer ----------------------------
(* Small instances of UringServer. *)
EXTENDS UringServer, TLC

CONSTANTS k1, k2, k3

Symmetric == Permutations(Conns)
=============================================================================
