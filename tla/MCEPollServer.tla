---------------------------- MODULE MCEPollServer ----------------------------
(* Small instances of EPollServer. *)
EXTENDS EPollServer, TLC

CONSTANTS k1, k2, k3, k4

Symmetric == Permutations(Conns)
=============================================================================
