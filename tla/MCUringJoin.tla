----------------------------- MODULE MCUringJoin -----------------------------
(* Small instances of UringJoin. *)
EXTENDS UringJoin, TLC

CONSTANTS k1, k2

Symmetric == Permutations(Conns)
=============================================================================
