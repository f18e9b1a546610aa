--------------------------- MODULE MCUringSession ---------------------------
(* Small instances of UringSession. *)
EXTENDS UringSession, TLC

CONSTANTS c1, c2

OneEach == [c \in Clients |-> 1]
TwoAndOne == (c1 :> 2) @@ (c2 :> 1)

Symmetric == Permutations(Clients)
=============================================================================
