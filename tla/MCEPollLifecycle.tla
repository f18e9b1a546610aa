-------------------------- MODULE MCEPollLifecycle --------------------------
(* Small instances of EPollLifecycle. *)
EXTENDS EPollLifecycle

CONSTANTS s1, s2
=============================================================================
