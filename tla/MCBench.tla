------------------------------- MODULE MCBench -------------------------------
(* A small instance of Bench: the default length, whose responses fill the
   buffer, in two pieces; one thread may lag behind the other. *)
EXTENDS Bench

TwoThreads == 0..1
=============================================================================
