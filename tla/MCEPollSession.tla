--------------------------- MODULE MCEPollSession ---------------------------
(* Small instances of EPollSession. *)
EXTENDS EPollSession, TLC

CONSTANTS c1, c2, b1, b2, b3

\* The stream of messages of the given sizes, numbered from 1.
Cells(sizes) ==
    LET f[i \in 0..Len(sizes)] ==
            IF i = 0 THEN <<>>
            ELSE f[i - 1] \o <<[msg |-> i, size |-> sizes[i]]>>
                 \o [k \in 1..(sizes[i] - 1) |-> [msg |-> i, size |-> 0]]
    IN f[Len(sizes)]

TwoPool == <<b1, b2>>
ThreePool == <<b1, b2, b3>>

PairStreams == (c1 :> Cells(<<1, 1>>)) @@ (c2 :> Cells(<<1>>))
LongStream == (c1 :> Cells(<<2, 1, 2, 1>>))
MixedStreams == (c1 :> Cells(<<1, 2>>)) @@ (c2 :> Cells(<<2>>))
=============================================================================
