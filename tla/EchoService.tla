----------------------------- MODULE EchoService -----------------------------
(***************************************************************************)
(* What an echo session promises each of its connections: the responses a  *)
(* client gets are those of messages it sent, each at most once, in the    *)
(* order it sent them, and nothing after the connection was closed.  A     *)
(* message the service has accepted is answered in the end, unless the     *)
(* connection is closed first.  Which messages it accepts is its choice;   *)
(* Garbage is an answer to bytes that were no message.                     *)
(***************************************************************************)
EXTENDS Naturals, Sequences

CONSTANTS
    Clients,
    Messages,    \* what clients send, numbered in sending order from 1
    Garbage      \* an answer to bytes that were no message

VARIABLES
    accepted,    \* accepted[c]: the messages of c accepted, in that order
    answered,    \* answered[c]: how many of them have been answered
    open         \* the connections still open

vars == <<accepted, answered, open>>

Init ==
    /\ accepted = [c \in Clients |-> <<>>]
    /\ answered = [c \in Clients |-> 0]
    /\ open = Clients

\* A message is accepted at most once, after all it accepted before.
InOrder(s, m) ==
    m = Garbage \/ \A i \in DOMAIN s : s[i] # Garbage => s[i] < m

Accept(c, m) ==
    /\ c \in open
    /\ InOrder(accepted[c], m)
    /\ accepted' = [accepted EXCEPT ![c] = Append(@, m)]
    /\ UNCHANGED <<answered, open>>

Answer(c) ==
    /\ c \in open
    /\ answered[c] < Len(accepted[c])
    /\ answered' = [answered EXCEPT ![c] = @ + 1]
    /\ UNCHANGED <<accepted, open>>

\* Closing connections gives up what they were still owed.
Close(cs) ==
    /\ cs \subseteq open
    /\ open' = open \ cs
    /\ accepted' = [c \in Clients |->
                       IF c \in cs THEN SubSeq(accepted[c], 1, answered[c])
                                   ELSE accepted[c]]
    /\ UNCHANGED answered

Next ==
    \/ \E c \in Clients, m \in Messages \cup {Garbage} : Accept(c, m)
    \/ \E c \in Clients : Answer(c)
    \/ \E cs \in SUBSET Clients : Close(cs)

Spec == Init /\ [][Next]_vars

Settled(c) == answered[c] = Len(accepted[c])

\* A connection gets every response it is owed, or is closed (the queue's
\* responses leave by handleWrite or by handleClose).
EventuallySettled == \A c \in Clients : ~Settled(c) ~> Settled(c)
=============================================================================
