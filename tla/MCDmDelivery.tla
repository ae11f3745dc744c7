---- MODULE MCDmDelivery ----
(* alice and bob, with one application thread at bob and one or more at alice. *)
EXTENDS DmDelivery, TLC

CONSTANTS alice, bob, tb

MCPeer == [n \in Nodes |-> IF n = alice THEN bob ELSE alice]
FromAlice == [m \in Msgs |-> alice]
MCHome == [t \in AppThreads |-> IF t = tb THEN bob ELSE alice]

\* The threads of one node are interchangeable.
Symmetry == Permutations({t \in AppThreads : MCHome[t] = alice})
====
