---- MODULE MCDmHistory ----
(* Instances of DmHistory for TLC. *)
EXTENDS DmHistory

\* Neighbours in the order of keys, across a carry and at the largest value.
ThreeConversations == {<<0, 2>>, <<1, 0>>, <<2, 2>>}
====
