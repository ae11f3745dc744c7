---- MODULE MCGroupMessages ----
(* Instances of GroupMessages for TLC. *)
EXTENDS GroupMessages, TLC

\* One message from another node, from the second millisecond: an own message
\* may have an earlier id and a later time than it.
PeerSecond ==
    {[id |-> 2 * IdsPerMs, msg |-> [sender |-> CHOOSE i \in Identities : TRUE, mls_epoch |-> 1,
                                    created_at |-> 2, status |-> "Sent"]]}

\* The statuses of that message are followed: no code asks whose message it is.
OfPeer == {m.id : m \in Inbound}

ThreadSymmetry == Permutations(Threads)
====
