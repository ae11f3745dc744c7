---- MODULE DmDelivery ----
(***************************************************************************)
(* Two nodes exchanging direct messages: DmService on each, the outboxes   *)
(* driven by a publisher, and the network between them.                    *)
(*                                                                         *)
(* The repository leaves to the application what joins these parts: taking *)
(* sectors from the outbox to GridClient::publish and removing them,       *)
(* calling acknowledge_sent, and handing receipts to process_receipt.      *)
(* That glue follows the retry pump's publish-then-remove order and the    *)
(* steps of tests/dm_e2e.rs; module RetryPump has the pump in detail.      *)
(* The network is the in-memory broker with its faults: a sector published *)
(* while nobody is subscribed is gone, and sectors may be dropped,         *)
(* duplicated, delayed and so reordered.                                   *)
(***************************************************************************)
EXTENDS DmService

CONSTANTS
    Restartable,    \* nodes whose process may stop and come back
    MaxRestarts,    \* bound: how often, over all nodes
    MaxFaults       \* bound: drops, duplicates, abandoned sectors, dead streams

ASSUME DeliveryConstants ==
    /\ Restartable \subseteq Nodes
    /\ MaxRestarts \in Nat
    /\ MaxFaults \in Nat

VARIABLES
    inhand,     \* inhand[n]: the sector published and not yet removed
    acked,      \* acked[n]: own messages published, acknowledge_sent to come
    net,        \* net[n]: sectors on their way to n
    faults,
    restarts

glueVars == <<inhand, acked, net, faults, restarts>>
vars == <<dmVars, glueVars>>

TypeOK ==
    /\ DmTypeOK
    /\ inhand \in [Nodes -> Sector \cup {NoSector}]
    /\ acked \in [Nodes -> SUBSET Msgs]
    /\ net \in [Nodes -> SUBSET Sector]
    /\ faults \in 0 .. MaxFaults
    /\ restarts \in 0 .. MaxRestarts

Init ==
    /\ DmInit
    /\ inhand = [n \in Nodes |-> NoSector]
    /\ acked = [n \in Nodes |-> {}]
    /\ net = [n \in Nodes |-> {}]
    /\ faults = 0
    /\ restarts = 0

IsReceipt(s) == s.status # Queued

Fault == faults < MaxFaults /\ faults' = faults + 1

----------------------------------------------------------------------------
(* The publisher of node n *)

\* client.publish answers Ok: the broker passes the sector to the subscribers
\* of the moment, or drops it.
Publish(n, s) ==
    /\ inhand[n] = NoSector
    /\ outbox[n][s] > 0
    /\ inhand' = [inhand EXCEPT ![n] = s]
    /\ \/ /\ net' = IF IsReceipt(s) \/ looping[Peer[n]]
                    THEN [net EXCEPT ![Peer[n]] = @ \cup {s}] ELSE net
          /\ UNCHANGED faults
       \/ /\ Fault
          /\ UNCHANGED net
    /\ UNCHANGED <<dmVars, acked, restarts>>

\* After a publish that answered Ok, the entry is removed.
RemovePublished(n) ==
    /\ inhand[n] # NoSector
    /\ inhand' = [inhand EXCEPT ![n] = NoSector]
    /\ outbox' = [outbox EXCEPT ![n][inhand[n]] = @ - 1]
    /\ acked' = IF IsReceipt(inhand[n]) THEN acked
                ELSE [acked EXCEPT ![n] = @ \cup {inhand[n].msg}]
    /\ UNCHANGED <<conv, status, seen, looping, call, queued, read, own>>
    /\ UNCHANGED <<net, faults, restarts>>

\* Every attempt failed: the entry is removed without having been published.
Abandon(n, s) ==
    /\ inhand[n] = NoSector
    /\ outbox[n][s] > 0
    /\ Fault
    /\ outbox' = [outbox EXCEPT ![n][s] = @ - 1]
    /\ UNCHANGED <<conv, status, seen, looping, call, queued, read, own>>
    /\ UNCHANGED <<inhand, acked, net, restarts>>

----------------------------------------------------------------------------
(* Arrivals at node n *)

\* A sector leaves the network, or stays to arrive again.
Take(n, s) ==
    /\ s \in net[n]
    /\ \/ net' = [net EXCEPT ![n] = @ \ {s}] /\ UNCHANGED faults
       \/ Fault /\ UNCHANGED net

ReceiveDm(n, s) ==
    /\ ~IsReceipt(s)
    /\ Take(n, s)
    /\ process_inbound_dm(n, s.msg) \/ ignore_inbound_dm(n, s.msg)
    /\ UNCHANGED <<inhand, acked, restarts>>

\* The application passes a receipt to process_receipt, which refuses one that
\* is not an advance.
process_receipt(t, s) ==
    /\ IsReceipt(s)
    /\ Take(Home[t], s)
    /\ \/ update_status(t, s.msg, s.status, "put")
       \/ ~Accepts(t, s.msg, s.status) /\ call[t] = NoCall /\ UNCHANGED dmVars
    /\ UNCHANGED <<inhand, acked, restarts>>

\* The caller of mark_read passes the receipt it is returned to the other node;
\* one that does not is put_status by itself.
pass_receipt(t) ==
    /\ At(t, {"put_read"})
    /\ put_status(t)
    /\ net' = [net EXCEPT ![Peer[Home[t]]] = @ \cup {Receipt(call[t].msg, Read)}]
    /\ UNCHANGED <<inhand, acked, faults, restarts>>

\* The application reports a published message to acknowledge_sent.
acknowledge_sent(t, m) ==
    /\ m \in acked[Home[t]]
    /\ acked' = [acked EXCEPT ![Home[t]] = @ \ {m}]
    /\ \/ update_status(t, m, Sent, "put")
       \/ ~Accepts(t, m, Sent) /\ call[t] = NoCall /\ UNCHANGED dmVars
    /\ UNCHANGED <<inhand, net, faults, restarts>>

----------------------------------------------------------------------------
(* The environment *)

\* The subscription ends, with what it had buffered.
Unsubscribed(n) ==
    /\ Fault
    /\ StreamEnds(n)
    /\ net' = [net EXCEPT ![n] = {s \in @ : IsReceipt(s)}]
    /\ UNCHANGED <<inhand, acked, restarts>>

Crash(n) ==
    /\ restarts < MaxRestarts
    /\ restarts' = restarts + 1
    /\ Restart(n)
    /\ inhand' = [inhand EXCEPT ![n] = NoSector]
    /\ acked' = [acked EXCEPT ![n] = {}]
    /\ net' = [net EXCEPT ![n] = {}]
    /\ UNCHANGED faults

----------------------------------------------------------------------------

\* Calls an application may make when it likes.
AppCall(t) ==
    \/ open_conversation(t)
    \/ \E m \in Msgs : send_text(t, m)
    \/ \E m \in Msgs : mark_read(t, m)

\* The rest of a call that has begun.
AppStep(t) ==
    \/ put_conversation(t)
    \/ enqueue(t)
    \/ save_conversation(t)
    \/ put_status(t)
    \/ enqueue_receipt(t)

LoopStep(n) ==
    \/ put_conversation(n)
    \/ store_message(n)
    \/ enqueue_receipt(n)
    \/ start_receive_loop(n)

Local ==
    /\ \/ \E t \in AppThreads : AppCall(t) \/ AppStep(t)
       \/ \E n \in Nodes : LoopStep(n)
    /\ UNCHANGED glueVars

Glue(t) ==
    \/ \E s \in Sector : process_receipt(t, s)
    \/ \E m \in Msgs : acknowledge_sent(t, m)
    \/ pass_receipt(t)

Next ==
    \/ Local
    \/ \E n \in Nodes :
        \/ \E s \in Sector : Publish(n, s) \/ Abandon(n, s) \/ ReceiveDm(n, s)
        \/ RemovePublished(n)
        \/ Unsubscribed(n)
    \/ \E n \in Restartable : Crash(n)
    \/ \E t \in AppThreads : Glue(t)

Spec == Init /\ [][Next]_vars

\* Threads and tasks that have work do it: a call that began goes on, the pump
\* keeps publishing, the stream is polled, the application forwards receipts.
\* Nobody has to send, to read, or to report a message as sent.
Fairness ==
    /\ \A t \in AppThreads :
        WF_vars(AppStep(t) /\ UNCHANGED glueVars)
    /\ \A n \in Nodes :
        /\ WF_vars(LoopStep(n) /\ UNCHANGED glueVars)
        /\ WF_vars(RemovePublished(n))
        /\ WF_vars(\E s \in Sector : Publish(n, s))
        /\ WF_vars(\E s \in Sector : ReceiveDm(n, s))
        /\ WF_vars(\E t \in AppThreads, s \in Sector :
                        Home[t] = n /\ process_receipt(t, s))

FairSpec == Spec /\ Fairness

----------------------------------------------------------------------------
(* Properties *)

Recipient(m) == Peer[Author[m]]

\* What a receipt claims: the recipient has the message, and has read it; or
\* its own author said so.
Claim(m, st) ==
    LET held == status[Recipient(m)][m] # NoMessage
    IN  /\ st = Delivered => held
        /\ st = Read => m \in own \/ (held /\ m \in read)

\* A sender's Delivered or Read is never ahead of the recipient, whatever is
\* lost, repeated, reordered or cut short: process_inbound_dm and
\* mark_read_and_emit write before they enqueue the receipt.  Only an author
\* that calls mark_read on its own message has it Read with no recipient.
NoPhantomReceipts ==
    \A m \in Msgs : Claim(m, status[Author[m]][m])

\* The conversation's last_sector was handed to the outbox: send_text saves it
\* last, so neither a full outbox nor a crash leaves it pointing at a sector
\* that never existed.
LastSectorWasQueued ==
    \A n \in Nodes : conv[n] \in Msgs => conv[n] \in queued

\* The detailed system implements the life of a message that MessageLifecycle
\* describes: whatever is lost, repeated or cut short, each step of a node is a
\* step of that life or changes nothing in it.
Lifecycle == INSTANCE MessageLifecycle WITH
    Absent <- NoMessage, Written <- Queued, Transmitted <- Sent,
    held <- {m \in Msgs : status[Recipient(m)][m] # NoMessage},
    known <- [m \in Msgs |-> status[Author[m]][m]]

\* The recipient holds only messages their author has written, reads only
\* messages it holds, and the author's status follows both.
ImplementsLifecycle == Lifecycle!Spec

\* "Monotonic message delivery status" (MessageStatus), "Advance a message's
\* status monotonically" (update_status).  It needs one application thread per
\* node, since update_status reads and writes without a lock, and a dedupe
\* cache that still knows every duplicate.
Monotonic ==
    [][ \A n \in Nodes, m \in Msgs : status'[n][m] >= status[n][m] ]_vars

\* A message whose sector reached the outbox is stored by the recipient, also
\* when the sender stops between any two steps.
EventuallyStored ==
    \A m \in Msgs : m \in queued ~> status[Recipient(m)][m] # NoMessage

\* ... and a sender that goes on running comes to know it.  One that stops
\* loses the receipts on their way to it, and nobody sends them again.
EventuallyDelivered ==
    \A m \in Msgs :
        m \in queued ~> status[Author[m]][m] >= Delivered \/ restarts > 0
====
