---- MODULE DmService ----
(***************************************************************************)
(* Direct messages inside one node (zero-messaging, dm/): the calls of     *)
(* DmService, made by application threads, and DmReceiver's loop, over the *)
(* node's conversation, message index and outbox.                          *)
(*                                                                         *)
(* Two nodes hold the one conversation their pair of identities derives.   *)
(* Every access to the database that another caller of the node could      *)
(* tell apart is a step of its own; the rest of a call goes with the       *)
(* access before it.  A call that fails its checks returns an error and    *)
(* writes nothing: its action is not enabled.  Outbox::enqueue is one step *)
(* here, module Outbox takes it apart.                                     *)
(***************************************************************************)
EXTENDS Integers, Sequences, FiniteSets, Functions

CONSTANTS
    Nodes, Peer,        \* the two nodes, and the other one of each
    Msgs, Author,       \* message ids, and the node that mints each
    AppThreads, Home,   \* application threads, and the node each runs on
    KnownPeers,         \* nodes that have their peer as a contact
    OUTBOX_CAPACITY,
    DEDUPE_CAPACITY,
    NoConversation,     \* no conversation is stored
    NoSector,           \* last_sector: None
    NoCall              \* the caller is between calls

ASSUME DmConstants ==
    /\ IsFiniteSet(Nodes)
    /\ Peer \in [Nodes -> Nodes]
    /\ \A n \in Nodes : Peer[n] # n /\ Peer[Peer[n]] = n /\ Nodes = {n, Peer[n]}
    /\ IsFiniteSet(Msgs)
    /\ Author \in [Msgs -> Nodes]
    /\ AppThreads \cap Nodes = {}
    /\ Home \in [AppThreads -> Nodes]
    /\ KnownPeers \subseteq Nodes
    /\ OUTBOX_CAPACITY \in Nat \ {0}
    /\ DEDUPE_CAPACITY \in Nat \ {0}
    /\ NoConversation \notin Msgs \cup {NoSector}
    /\ NoSector \notin Msgs

\* MessageStatus with its derived order; NoMessage: nothing under the key.
NoMessage == 0
Queued    == 1
Sent      == 2
Delivered == 3
Read      == 4
MessageStatus == Queued .. Read

\* Mutant: only repetitions are refused.
is_valid_transition_M(from, to) == to # from

\* Mutant: no status may be skipped.
is_valid_transition_Step(from, to) == to = from + 1

is_valid_transition(from, to) == to > from

\* What the outbox and the network carry: zero.dm.v1 payloads, tagged Queued,
\* and zero.receipt.v1 payloads with the status they report.
Sector == [msg : Msgs, status : {Queued, Delivered, Read}]
DmSector(m) == [msg |-> m, status |-> Queued]
Receipt(m, st) == [msg |-> m, status |-> st]

\* The receive loop of a node is the caller named after the node.
Callers == AppThreads \cup Nodes
NodeOf == [c \in Callers |-> IF c \in Nodes THEN c ELSE Home[c]]

\* pc names the next database access: "open" and "in_open" put a new
\* conversation, "enqueue" and "save" are the rest of send_text, "put" the rest
\* of update_status, "put_read" and "put_emit" the same inside mark_read and
\* mark_read_and_emit, "in_store" and "receipt" the rest of process_inbound_dm.
Call == [pc : {"open", "enqueue", "save", "put", "put_read", "put_emit", "receipt",
               "in_open", "in_store"},
         msg : Msgs \cup {NoSector}, status : MessageStatus]

ASSUME NoCallIsNoDmCall == NoCall \notin Call

VARIABLES
    conv,       \* conv[n]: last_sector of n's conversation (by its message)
    status,     \* status[n][m]: status of m in n's message index
    outbox,     \* outbox[n][s]: how many entries of n's outbox carry s
    seen,       \* seen[n]: the dedupe cache, least recently marked first
    looping,    \* looping[n]: n's receive loop is subscribed
    call,       \* call[c]: what caller c is in the middle of
    queued,     \* history: messages whose sector was put into an outbox
    read,       \* history: messages the recipient stored as Read
    own         \* history: messages their own author marked as read

dmVars == <<conv, status, outbox, seen, looping, call, queued, read, own>>

DmTypeOK ==
    /\ conv \in [Nodes -> Msgs \cup {NoSector, NoConversation}]
    /\ status \in [Nodes -> [Msgs -> MessageStatus \cup {NoMessage}]]
    /\ outbox \in [Nodes -> [Sector -> Nat]]
    /\ seen \in [Nodes -> Seq(Msgs)]
    /\ \A n \in Nodes : Len(seen[n]) =< DEDUPE_CAPACITY
    /\ looping \in [Nodes -> BOOLEAN]
    /\ call \in [Callers -> Call \cup {NoCall}]
    /\ queued \subseteq Msgs
    /\ read \subseteq Msgs
    /\ own \subseteq Msgs

DmInit ==
    /\ conv = [n \in Nodes |-> NoConversation]
    /\ status = [n \in Nodes |-> [m \in Msgs |-> NoMessage]]
    /\ outbox = [n \in Nodes |-> [s \in Sector |-> 0]]
    /\ seen = [n \in Nodes |-> <<>>]
    /\ looping = [n \in Nodes |-> TRUE]
    /\ call = [c \in Callers |-> NoCall]
    /\ queued = {}
    /\ read = {}
    /\ own = {}

----------------------------------------------------------------------------
(* Helpers *)

Begin(c, pc, m, st) ==
    /\ call[c] = NoCall
    /\ call' = [call EXCEPT ![c] = [pc |-> pc, msg |-> m, status |-> st]]

At(c, pcs) == call[c] # NoCall /\ call[c].pc \in pcs
Continue(c, pc) == call' = [call EXCEPT ![c].pc = pc]
Return(c) == call' = [call EXCEPT ![c] = NoCall]

Count(n) == FoldFunction(LAMBDA x, y : x + y, 0, outbox[n])
OutboxFull(n) == Count(n) >= OUTBOX_CAPACITY
Enqueued(n, s) == [outbox EXCEPT ![n][s] = @ + 1]

----------------------------------------------------------------------------
(* Conversations *)

\* open_conversation: the contact and the conversation are looked up; one that
\* exists is returned as it is.
open_conversation(t) ==
    /\ Home[t] \in KnownPeers
    /\ conv[Home[t]] = NoConversation
    /\ Begin(t, "open", NoSector, Queued)
    /\ UNCHANGED <<conv, status, outbox, seen, looping, queued, read, own>>

\* Its put_raw of a conversation with no last_sector, for an application
\* thread or inside process_inbound_dm.
put_conversation(c) ==
    /\ At(c, {"open", "in_open"})
    /\ conv' = [conv EXCEPT ![NodeOf[c]] = NoSector]
    /\ IF c \in Nodes THEN Continue(c, "in_store") ELSE Return(c)
    /\ UNCHANGED <<status, outbox, seen, looping, queued, read, own>>

----------------------------------------------------------------------------
(* Sending *)

\* Mutant: the message is not stored before its sector is enqueued.
send_text_Unstored(t, m) ==
    /\ conv[Home[t]] # NoConversation
    /\ Author[m] = Home[t]
    /\ m \notin queued
    /\ Begin(t, "enqueue", m, Queued)
    /\ UNCHANGED <<conv, status, outbox, seen, looping, queued, read, own>>

\* send_text: resume_conversation, a fresh message id, store_message.
send_text(t, m) ==
    /\ conv[Home[t]] # NoConversation
    /\ Author[m] = Home[t]
    /\ status[Home[t]][m] = NoMessage
    /\ Begin(t, "enqueue", m, Queued)
    /\ status' = [status EXCEPT ![Home[t]][m] = Queued]
    /\ UNCHANGED <<conv, outbox, seen, looping, queued, read, own>>

\* Mutant: an error of outbox.enqueue is ignored.
enqueue_M(t) ==
    /\ At(t, {"enqueue"})
    /\ Continue(t, "save")
    /\ \/ OutboxFull(Home[t]) /\ UNCHANGED <<outbox, queued>>
       \/ /\ ~OutboxFull(Home[t])
          /\ outbox' = Enqueued(Home[t], DmSector(call[t].msg))
          /\ queued' = queued \cup {call[t].msg}
    /\ UNCHANGED <<conv, status, seen, looping, read, own>>

\* outbox.enqueue(entry)?: when the outbox is full the stored message stays.
enqueue(t) ==
    /\ At(t, {"enqueue"})
    /\ \/ /\ OutboxFull(Home[t])
          /\ Return(t)
          /\ UNCHANGED <<outbox, queued>>
       \/ /\ ~OutboxFull(Home[t])
          /\ Continue(t, "save")
          /\ outbox' = Enqueued(Home[t], DmSector(call[t].msg))
          /\ queued' = queued \cup {call[t].msg}
    /\ UNCHANGED <<conv, status, seen, looping, read, own>>

\* save_conversation with the new last_sector.
save_conversation(t) ==
    /\ At(t, {"save"})
    /\ conv' = [conv EXCEPT ![Home[t]] = call[t].msg]
    /\ Return(t)
    /\ UNCHANGED <<status, outbox, seen, looping, queued, read, own>>

----------------------------------------------------------------------------
(* Status changes *)

Accepts(t, m, new) ==
    /\ status[Home[t]][m] # NoMessage
    /\ is_valid_transition(status[Home[t]][m], new)

\* update_status up to its write: the message is read and the transition
\* checked.  acknowledge_sent, process_receipt and mark_read are calls of it.
update_status(t, m, new, pc) ==
    /\ Accepts(t, m, new)
    /\ Begin(t, pc, m, new)
    /\ UNCHANGED <<conv, status, outbox, seen, looping, queued, read, own>>

\* Its store_message of the updated copy, whatever is stored by then.
put_status(t) ==
    LET m == call[t].msg
        byAuthor == Author[m] = Home[t]
    IN  /\ At(t, {"put", "put_read", "put_emit"})
        /\ status' = [status EXCEPT ![Home[t]][m] = call[t].status]
        /\ read' = IF ~byAuthor /\ call[t].status = Read THEN read \cup {m} ELSE read
        /\ own' = IF byAuthor /\ call[t].pc # "put" THEN own \cup {m} ELSE own
        /\ IF call[t].pc = "put_emit" THEN Continue(t, "receipt") ELSE Return(t)
        /\ UNCHANGED <<conv, outbox, seen, looping, queued>>

\* mark_read returns the receipt to its caller, mark_read_and_emit enqueues it.
\* Neither asks whose message it is: an author may mark its own.
mark_read(t, m) ==
    \E pc \in {"put_read", "put_emit"} : update_status(t, m, Read, pc)

\* enqueue_receipt, the last step of mark_read_and_emit and of
\* process_inbound_dm; the loop ignores a full outbox.
enqueue_receipt(c) ==
    /\ At(c, {"receipt"})
    /\ outbox' = IF OutboxFull(NodeOf[c]) THEN outbox
                 ELSE Enqueued(NodeOf[c], Receipt(call[c].msg, call[c].status))
    /\ Return(c)
    /\ UNCHANGED <<conv, status, seen, looping, queued, read, own>>

----------------------------------------------------------------------------
(* Receiving *)

\* DedupeCache::seen and DedupeCache::mark; equal bytes have equal ids.  The
\* loop marks only what is not in the cache, so nothing is ever promoted.
SeenBefore(n, m) == \E i \in DOMAIN seen[n] : seen[n][i] = m

mark(n, m) ==
    LET marked == Append(seen[n], m)
    IN  seen' = [seen EXCEPT ![n] =
            IF Len(marked) > DEDUPE_CAPACITY THEN Tail(marked) ELSE marked]

\* Mutant: the receipt goes out ahead of the message's store.
process_inbound_dm_Early(n, m) ==
    /\ looping[n]
    /\ ~SeenBefore(n, m)
    /\ mark(n, m)
    /\ Begin(n, IF n \in KnownPeers /\ conv[n] = NoConversation
                THEN "in_open" ELSE "in_store", m, Delivered)
    /\ outbox' = Enqueued(n, Receipt(m, Delivered))
    /\ UNCHANGED <<conv, status, looping, queued, read, own>>

\* Mutant: ContactNotFound ends the processing.
process_inbound_dm_Contacts(n, m) ==
    /\ looping[n]
    /\ ~SeenBefore(n, m)
    /\ mark(n, m)
    /\ IF n \notin KnownPeers THEN call[n] = NoCall /\ UNCHANGED call
       ELSE Begin(n, IF conv[n] = NoConversation THEN "in_open" ELSE "in_store",
                  m, Delivered)
    /\ UNCHANGED <<conv, status, outbox, looping, queued, read, own>>

\* One turn of the loop for bytes not seen before: marked first, then
\* process_inbound_dm up to its lookup of the conversation, which needs the
\* sender to be a contact and is passed over otherwise.
process_inbound_dm(n, m) ==
    /\ looping[n]
    /\ ~SeenBefore(n, m)
    /\ mark(n, m)
    /\ Begin(n, IF n \in KnownPeers /\ conv[n] = NoConversation
                THEN "in_open" ELSE "in_store", m, Delivered)
    /\ UNCHANGED <<conv, status, outbox, looping, queued, read, own>>

\* store_message with status Delivered, whatever is stored.
store_message(n) ==
    /\ At(n, {"in_store"})
    /\ status' = [status EXCEPT ![n][call[n].msg] = Delivered]
    /\ Continue(n, "receipt")
    /\ UNCHANGED <<conv, outbox, seen, looping, queued, read, own>>

\* The next turn of the loop for bytes seen before does nothing to the node.
ignore_inbound_dm(n, m) ==
    /\ looping[n]
    /\ call[n] = NoCall
    /\ SeenBefore(n, m)
    /\ UNCHANGED dmVars

\* The stream fails or ends and the loop with it; dropping the loop's handle
\* aborts it at the same place, its only await.
StreamEnds(n) ==
    /\ looping[n]
    /\ call[n] = NoCall
    /\ looping' = [looping EXCEPT ![n] = FALSE]
    /\ UNCHANGED <<conv, status, outbox, seen, call, queued, read, own>>

start_receive_loop(n) ==
    /\ ~looping[n]
    /\ looping' = [looping EXCEPT ![n] = TRUE]
    /\ UNCHANGED <<conv, status, outbox, seen, call, queued, read, own>>

\* The node's process stops anywhere and comes back with its database only.
Restart(n) ==
    /\ call' = [c \in Callers |-> IF NodeOf[c] = n THEN NoCall ELSE call[c]]
    /\ seen' = [seen EXCEPT ![n] = <<>>]
    /\ looping' = [looping EXCEPT ![n] = FALSE]
    /\ UNCHANGED <<conv, status, outbox, queued, read, own>>
====
