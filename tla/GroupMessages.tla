---- MODULE GroupMessages ----
(***************************************************************************)
(* The messages of one group at one node (the second half of group/mod.rs):*)
(* the "group_msg:" keys of CF_GROUPS.  The functions take &Arc<ZeroDb>,   *)
(* so any number of threads run them at once; each database access is one  *)
(* step, and so is each of the two clock reads of send_message.            *)
(*                                                                         *)
(* A message id is a number: its quotient by IdsPerMs is the millisecond a *)
(* UUIDv7 starts with, the remainder its counter and random bits, so that  *)
(* the order of ids is the byte order of the code.  The manifest is reduced*)
(* to what these functions read of it, its epoch and its members.          *)
(***************************************************************************)
EXTENDS Integers, Sequences, FiniteSets, SequencesExt

CONSTANTS
    Threads,        \* threads that use the message functions
    Identities,     \* senders
    MaxTime,        \* bound on the clock, in milliseconds
    IdsPerMs,       \* bound on the ids that one millisecond can give
    Inbound,        \* the messages other nodes send, with their ids
    Marked,         \* bound: the messages that are marked or have receipts arrive
    MaxEpoch,       \* bound on the epochs of the manifest
    MaxReceipts,    \* bound on the receipts made for one message and status
    NoMessage,      \* CF_GROUPS has no value under the key
    NoCall          \* the thread is between calls

Ids == IdsPerMs .. (MaxTime + 1) * IdsPerMs - 1
Millis(id) == id \div IdsPerMs

GroupMessageStatus == {"Sent", "Delivered", "Read"}

GroupMessage == [sender : Identities, mls_epoch : 1 .. MaxEpoch,
                 created_at : 1 .. MaxTime + 1, status : GroupMessageStatus]

ASSUME MessageConstants ==
    /\ MaxTime \in Nat \ {0} /\ IdsPerMs \in Nat \ {0} /\ MaxEpoch \in Nat \ {0}
    /\ MaxReceipts \in Nat
    /\ Marked \subseteq Ids
    /\ \A m \in Inbound : /\ m.id \in Ids
                          /\ m.msg \in GroupMessage
                          /\ m.msg.status = "Sent"
                          /\ m.msg.created_at >= Millis(m.id)
    /\ \A m, n \in Inbound : m.id = n.id => m = n

VARIABLES
    epoch,      \* 1 + mls_epoch of the persisted manifest, 0 when there is none
    members,    \* its members
    loadable,   \* epochs of the manifests that a change under way may have loaded
    roll,       \* history: roll[e], the members of the manifests of epoch e
    store,      \* store[id]: the message persisted under the id
    now,        \* the clock that now_v7 and now_ms read
    last_id,    \* the id now_v7 returned last in this process
    call,       \* call[t]: what thread t is in the middle of
    receipts,   \* receipts[id][s]: how often mark_status returned one
    raced       \* history: ids whose put replaced what its call had not read

manifestVars == <<epoch, members, loadable, roll>>
vars == <<manifestVars, store, now, last_id, call, receipts, raced>>

Call ==
    [pc : {"now_v7"}, sender : Identities, mls_epoch : 1 .. MaxEpoch]
    \cup [pc : {"now_ms"}, id : Ids, sender : Identities, mls_epoch : 1 .. MaxEpoch]
    \cup [pc : {"put"}, id : Ids, msg : GroupMessage,
          read : GroupMessage \cup {NoMessage}, emit : BOOLEAN]

ASSUME NoneIsNone == NoMessage \notin GroupMessage /\ NoCall \notin Call

\* Every variable has its type.
TypeOK ==
    /\ epoch \in 0 .. MaxEpoch
    /\ members \subseteq Identities
    /\ loadable \subseteq 0 .. MaxEpoch
    /\ roll \in [1 .. MaxEpoch -> SUBSET Identities]
    /\ store \in [Ids -> GroupMessage \cup {NoMessage}]
    /\ now \in 1 .. MaxTime
    /\ last_id \in Ids \cup {0}
    /\ call \in [Threads -> Call \cup {NoCall}]
    /\ receipts \in [Ids -> [{"Delivered", "Read"} -> 0 .. MaxReceipts]]
    /\ raced \subseteq Ids

Init ==
    /\ epoch = 0
    /\ members = {}
    /\ loadable = {0}
    /\ roll = [e \in 1 .. MaxEpoch |-> {}]
    /\ store = [id \in Ids |-> NoMessage]
    /\ now = 1
    /\ last_id = 0
    /\ call = [t \in Threads |-> NoCall]
    /\ receipts = [id \in Ids |-> [s \in {"Delivered", "Read"} |-> 0]]
    /\ raced = {}

----------------------------------------------------------------------------

\* A call that returns without writing (GroupNotFound, NotAMember, Ok(false),
\* None) leaves everything as it was and is no step of the model.

Continue(t, c) == call' = [call EXCEPT ![t] = c]

\* The put_raw of create_group, add_member, remove_member, promote and demote as
\* these functions see it (GroupService models them in full): the epoch after the
\* one that was loaded, which may have been replaced since, so that manifests of
\* one epoch with different members can follow each other.
CommitEpoch(e, new) ==
    /\ e \in loadable /\ e < MaxEpoch
    /\ e = 0 => epoch = 0
    /\ epoch' = e + 1
    /\ members' = new
    /\ loadable' = loadable \cup {e + 1}
    /\ roll' = [roll EXCEPT ![e + 1] = @ \cup new]
    /\ UNCHANGED <<store, now, last_id, call, receipts, raced>>

\* send_message: get_manifest and the check that the sender is a member.
send_message(t, sender) ==
    /\ call[t] = NoCall
    /\ epoch # 0 /\ sender \in members
    /\ Continue(t, [pc |-> "now_v7", sender |-> sender, mls_epoch |-> epoch])
    /\ UNCHANGED <<manifestVars, store, now, last_id, receipts, raced>>

\* send_message: Uuid::now_v7(), unique, and increasing within one process.
now_v7(t) ==
    /\ call[t] # NoCall /\ call[t].pc = "now_v7"
    /\ \E id \in Ids \ {m.id : m \in Inbound} :
        /\ Millis(id) = now /\ id > last_id /\ store[id] = NoMessage
        /\ last_id' = id
        /\ Continue(t, [pc |-> "now_ms", id |-> id, sender |-> call[t].sender,
                        mls_epoch |-> call[t].mls_epoch])
    /\ UNCHANGED <<manifestVars, store, now, receipts, raced>>

\* Mutant: the message names the epoch of the moment, read again.
now_ms_M(t) ==
    /\ call[t] # NoCall /\ call[t].pc = "now_ms"
    /\ Continue(t, [pc |-> "put", id |-> call[t].id, emit |-> FALSE, read |-> NoMessage,
                    msg |-> [sender     |-> call[t].sender,
                             mls_epoch  |-> epoch,
                             created_at |-> now,
                             status     |-> "Sent"]])
    /\ UNCHANGED <<manifestVars, store, now, last_id, receipts, raced>>

\* send_message: now_ms() and the message that is about to be stored.
now_ms(t) ==
    /\ call[t] # NoCall /\ call[t].pc = "now_ms"
    /\ Continue(t, [pc |-> "put", id |-> call[t].id, emit |-> FALSE, read |-> NoMessage,
                    msg |-> [sender     |-> call[t].sender,
                             mls_epoch  |-> call[t].mls_epoch,
                             created_at |-> now,
                             status     |-> "Sent"]])
    /\ UNCHANGED <<manifestVars, store, now, last_id, receipts, raced>>

\* Mutant: a message that is already stored is stored again.
receive_message_M(t, m) ==
    /\ call[t] = NoCall
    /\ epoch # 0
    /\ Continue(t, [pc |-> "put", id |-> m.id, msg |-> m.msg,
                    read |-> store[m.id], emit |-> FALSE])
    /\ UNCHANGED <<manifestVars, store, now, last_id, receipts, raced>>

\* receive_message: get_manifest and the deduplicating get_raw.
receive_message(t, m) ==
    /\ call[t] = NoCall
    /\ epoch # 0 /\ store[m.id] = NoMessage
    /\ Continue(t, [pc |-> "put", id |-> m.id, msg |-> m.msg,
                    read |-> store[m.id], emit |-> FALSE])
    /\ UNCHANGED <<manifestVars, store, now, last_id, receipts, raced>>

rank == [s \in GroupMessageStatus |->
            CASE s = "Sent" -> 0 [] s = "Delivered" -> 1 [] s = "Read" -> 2]

\* Mutant: a transition to the same status counts as forward.
is_forward_transition_M(current, new) == rank[new] >= rank[current]

is_forward_transition(current, new) == rank[new] > rank[current]

\* The get_raw of process_receipt.  emit says that the caller wants a receipt
\* for the change.
Advance(t, id, status, emit) ==
    /\ call[t] = NoCall
    /\ store[id] # NoMessage
    /\ is_forward_transition(store[id].status, status)
    /\ Continue(t, [pc |-> "put", id |-> id, emit |-> emit, read |-> store[id],
                    msg |-> [store[id] EXCEPT !.status = status]])
    /\ UNCHANGED <<manifestVars, store, now, last_id, receipts, raced>>

process_receipt(t, id, status) == Advance(t, id, status, FALSE)

\* mark_delivered and mark_read, through mark_status: a receipt to send on when
\* process_receipt changed the status.
mark_status(t, id, status) ==
    /\ status \in {"Delivered", "Read"}
    /\ receipts[id][status] < MaxReceipts
    /\ Advance(t, id, status, TRUE)

\* put_raw, the last step of every function that writes.
put(t) ==
    /\ call[t] # NoCall /\ call[t].pc = "put"
    /\ LET c == call[t] IN
        /\ store' = [store EXCEPT ![c.id] = c.msg]
        /\ IF c.emit /\ receipts[c.id][c.msg.status] < MaxReceipts
           THEN receipts' = [receipts EXCEPT ![c.id][c.msg.status] = @ + 1]
           ELSE UNCHANGED receipts
        /\ raced' = IF c.read = store[c.id] THEN raced ELSE raced \cup {c.id}
        /\ Continue(t, NoCall)
    /\ UNCHANGED <<manifestVars, now, last_id>>

Tick ==
    /\ now < MaxTime
    /\ now' = now + 1
    /\ UNCHANGED <<manifestVars, store, last_id, call, receipts, raced>>

\* The process stops and calls in progress are lost.  Being started again takes
\* it more than a millisecond, so its next ids are larger although the counter
\* that orders the ids of one millisecond starts anew.
Crash ==
    /\ \E t \in Threads : call[t] # NoCall
    /\ now < MaxTime
    /\ now' = now + 1
    /\ call' = [t \in Threads |-> NoCall]
    /\ loadable' = {epoch}
    /\ UNCHANGED <<epoch, members, roll, store, last_id, receipts, raced>>

Next ==
    \/ \E e \in 0 .. MaxEpoch, new \in SUBSET Identities : CommitEpoch(e, new)
    \/ \E t \in Threads :
        \/ \E sender \in Identities : send_message(t, sender)
        \/ now_v7(t)
        \/ now_ms(t)
        \/ \E m \in Inbound : receive_message(t, m)
        \/ \E id \in Marked, status \in GroupMessageStatus :
            process_receipt(t, id, status) \/ mark_status(t, id, status)
        \/ put(t)
    \/ Tick
    \/ Crash

Spec == Init /\ [][Next]_vars

----------------------------------------------------------------------------
(* Reading *)

\* The order list_messages sorts in: newest first, ties by id downwards.
Before(m, n) ==
    \/ store[m].created_at > store[n].created_at
    \/ store[m].created_at = store[n].created_at /\ m > n

\* Mutant: the oldest come first, so the cursor points the wrong way.
list_messages_M(before, limit) ==
    LET found == {id \in Ids : store[id] # NoMessage /\ id < before}
        sorted == CHOOSE s \in SetToSeqs(found) :
                      \A i, j \in DOMAIN s : i < j => Before(s[j], s[i])
    IN  IF Len(sorted) > limit THEN SubSeq(sorted, 1, limit) ELSE sorted

\* list_messages: the ids below the cursor, sorted, at most limit of them.  A
\* cursor above every id stands for None.
list_messages(before, limit) ==
    LET found == {id \in Ids : store[id] # NoMessage /\ id < before}
        sorted == CHOOSE s \in SetToSeqs(found) :
                      \A i, j \in DOMAIN s : i < j => Before(s[i], s[j])
    IN  IF Len(sorted) > limit THEN SubSeq(sorted, 1, limit) ELSE sorted

NoCursor == (MaxTime + 1) * IdsPerMs

----------------------------------------------------------------------------
(* Properties *)

Stored == {id \in Ids : store[id] # NoMessage}
Sent(id) == id \notin {m.id : m \in Inbound}

\* send_message: "The sender must be a current member."  Whatever changes of the
\* manifest are persisted between the check and the write, a message this node
\* sent names an epoch in which its sender was a member: of two manifests of one
\* epoch, persisted by changes that loaded the same one, of one at least.
SentByMemberOfEpoch ==
    \A id \in Stored : Sent(id) => store[id].sender \in roll[store[id].mls_epoch]

\* process_receipt moves a status "forward-only (Sent -> Delivered -> Read)",
\* and receiving a message again is a no-op: only the write of a call that read
\* the message before another call's write takes it back to an earlier status.
StatusForward ==
    [][\A id \in Stored :
          id \in raced' \/ rank[store'[id].status] >= rank[store[id].status]]_vars

\* mark_delivered and mark_read hand out one receipt for a message, however
\* often they are called, whatever receipts arrive in between and whatever
\* crashes, as long as no two calls raced for the message.
ReceiptOnce ==
    \A id \in Ids \ raced, s \in {"Delivered", "Read"} : receipts[id][s] =< 1

\* "UUIDv7 ids are time-ordered, so this provides natural pagination": a reader
\* who goes on before the last message of a page misses nothing, although the
\* page is ordered by one reading of the clock and the cursor by another.  What
\* it may miss, it misses below a message whose send_message took the two
\* readings in different milliseconds.
PagesSkipNothing ==
    \A before \in Stored \cup {NoCursor}, limit \in 1 .. Cardinality(Stored) :
        LET page == list_messages(before, limit)
            cursor == page[Len(page)]
            rest == ToSet(list_messages(cursor, Cardinality(Ids)))
        IN  page # <<>> /\ store[cursor].created_at = Millis(cursor) =>
                {id \in Stored : id < before} \subseteq ToSet(page) \cup rest
====
