---- MODULE MessageStoresProofs ----
(***************************************************************************)
(* Safety of the three stores of messages that a node keeps, for any       *)
(* threads, conversations, messages, clocks and page sizes: the group      *)
(* messages (GroupMessages), the inbox index (Inbox) and the history of    *)
(* direct messages (DmHistory).                                            *)
(*                                                                         *)
(* Group messages.  Every function reads, decides and then puts; what it   *)
(* decided from may be gone by then.  The invariant says what a pending    *)
(* put still knows: its sender was a member of the epoch it names, and it  *)
(* moves the status of what it read forward.                               *)
(*                                                                         *)
(* Inbox.  A call finds an old key, deletes it and puts a new one.  The    *)
(* invariant says what the index holds of a conversation in the middle of  *)
(* that, when no other call is at work on the same conversation.           *)
(*                                                                         *)
(* History.  The keys of one conversation lie together in the order of     *)
(* bytes, so that a reverse scan from the seek key meets exactly its       *)
(* messages, the newest first.  The invariant says what a reader that has  *)
(* come down to a cursor has been shown.                                   *)
(***************************************************************************)
EXTENDS GroupMessages, Inbox, DmHistory, FiniteSetTheorems, SequenceTheorems, TLAPS

InRoll(sender, mls_epoch) == sender \in roll[mls_epoch]

\* The members of the persisted manifest are on the roll of its epoch.
RollOK == epoch # 0 => members \subseteq roll[epoch]

SendingOK ==
    \A t \in Threads : (call[t] # NoCall /\ call[t].pc # "put") =>
        InRoll(call[t].sender, call[t].mls_epoch)

PutOK ==
    \A t \in Threads : (call[t] # NoCall /\ call[t].pc = "put") =>
        LET c == call[t]
        IN  /\ Sent(c.id) => InRoll(c.msg.sender, c.msg.mls_epoch)
            /\ c.read # NoMessage => rank[c.msg.status] > rank[c.read.status]
            /\ c.emit => c.read # NoMessage /\ c.msg.status \in {"Delivered", "Read"}

StoreOK ==
    \A id \in Stored : Sent(id) => InRoll(store[id].sender, store[id].mls_epoch)

\* A receipt that was handed out is one for a status the message has reached.
ReceiptsOK ==
    \A id \in Ids \ raced, s \in {"Delivered", "Read"} :
        /\ receipts[id][s] =< 1
        /\ receipts[id][s] = 1 => id \in Stored /\ rank[store[id].status] >= rank[s]

MessagesInv ==
    /\ TypeOK
    /\ RollOK
    /\ SendingOK
    /\ PutOK
    /\ StoreOK
    /\ ReceiptsOK

----------------------------------------------------------------------------

\* The order of the statuses that mark_status compares.
LEMMA RankType == \A s \in GroupMessageStatus : rank[s] \in Nat
  BY DEF rank, GroupMessageStatus

\* The parts of a call, by the place it is at.
LEMMA CallParts ==
    ASSUME TypeOK, NEW t \in Threads, call[t] # NoCall
    PROVE  /\ call[t].pc \in {"now_v7", "now_ms", "put"}
           /\ call[t].pc # "put" => /\ call[t].sender \in Identities
                                    /\ call[t].mls_epoch \in 1 .. MaxEpoch
           /\ call[t].pc # "now_v7" => call[t].id \in Ids
           /\ call[t].pc = "put" => /\ call[t].msg \in GroupMessage
                                    /\ call[t].read \in GroupMessage \cup {NoMessage}
                                    /\ call[t].emit \in BOOLEAN
  <1>1. call[t] \in Call
    BY DEF TypeOK
  <1>. QED
    BY <1>1 DEF Call

\* An empty store with no call under way satisfies MessagesInv.
LEMMA MessagesInit == Init => MessagesInv
  <1>. SUFFICES ASSUME Init PROVE MessagesInv
    OBVIOUS
  <1>1. TypeOK
    BY MessageConstants DEF Init, TypeOK
  <1>2. RollOK /\ SendingOK /\ PutOK /\ StoreOK /\ ReceiptsOK
    BY DEF Init, RollOK, SendingOK, PutOK, StoreOK, ReceiptsOK, Stored
  <1>. QED
    BY <1>1, <1>2 DEF MessagesInv

\* A step that only moves one thread's call.
LEMMA ContinueKeeps ==
    ASSUME MessagesInv, NEW t \in Threads, NEW c \in Call, Continue(t, c),
           UNCHANGED <<manifestVars, store, now, receipts, raced>>,
           last_id' \in Ids \cup {0},
           c.pc # "put" => InRoll(c.sender, c.mls_epoch),
           c.pc = "put" =>
               /\ Sent(c.id) => InRoll(c.msg.sender, c.msg.mls_epoch)
               /\ c.read # NoMessage => rank[c.msg.status] > rank[c.read.status]
               /\ c.emit => c.read # NoMessage /\ c.msg.status \in {"Delivered", "Read"}
    PROVE  MessagesInv'
  <1>. USE DEF manifestVars
  <1>1. /\ call' \in [Threads -> Call \cup {NoCall}] /\ call'[t] = c
        /\ \A u \in Threads : u # t => call'[u] = call[u]
    BY DEF Continue, MessagesInv, TypeOK
  <1>2. TypeOK'
    BY <1>1 DEF MessagesInv, TypeOK
  <1>3. SendingOK'
    BY <1>1 DEF MessagesInv, SendingOK, InRoll
  <1>4. PutOK'
    BY <1>1 DEF MessagesInv, PutOK, InRoll, Sent
  <1>5. RollOK' /\ StoreOK' /\ ReceiptsOK'
    BY DEF MessagesInv, RollOK, StoreOK, ReceiptsOK, Stored, InRoll, Sent
  <1>. QED
    BY <1>2, <1>3, <1>4, <1>5 DEF MessagesInv

\* get_manifest and the membership check of send_message.
LEMMA StepSendMessage ==
    ASSUME MessagesInv, NEW t \in Threads, NEW sender \in Identities, send_message(t, sender)
    PROVE  MessagesInv'
  <1>1. epoch \in 0 .. MaxEpoch /\ epoch # 0 /\ sender \in members
    BY DEF MessagesInv, TypeOK, send_message
  <1>. PICK e \in 1 .. MaxEpoch : e = epoch /\ InRoll(sender, e)
    BY <1>1, MessageConstants DEF InRoll, MessagesInv, RollOK
  <1>. PICK c : c = [pc |-> "now_v7", sender |-> sender, mls_epoch |-> e]
    OBVIOUS
  <1>2. c \in Call /\ Continue(t, c) /\ c.pc = "now_v7" /\ c.sender = sender /\ c.mls_epoch = e
    BY DEF send_message, Call
  <1>. QED
    BY <1>2, ContinueKeeps DEF send_message, MessagesInv, TypeOK

\* The id of a message to send.
LEMMA StepNowV7 ==
    ASSUME MessagesInv, NEW t \in Threads, now_v7(t)
    PROVE  MessagesInv'
  <1>1. PICK id \in Ids :
            /\ last_id' = id
            /\ Continue(t, [pc |-> "now_ms", id |-> id, sender |-> call[t].sender,
                            mls_epoch |-> call[t].mls_epoch])
    BY DEF now_v7
  <1>2. /\ call[t].sender \in Identities /\ call[t].mls_epoch \in 1 .. MaxEpoch
        /\ InRoll(call[t].sender, call[t].mls_epoch)
    BY CallParts DEF now_v7, MessagesInv, SendingOK
  <1>. PICK c : c = [pc |-> "now_ms", id |-> id, sender |-> call[t].sender,
                     mls_epoch |-> call[t].mls_epoch]
    OBVIOUS
  <1>3. c \in Call /\ c.pc = "now_ms" /\ c.sender = call[t].sender
        /\ c.mls_epoch = call[t].mls_epoch /\ Continue(t, c)
    BY <1>1, <1>2 DEF Call
  <1>. QED
    BY <1>1, <1>2, <1>3, ContinueKeeps DEF now_v7

\* The message to send, in the epoch that was checked.
LEMMA StepNowMs ==
    ASSUME MessagesInv, NEW t \in Threads, now_ms(t)
    PROVE  MessagesInv'
  <1>1. /\ call[t].sender \in Identities /\ call[t].mls_epoch \in 1 .. MaxEpoch
        /\ InRoll(call[t].sender, call[t].mls_epoch) /\ call[t].id \in Ids
    BY CallParts DEF now_ms, MessagesInv, SendingOK
  <1>. PICK msg : msg = [sender |-> call[t].sender, mls_epoch |-> call[t].mls_epoch,
                         created_at |-> now, status |-> "Sent"]
    OBVIOUS
  <1>2. /\ msg \in GroupMessage /\ msg.sender = call[t].sender
        /\ msg.mls_epoch = call[t].mls_epoch
    BY <1>1, MessageConstants DEF GroupMessage, GroupMessageStatus, MessagesInv, TypeOK
  <1>. PICK c : c = [pc |-> "put", id |-> call[t].id, emit |-> FALSE, read |-> NoMessage,
                     msg |-> msg]
    OBVIOUS
  <1>3. /\ c \in Call /\ c.pc = "put" /\ c.read = NoMessage /\ c.emit = FALSE /\ c.msg = msg
        /\ Continue(t, c)
    BY <1>1, <1>2 DEF now_ms, Call
  <1>. QED
    BY <1>1, <1>2, <1>3, ContinueKeeps DEF now_ms, MessagesInv, TypeOK

\* receive_message of a message that is not stored yet.
LEMMA StepReceiveMessage ==
    ASSUME MessagesInv, NEW t \in Threads, NEW m \in Inbound, receive_message(t, m)
    PROVE  MessagesInv'
  <1>1. m.id \in Ids /\ m.msg \in GroupMessage /\ ~Sent(m.id) /\ store[m.id] = NoMessage
    BY MessageConstants DEF Sent, receive_message
  <1>. PICK c : c = [pc |-> "put", id |-> m.id, msg |-> m.msg, read |-> store[m.id],
                     emit |-> FALSE]
    OBVIOUS
  <1>2. /\ c \in Call /\ c.pc = "put" /\ c.read = NoMessage /\ c.emit = FALSE /\ c.id = m.id
        /\ Continue(t, c)
    BY <1>1 DEF receive_message, Call
  <1>. QED
    BY <1>1, <1>2, ContinueKeeps DEF receive_message, MessagesInv, TypeOK

\* process_receipt and mark_status: the message as read, further on.
LEMMA StepAdvance ==
    ASSUME MessagesInv, NEW t \in Threads, NEW id \in Ids, NEW status \in GroupMessageStatus,
           NEW emit \in BOOLEAN, emit => status \in {"Delivered", "Read"},
           Advance(t, id, status, emit)
    PROVE  MessagesInv'
  <1>1. store[id] \in GroupMessage /\ id \in Stored /\ rank[status] > rank[store[id].status]
    BY DEF Advance, is_forward_transition, MessagesInv, TypeOK, Stored
  <1>. PICK msg : msg = [store[id] EXCEPT !.status = status]
    OBVIOUS
  <1>2. /\ msg \in GroupMessage /\ msg.status = status
        /\ msg.sender = store[id].sender /\ msg.mls_epoch = store[id].mls_epoch
    BY <1>1 DEF GroupMessage
  <1>. PICK c : c = [pc |-> "put", id |-> id, emit |-> emit, read |-> store[id], msg |-> msg]
    OBVIOUS
  <1>3. /\ c \in Call /\ c.pc = "put" /\ c.id = id /\ c.emit = emit /\ c.msg = msg
        /\ c.read = store[id] /\ Continue(t, c)
    BY <1>1, <1>2 DEF Advance, Call
  <1>4. store[id] # NoMessage /\ Sent(id) => InRoll(store[id].sender, store[id].mls_epoch)
    BY <1>1 DEF MessagesInv, StoreOK
  <1>5. store[id] # NoMessage
    BY DEF Advance
  <1>. QED
    BY <1>1, <1>2, <1>3, <1>4, <1>5, ContinueKeeps DEF Advance, MessagesInv, TypeOK

\* What a put does to the statuses, races apart.
LEMMA PutForward ==
    ASSUME MessagesInv, NEW t \in Threads, put(t), NEW id \in Stored, id \notin raced'
    PROVE  id \in Stored' /\ rank[store'[id].status] >= rank[store[id].status]
  <1>1. /\ call[t].id \in Ids /\ call[t].msg \in GroupMessage
        /\ call[t].read # NoMessage => rank[call[t].msg.status] > rank[call[t].read.status]
    BY CallParts DEF put, MessagesInv, PutOK
  <1>2. /\ id \in Ids /\ store[id] \in GroupMessage /\ store[id] # NoMessage
        /\ rank[store[id].status] \in Nat /\ rank[call[t].msg.status] \in Nat
    BY <1>1, RankType DEF Stored, MessagesInv, TypeOK, GroupMessage
  <1>3. CASE id = call[t].id
    <2>1. store'[id] = call[t].msg /\ store[id] = call[t].read
      BY <1>1, <1>2, <1>3 DEF put, MessagesInv, TypeOK
    <2>. QED
      BY <1>1, <1>2, <2>1, NoneIsNone DEF Stored
  <1>4. CASE id # call[t].id
    <2>1. store'[id] = store[id]
      BY <1>1, <1>2, <1>4 DEF put, MessagesInv, TypeOK
    <2>. QED
      BY <1>2, <2>1 DEF Stored
  <1>. QED
    BY <1>3, <1>4

\* The put of a call, whatever has been written since it read.
LEMMA StepPut ==
    ASSUME MessagesInv, NEW t \in Threads, put(t)
    PROVE  MessagesInv'
  <1>. PICK c : c = call[t]
    OBVIOUS
  <1>1. /\ c.id \in Ids /\ c.msg \in GroupMessage /\ c.msg # NoMessage /\ c.emit \in BOOLEAN
        /\ Sent(c.id) => InRoll(c.msg.sender, c.msg.mls_epoch)
        /\ c.read # NoMessage => rank[c.msg.status] > rank[c.read.status]
        /\ c.emit => c.read # NoMessage /\ c.msg.status \in {"Delivered", "Read"}
    BY CallParts, NoneIsNone DEF put, MessagesInv, PutOK
  <1>2. /\ store' = [store EXCEPT ![c.id] = c.msg]
        /\ raced' = IF c.read = store[c.id] THEN raced ELSE raced \cup {c.id}
        /\ call' = [call EXCEPT ![t] = NoCall]
        /\ UNCHANGED <<manifestVars, now, last_id>>
    BY DEF put, Continue
  <1>3. /\ receipts' \in [Ids -> [{"Delivered", "Read"} -> 0 .. MaxReceipts]]
        /\ \A id \in Ids, s \in {"Delivered", "Read"} :
              \/ receipts'[id][s] = receipts[id][s]
              \/ /\ id = c.id /\ s = c.msg.status /\ c.emit
                 /\ receipts'[id][s] = receipts[id][s] + 1
    <2>0. receipts \in [Ids -> [{"Delivered", "Read"} -> 0 .. MaxReceipts]]
      BY DEF MessagesInv, TypeOK
    <2>1. CASE UNCHANGED receipts
      BY <2>0, <2>1
    <2>2. CASE /\ c.emit /\ receipts[c.id][c.msg.status] < MaxReceipts
               /\ receipts' = [receipts EXCEPT ![c.id][c.msg.status] = @ + 1]
      <3>. DEFINE row == [receipts[c.id] EXCEPT ![c.msg.status] = @ + 1]
      <3>1. /\ row \in [{"Delivered", "Read"} -> 0 .. MaxReceipts]
            /\ \A s \in {"Delivered", "Read"} :
                  row[s] = IF s = c.msg.status THEN receipts[c.id][s] + 1 ELSE receipts[c.id][s]
        BY <1>1, <2>0, <2>2, MessageConstants
      <3>2. receipts' = [receipts EXCEPT ![c.id] = row]
        BY <2>2
      <3>. HIDE DEF row
      <3>3. receipts' \in [Ids -> [{"Delivered", "Read"} -> 0 .. MaxReceipts]]
        BY <1>1, <2>0, <3>1, <3>2
      <3>. QED
        BY <1>1, <2>0, <2>2, <3>1, <3>2, <3>3
    <2>. QED
      BY <2>1, <2>2 DEF put
  <1>4. TypeOK'
    BY <1>1, <1>2, <1>3 DEF MessagesInv, TypeOK, manifestVars
  <1>5. \A u \in Threads : call'[u] = NoCall \/ call'[u] = call[u]
    BY <1>2 DEF MessagesInv, TypeOK
  <1>6. RollOK' /\ SendingOK' /\ PutOK'
    BY <1>2, <1>5 DEF MessagesInv, manifestVars, RollOK, SendingOK, PutOK, InRoll, Sent
  <1>7. StoreOK'
    <2>. SUFFICES ASSUME NEW id \in Stored', Sent(id)
                  PROVE  InRoll(store'[id].sender, store'[id].mls_epoch)
      BY <1>2 DEF StoreOK, InRoll, Sent, manifestVars
    <2>1. CASE id = c.id
      BY <1>1, <1>2, <2>1 DEF MessagesInv, TypeOK
    <2>2. CASE id # c.id
      BY <1>1, <1>2, <2>2 DEF MessagesInv, TypeOK, Stored, StoreOK
    <2>. QED
      BY <2>1, <2>2
  <1>8. ReceiptsOK'
    <2>. SUFFICES ASSUME NEW id \in Ids, id \notin raced', NEW s \in {"Delivered", "Read"}
                  PROVE  /\ receipts'[id][s] =< 1
                         /\ receipts'[id][s] = 1 =>
                               id \in Stored' /\ rank[store'[id].status] >= rank[s]
      BY DEF ReceiptsOK
    <2>1. /\ id \notin raced /\ receipts[id][s] \in 0 .. 1
          /\ receipts[id][s] = 1 => id \in Stored /\ rank[store[id].status] >= rank[s]
          /\ rank[s] \in Nat
      BY <1>2, RankType, MessageConstants
         DEF MessagesInv, TypeOK, ReceiptsOK, GroupMessageStatus
    <2>2. CASE receipts'[id][s] = receipts[id][s]
      <3>1. ASSUME receipts[id][s] = 1
            PROVE  id \in Stored' /\ rank[store'[id].status] >= rank[s]
        <4>1. id \in Stored /\ rank[store[id].status] >= rank[s]
          BY <2>1, <3>1
        <4>2. /\ id \in Stored' /\ rank[store'[id].status] >= rank[store[id].status]
          BY <4>1, PutForward
        <4>3. rank[store[id].status] \in Nat /\ rank[store'[id].status] \in Nat
          BY <1>4, <4>1, <4>2, RankType DEF MessagesInv, TypeOK, Stored, GroupMessage
        <4>. QED
          BY <2>1, <4>1, <4>2, <4>3
      <3>. QED
        BY <2>1, <2>2, <3>1
    <2>3. CASE /\ id = c.id /\ s = c.msg.status /\ c.emit
               /\ receipts'[id][s] = receipts[id][s] + 1
      <3>1. c.read = store[id] /\ store[id] # NoMessage /\ rank[s] > rank[store[id].status]
        BY <1>1, <1>2, <2>3
      <3>2. store[id] \in GroupMessage /\ rank[store[id].status] \in Nat
        BY <3>1, RankType DEF MessagesInv, TypeOK, GroupMessage
      <3>3. receipts[id][s] = 0
        BY <2>1, <3>1, <3>2
      <3>4. store'[id] = c.msg
        BY <1>1, <1>2, <2>3 DEF MessagesInv, TypeOK
      <3>. QED
        BY <1>1, <2>1, <2>3, <3>3, <3>4 DEF Stored
    <2>. QED
      BY <1>3, <2>2, <2>3
  <1>. QED
    BY <1>4, <1>6, <1>7, <1>8 DEF MessagesInv

\* A commit adds to the roll of one epoch and takes nobody off one, also when a
\* manifest of that epoch was there before.
LEMMA StepCommitEpoch ==
    ASSUME MessagesInv, NEW e \in 0 .. MaxEpoch, NEW new \in SUBSET Identities,
           CommitEpoch(e, new)
    PROVE  MessagesInv'
  <1>1. /\ epoch' = e + 1 /\ e + 1 \in 1 .. MaxEpoch /\ members' = new
        /\ loadable' = loadable \cup {e + 1}
        /\ roll' = [roll EXCEPT ![e + 1] = @ \cup new]
        /\ UNCHANGED <<store, now, last_id, call, receipts, raced>>
    BY MessageConstants DEF CommitEpoch
  <1>2. /\ roll' \in [1 .. MaxEpoch -> SUBSET Identities] /\ new \subseteq roll'[e + 1]
        /\ \A f \in 1 .. MaxEpoch : roll[f] \subseteq roll'[f]
    <2>1. roll \in [1 .. MaxEpoch -> SUBSET Identities]
      BY DEF MessagesInv, TypeOK
    <2>. QED
      BY <1>1, <2>1
  <1>3. TypeOK' /\ RollOK'
    <2>1. epoch' \in 0 .. MaxEpoch /\ loadable' \subseteq 0 .. MaxEpoch
      BY <1>1 DEF MessagesInv, TypeOK
    <2>2. RollOK'
      BY <1>1, <1>2 DEF RollOK
    <2>. QED
      BY <1>1, <1>2, <2>1, <2>2 DEF MessagesInv, TypeOK
  <1>4. SendingOK'
    <2>1. \A t \in Threads : call[t] # NoCall /\ call[t].pc # "put"
                              => call[t].mls_epoch \in 1 .. MaxEpoch
      BY CallParts DEF MessagesInv
    <2>. QED
      BY <1>1, <1>2, <2>1 DEF MessagesInv, SendingOK, InRoll
  <1>5. PutOK'
    <2>1. \A t \in Threads : call[t] # NoCall /\ call[t].pc = "put"
                              => call[t].msg.mls_epoch \in 1 .. MaxEpoch
      BY CallParts DEF MessagesInv, GroupMessage
    <2>. QED
      BY <1>1, <1>2, <2>1 DEF MessagesInv, PutOK, InRoll, Sent
  <1>6. StoreOK'
    <2>1. \A id \in Stored : store[id].mls_epoch \in 1 .. MaxEpoch
      BY DEF MessagesInv, TypeOK, Stored, GroupMessage
    <2>. QED
      BY <1>1, <1>2, <2>1 DEF MessagesInv, StoreOK, InRoll, Sent, Stored
  <1>7. ReceiptsOK'
    BY <1>1 DEF MessagesInv, ReceiptsOK, Stored
  <1>. QED
    BY <1>3, <1>4, <1>5, <1>6, <1>7 DEF MessagesInv

\* Time passes; a crash also loses the calls in progress.
LEMMA StepTime ==
    ASSUME MessagesInv, Tick \/ Crash
    PROVE  MessagesInv'
  <1>0. /\ epoch \in 0 .. MaxEpoch /\ loadable \subseteq 0 .. MaxEpoch
        /\ now \in 1 .. MaxTime /\ MaxTime \in Nat
    BY MessageConstants DEF MessagesInv, TypeOK
  <1>1. /\ now' \in 1 .. MaxTime /\ UNCHANGED <<epoch, members, roll>>
        /\ loadable' \subseteq 0 .. MaxEpoch
        /\ UNCHANGED <<store, last_id, receipts, raced>>
        /\ call' = call \/ call' = [t \in Threads |-> NoCall]
    <2>1. CASE Tick
      BY <2>1, <1>0 DEF Tick, manifestVars
    <2>2. CASE Crash
      BY <2>2, <1>0 DEF Crash
    <2>. QED
      BY <2>1, <2>2
  <1>2. TypeOK'
    BY <1>1 DEF MessagesInv, TypeOK
  <1>3. \A t \in Threads : call'[t] = NoCall \/ call'[t] = call[t]
    BY <1>1
  <1>4. RollOK' /\ SendingOK' /\ PutOK' /\ StoreOK' /\ ReceiptsOK'
    BY <1>1, <1>3
       DEF MessagesInv, RollOK, SendingOK, PutOK, StoreOK, ReceiptsOK, InRoll, Sent, Stored
  <1>. QED
    BY <1>2, <1>4 DEF MessagesInv

\* Every step of every thread keeps MessagesInv.
LEMMA MessagesNext == MessagesInv /\ [Next]_vars => MessagesInv'
  <1>. SUFFICES ASSUME MessagesInv, [Next]_vars
                PROVE  MessagesInv'
    OBVIOUS
  <1>1. ASSUME NEW t \in Threads, NEW id \in Ids, NEW status \in GroupMessageStatus,
               process_receipt(t, id, status) \/ mark_status(t, id, status)
        PROVE  MessagesInv'
    <2>1. CASE process_receipt(t, id, status)
      BY <2>1, StepAdvance DEF process_receipt
    <2>2. CASE mark_status(t, id, status)
      BY <2>2, StepAdvance DEF mark_status
    <2>. QED
      BY <1>1, <2>1, <2>2
  <1>2. CASE UNCHANGED vars
    BY <1>2 DEF vars, manifestVars, MessagesInv, TypeOK, RollOK, SendingOK, PutOK, StoreOK, ReceiptsOK, InRoll, Sent,
                Stored
  <1>3. Marked \subseteq Ids
    BY MessageConstants
  <1>. QED
    BY <1>1, <1>2, <1>3, StepSendMessage, StepNowV7, StepNowMs, StepReceiveMessage, StepPut,
       StepCommitEpoch, StepTime DEF Next

\* In every state of the group messages, whatever calls and commits overlap,
\* MessagesInv holds.
THEOREM MessagesInvariant == Spec => []MessagesInv
  <1>. QED
    BY MessagesInit, MessagesNext, PTL DEF Spec

\* Whatever commits run between send_message's check and its write, a message
\* this node sent names an epoch in which its sender was a member.
THEOREM SendersWereMembers == Spec => []SentByMemberOfEpoch
  <1>1. MessagesInv => SentByMemberOfEpoch
    BY DEF MessagesInv, StoreOK, InRoll, SentByMemberOfEpoch
  <1>. QED
    BY <1>1, MessagesInvariant, PTL

\* mark_delivered and mark_read hand out one receipt for a message unless two
\* calls raced for it: what makes the put of a receipt's caller find that
\* status already reached is process_receipt's own check.
THEOREM OneReceipt == Spec => []ReceiptOnce
  <1>1. MessagesInv => ReceiptOnce
    BY DEF MessagesInv, ReceiptsOK, ReceiptOnce
  <1>. QED
    BY <1>1, MessagesInvariant, PTL

\* A status goes back only by the put of a call that had read the message
\* before another call's put.
THEOREM StatusesForward == Spec => StatusForward
  <1>1. MessagesInv /\ [Next]_vars =>
            [\A id \in Stored :
               id \in raced' \/ rank[store'[id].status] >= rank[store[id].status]]_vars
    <2>. SUFFICES ASSUME MessagesInv, Next, NEW id \in Stored, id \notin raced'
                  PROVE  rank[store'[id].status] >= rank[store[id].status]
      BY DEF vars
    <2>1. ASSUME NEW t \in Threads, put(t)
          PROVE  rank[store'[id].status] >= rank[store[id].status]
      BY <2>1, PutForward
    <2>2. CASE UNCHANGED store
      <3>1. store[id] \in GroupMessage
        BY DEF MessagesInv, TypeOK, Stored
      <3>. QED
        BY <2>2, <3>1, RankType DEF GroupMessage
    <2>. QED
      BY <2>1, <2>2
         DEF Next, CommitEpoch, send_message, now_v7, now_ms, receive_message, process_receipt,
             mark_status, Advance, Tick, Crash
  <1>. QED
    BY <1>1, MessagesInvariant, PTL DEF Spec, StatusForward

----------------------------------------------------------------------------
(* Orders and lists *)

\* R orders the members of S strictly and totally.
Orders(R, S) ==
    /\ \A x \in S : <<x, x>> \notin R
    /\ \A x, y, z \in S : <<x, y>> \in R /\ <<y, z>> \in R => <<x, z>> \in R
    /\ \A x, y \in S : x # y => <<x, y>> \in R \/ <<y, x>> \in R

Below(R, S, x) == {y \in S : <<y, x>> \in R}

\* Each of n members of an order has another number of members below it, from
\* 0 to n - 1.
LEMMA Ranks ==
    ASSUME NEW S, IsFiniteSet(S), NEW R, Orders(R, S)
    PROVE  /\ Cardinality(S) \in Nat
           /\ \A x \in S : Cardinality(Below(R, S, x)) \in 0 .. Cardinality(S) - 1
           /\ \A x, y \in S : <<x, y>> \in R =>
                 Cardinality(Below(R, S, x)) < Cardinality(Below(R, S, y))
           /\ \A i \in 1 .. Cardinality(S) :
                 \E x \in S : Cardinality(Below(R, S, x)) = i - 1
  <1>. DEFINE n == Cardinality(S)
              B(x) == Below(R, S, x)
              Card(x) == Cardinality(B(x))
  <1>1. n \in Nat
    BY FS_CardinalityType
  <1>2. \A x \in S : B(x) \in SUBSET S /\ IsFiniteSet(B(x)) /\ Card(x) \in Nat
    <2>1. \A x \in S : B(x) \in SUBSET S
      BY DEF Below
    <2>. QED
      BY <2>1, FS_Subset, FS_CardinalityType
  <1>3. ASSUME NEW x \in S PROVE Card(x) \in 0 .. n - 1
    <2>1. x \notin B(x)
      BY DEF Orders, Below
    <2>2. Card(x) =< n /\ (n = Card(x) => S = B(x))
      BY <1>2, FS_Subset
    <2>3. Card(x) # n
      BY <2>1, <2>2
    <2>. QED
      <3>. HIDE DEF Card, n
      <3>. QED
        BY <2>2, <2>3, <1>1, <1>2
  <1>4. ASSUME NEW x \in S, NEW y \in S, <<x, y>> \in R PROVE Card(x) < Card(y)
    <2>1. B(x) \in SUBSET B(y)
      BY <1>4 DEF Orders, Below
    <2>2. x \in B(y) /\ x \notin B(x)
      BY <1>4 DEF Orders, Below
    <2>3. Card(x) =< Card(y) /\ (Card(y) = Card(x) => B(y) = B(x))
      <3>. HIDE DEF B
      <3>. QED
        BY <1>2, <2>1, FS_Subset
    <2>4. Card(x) # Card(y)
      BY <2>2, <2>3
    <2>. QED
      <3>. HIDE DEF Card
      <3>. QED
        BY <2>3, <2>4, <1>2
  <1>5. \A i \in 1 .. n : \E x \in S : Card(x) = i - 1
    <2>. DEFINE f == [x \in S |-> Card(x)]
                T == 0 .. n - 1
    <2>1. f \in [S -> T]
      BY <1>3
    <2>2. \A x, y \in S : f[x] = f[y] => x = y
      <3>. SUFFICES ASSUME NEW x \in S, NEW y \in S, Card(x) = Card(y), x # y PROVE FALSE
        OBVIOUS
      <3>1. Card(x) < Card(y) \/ Card(y) < Card(x)
        BY <1>4 DEF Orders
      <3>. QED
        BY <3>1, <1>2
    <2>3. f \in Injection(S, T)
      BY <2>1, <2>2 DEF Injection, IsInjective
    <2>4. IsFiniteSet(T) /\ Cardinality(T) = n
      BY <1>1, FS_Interval
    <2>5. f \in Surjection(S, T)
      BY <2>3, <2>4, FS_Injection
    <2>6. \A i \in 1 .. n : i - 1 \in T
      BY <1>1
    <2>7. \A i \in T : \E x \in S : f[x] = i
      BY <2>5 DEF Surjection
    <2>. QED
      BY <2>6, <2>7
  <1>. QED
    BY <1>1, <1>3, <1>4, <1>5

\* A finite set has a first and a last member, unless it is empty.
LEMMA Ends ==
    ASSUME NEW S, IsFiniteSet(S), S # {}, NEW R, Orders(R, S)
    PROVE  /\ \E x \in S : \A y \in S \ {x} : <<x, y>> \in R
           /\ \E x \in S : \A y \in S \ {x} : <<y, x>> \in R
  <1>. DEFINE Card(x) == Cardinality(Below(R, S, x))
              n == Cardinality(S)
  <1>1. /\ n \in Nat /\ n # 0
        /\ \A x \in S : Card(x) \in 0 .. n - 1
        /\ \A x, y \in S : <<x, y>> \in R => Card(x) < Card(y)
        /\ \A i \in 1 .. n : \E x \in S : Card(x) = i - 1
    BY Ranks, FS_EmptySet
  <1>. HIDE DEF Card, n
  <1>2. PICK x \in S : Card(x) = 0
    <2>1. 1 \in 1 .. n /\ 1 - 1 = 0
      BY <1>1
    <2>. QED
      BY <2>1, <1>1
  <1>3. ASSUME NEW y \in S \ {x} PROVE <<x, y>> \in R
    <2>1. <<y, x>> \notin R
      BY <1>1, <1>2
    <2>. QED
      BY <2>1 DEF Orders
  <1>4. PICK z \in S : Card(z) = n - 1
    <2>1. n \in 1 .. n
      BY <1>1
    <2>. QED
      BY <2>1, <1>1
  <1>5. ASSUME NEW y \in S \ {z} PROVE <<y, z>> \in R
    <2>1. <<z, y>> \notin R
      BY <1>1, <1>4
    <2>. QED
      BY <2>1 DEF Orders
  <1>. QED
    BY <1>3, <1>5

\* A finite set can be listed in an order, and a list of its members that has
\* none of them twice has them all.
LEMMA Sorts ==
    ASSUME NEW S, IsFiniteSet(S), NEW R, Orders(R, S)
    PROVE  \E s \in SetToSeqs(S) : \A i, j \in DOMAIN s : i < j => <<s[i], s[j]>> \in R
  <1>. DEFINE Card(x) == Cardinality(Below(R, S, x))
              n == Cardinality(S)
              At(i) == CHOOSE x \in S : Card(x) = i - 1
              s == [i \in 1 .. n |-> At(i)]
  <1>1. /\ n \in Nat
        /\ \A x \in S : Card(x) \in 0 .. n - 1
        /\ \A x, y \in S : <<x, y>> \in R => Card(x) < Card(y)
        /\ \A i \in 1 .. n : \E x \in S : Card(x) = i - 1
    BY Ranks
  <1>. HIDE DEF Card, n
  <1>2. \A i \in 1 .. n : At(i) \in S /\ Card(At(i)) = i - 1
    BY <1>1
  <1>. HIDE DEF At
  <1>3. s \in SetToSeqs(S)
    <2>1. \A i, j \in 1 .. n : i # j => s[i] # s[j]
      BY <1>1, <1>2
    <2>2. s \in [1 .. n -> S]
      BY <1>2
    <2>. QED
      BY <2>1, <2>2 DEF SetToSeqs, n
  <1>4. ASSUME NEW i \in 1 .. n, NEW j \in 1 .. n, i < j
        PROVE  <<s[i], s[j]>> \in R
    <2>1. s[i] \in S /\ s[j] \in S /\ Card(s[i]) = i - 1 /\ Card(s[j]) = j - 1
      BY <1>2
    <2>2. s[i] # s[j] /\ <<s[j], s[i]>> \notin R
      BY <2>1, <1>1, <1>4
    <2>. QED
      BY <2>1, <2>2 DEF Orders
  <1>5. DOMAIN s = 1 .. n
    OBVIOUS
  <1>. QED
    BY <1>3, <1>4, <1>5

\* A list of all members of a finite set.
LEMMA Lists ==
    ASSUME NEW S, IsFiniteSet(S), NEW s \in SetToSeqs(S)
    PROVE  /\ s \in Seq(S) /\ Len(s) = Cardinality(S) /\ DOMAIN s = 1 .. Cardinality(S)
           /\ Cardinality(S) \in Nat
           /\ \A x \in S : \E i \in DOMAIN s : s[i] = x
           /\ \A i, j \in DOMAIN s : s[i] = s[j] => i = j
  <1>. DEFINE n == Cardinality(S)
              D == 1 .. n
  <1>1. n \in Nat
    BY FS_CardinalityType
  <1>2. s \in [D -> S] /\ \A i, j \in D : i # j => s[i] # s[j]
    BY DEF SetToSeqs
  <1>3. IsFiniteSet(D) /\ Cardinality(D) = n
    BY <1>1, FS_Interval
  <1>4. s \in Injection(D, S)
    BY <1>2 DEF Injection, IsInjective
  <1>5. s \in Surjection(D, S)
    BY <1>3, <1>4, FS_Injection
  <1>6. \A x \in S : \E i \in D : s[i] = x
    BY <1>5 DEF Surjection
  <1>. QED
    BY <1>1, <1>2, <1>6

----------------------------------------------------------------------------
(* Reading page by page *)

Found(before) == {id \in Ids : store[id] # NoMessage /\ id < before}

\* The bounds of the ids.
LEMMA IdBounds ==
    /\ NoCursor \in Nat /\ Ids = IdsPerMs .. NoCursor - 1 /\ IdsPerMs \in Nat
    /\ IsFiniteSet(Ids) /\ Cardinality(Ids) \in Nat
  <1>1. /\ NoCursor \in Nat /\ Ids = IdsPerMs .. NoCursor - 1 /\ IdsPerMs \in Nat
        /\ NoCursor \in Int /\ IdsPerMs \in Int
    BY MessageConstants DEF NoCursor, Ids
  <1>2. PICK n \in Int : n = NoCursor - 1
    BY <1>1
  <1>3. IsFiniteSet(IdsPerMs .. n)
    BY <1>1, FS_Interval
  <1>4. IsFiniteSet(Ids)
    BY <1>1, <1>2, <1>3
  <1>. QED
    BY <1>1, <1>4, FS_CardinalityType

\* What list_messages returns: the first of the messages below the cursor, in
\* the order it sorts them.
LEMMA PageOf ==
    ASSUME TypeOK, NEW before, NEW limit \in Nat
    PROVE  \E s \in SetToSeqs(Found(before)) :
              /\ \A i, j \in DOMAIN s : i < j => Before(s[i], s[j])
              /\ list_messages(before, limit)
                     = IF Len(s) > limit THEN SubSeq(s, 1, limit) ELSE s
              /\ IsFiniteSet(Found(before))
              /\ Cardinality(Found(before)) =< Cardinality(Ids)
  <1>1. PICK S \in SUBSET Ids : S = Found(before)
    BY DEF Found
  <1>2. IsFiniteSet(S) /\ Cardinality(S) =< Cardinality(Ids)
    BY <1>1, IdBounds, FS_Subset
  <1>3. \A x \in S : store[x].created_at \in Nat /\ x \in Nat
    <2>1. \A x \in S : store[x] \in GroupMessage /\ x \in Ids
      BY <1>1 DEF TypeOK, Found
    <2>. QED
      BY <2>1, IdBounds, MessageConstants DEF GroupMessage
  <1>4. PICK at \in [S -> Nat] : \A x \in S : at[x] = store[x].created_at
    <2>1. PICK f : f = [x \in S |-> store[x].created_at]
      OBVIOUS
    <2>2. f \in [S -> Nat] /\ \A x \in S : f[x] = store[x].created_at
      BY <1>3, <2>1
    <2>. QED
      BY <2>2
  <1>5. PICK R : R = {p \in S \X S : Before(p[1], p[2])}
    OBVIOUS
  <1>6. \A x, y \in S : <<x, y>> \in R <=> Before(x, y)
    BY <1>5
  <1>7. \A x, y \in S : <<x, y>> \in R <=> at[x] > at[y] \/ (at[x] = at[y] /\ x > y)
    BY <1>4, <1>6 DEF Before
  <1>8. Orders(R, S)
    <2>1. \A x \in S : x \in Nat /\ at[x] \in Nat
      BY <1>3
    <2>. QED
      BY <1>7, <2>1 DEF Orders
  <1>9. \E s \in SetToSeqs(S) : \A i, j \in DOMAIN s : i < j => <<s[i], s[j]>> \in R
    BY <1>2, <1>8, Sorts
  <1>10. PICK t \in SetToSeqs(S) : \A i, j \in DOMAIN t : i < j => <<t[i], t[j]>> \in R
    BY <1>9
  <1>11. \A i \in DOMAIN t : t[i] \in S
    BY <1>2, <1>10, Lists
  <1>12. \A i, j \in DOMAIN t : i < j => Before(t[i], t[j])
    BY <1>6, <1>10, <1>11
  <1>13. PICK s : s = CHOOSE u \in SetToSeqs(S) :
                         \A i, j \in DOMAIN u : i < j => Before(u[i], u[j])
    OBVIOUS
  <1>14. s \in SetToSeqs(S) /\ \A i, j \in DOMAIN s : i < j => Before(s[i], s[j])
    BY <1>12, <1>13
  <1>15. list_messages(before, limit) = IF Len(s) > limit THEN SubSeq(s, 1, limit) ELSE s
    BY <1>1, <1>13 DEF list_messages, Found
  <1>. QED
    BY <1>1, <1>2, <1>14, <1>15

\* The millisecond an id starts with grows with the id.
LEMMA MillisGrow ==
    /\ \A id \in Ids : Millis(id) \in Nat
    /\ \A id, jd \in Ids : id =< jd => Millis(id) =< Millis(jd)
  <1>0. IdsPerMs \in Nat /\ IdsPerMs > 0 /\ \A id \in Ids : id \in Nat
    BY MessageConstants, IdBounds
  <1>1. ASSUME NEW id \in Nat
        PROVE  /\ Millis(id) \in Nat /\ Millis(id) * IdsPerMs =< id
               /\ id < Millis(id) * IdsPerMs + IdsPerMs
    BY <1>0 DEF Millis
  <1>2. ASSUME NEW a \in Nat, NEW b \in Nat, a > b
        PROVE  a * IdsPerMs >= b * IdsPerMs + IdsPerMs
    <2>1. PICK d \in Nat : a = b + 1 + d
      BY <1>2
    <2>2. a * IdsPerMs = b * IdsPerMs + IdsPerMs + d * IdsPerMs
      BY <1>0, <2>1
    <2>3. d * IdsPerMs \in Nat /\ b * IdsPerMs \in Nat
      BY <1>0
    <2>. QED
      BY <1>0, <2>2, <2>3
  <1>3. ASSUME NEW id \in Ids, NEW jd \in Ids, id =< jd
        PROVE  Millis(id) =< Millis(jd)
    <2>1. PICK a, b \in Nat : /\ a = Millis(id) /\ b = Millis(jd)
                              /\ a * IdsPerMs =< id /\ jd < b * IdsPerMs + IdsPerMs
      BY <1>0, <1>1
    <2>2. a > b => a * IdsPerMs >= b * IdsPerMs + IdsPerMs
      BY <1>2
    <2>3. a * IdsPerMs \in Nat /\ b * IdsPerMs \in Nat /\ id \in Nat /\ jd \in Nat
      BY <1>0
    <2>. QED
      BY <1>0, <1>3, <2>1, <2>2, <2>3
  <1>. QED
    BY <1>0, <1>1, <1>3

\* The time of a message is read after its id: it is the id's millisecond or a
\* later one.
TimesOK ==
    /\ \A t \in Threads : call[t] # NoCall =>
        /\ call[t].pc = "now_ms" => Millis(call[t].id) =< now
        /\ call[t].pc = "put" => Millis(call[t].id) =< call[t].msg.created_at
    /\ \A id \in Stored : Millis(id) =< store[id].created_at

\* A step that only moves one thread's call.
LEMMA ContinueTimes ==
    ASSUME MessagesInv, TimesOK, NEW t \in Threads, NEW c, Continue(t, c),
           UNCHANGED <<store, now>>,
           c.pc = "now_ms" => Millis(c.id) =< now,
           c.pc = "put" => Millis(c.id) =< c.msg.created_at
    PROVE  TimesOK'
  <1>1. \A u \in Threads : call'[u] = IF u = t THEN c ELSE call[u]
    BY DEF Continue, MessagesInv, TypeOK
  <1>. QED
    BY <1>1 DEF TimesOK, Stored

LEMMA TimesNext == MessagesInv /\ TimesOK /\ [Next]_vars => TimesOK'
  <1>. SUFFICES ASSUME MessagesInv, TimesOK, [Next]_vars PROVE TimesOK'
    OBVIOUS
  <1>1. ASSUME NEW t \in Threads, NEW sender \in Identities, send_message(t, sender)
        PROVE  TimesOK'
    BY <1>1, ContinueTimes DEF send_message
  <1>2. ASSUME NEW t \in Threads, now_v7(t)
        PROVE  TimesOK'
    <2>1. PICK id \in Ids : /\ Millis(id) = now
                            /\ Continue(t, [pc |-> "now_ms", id |-> id, sender |-> call[t].sender,
                                            mls_epoch |-> call[t].mls_epoch])
      BY <1>2 DEF now_v7
    <2>2. now \in Nat
      BY MessageConstants DEF MessagesInv, TypeOK
    <2>. QED
      BY <1>2, <2>1, <2>2, ContinueTimes DEF now_v7
  <1>3. ASSUME NEW t \in Threads, now_ms(t)
        PROVE  TimesOK'
    <2>1. Millis(call[t].id) =< now
      BY <1>3 DEF now_ms, TimesOK
    <2>. QED
      BY <1>3, <2>1, ContinueTimes DEF now_ms
  <1>4. ASSUME NEW t \in Threads, NEW m \in Inbound, receive_message(t, m)
        PROVE  TimesOK'
    <2>1. Millis(m.id) =< m.msg.created_at
      <3>1. m.id \in Ids /\ m.msg \in GroupMessage /\ m.msg.created_at >= Millis(m.id)
        BY MessageConstants
      <3>2. Millis(m.id) \in Nat /\ m.msg.created_at \in Nat
        BY <3>1, MillisGrow, MessageConstants DEF GroupMessage
      <3>. QED
        BY <3>1, <3>2
    <2>. QED
      BY <1>4, <2>1, ContinueTimes DEF receive_message
  <1>5. ASSUME NEW t \in Threads, NEW id \in Ids, NEW status \in GroupMessageStatus,
               process_receipt(t, id, status) \/ mark_status(t, id, status)
        PROVE  TimesOK'
    <2>1. PICK emit : Advance(t, id, status, emit)
      BY <1>5 DEF process_receipt, mark_status
    <2>2. store[id] \in GroupMessage /\ Millis(id) =< store[id].created_at
      BY <2>1 DEF Advance, MessagesInv, TypeOK, TimesOK, Stored
    <2>3. [store[id] EXCEPT !.status = status].created_at = store[id].created_at
      BY <2>2 DEF GroupMessage
    <2>. QED
      BY <2>1, <2>2, <2>3, ContinueTimes DEF Advance
  <1>6. ASSUME NEW t \in Threads, put(t)
        PROVE  TimesOK'
    <2>1. /\ call[t].id \in Ids /\ Millis(call[t].id) =< call[t].msg.created_at
          /\ store' = [store EXCEPT ![call[t].id] = call[t].msg] /\ now' = now
          /\ call' = [call EXCEPT ![t] = NoCall]
      BY <1>6, CallParts DEF put, Continue, MessagesInv, TimesOK
    <2>2. \A u \in Threads : call'[u] = NoCall \/ call'[u] = call[u]
      BY <2>1 DEF MessagesInv, TypeOK
    <2>3. \A id \in Ids : store'[id] = IF id = call[t].id THEN call[t].msg ELSE store[id]
      BY <2>1 DEF MessagesInv, TypeOK
    <2>. QED
      BY <2>1, <2>2, <2>3 DEF TimesOK, Stored
  <1>7. CASE Tick \/ Crash
    <2>1. /\ now' = now + 1 /\ now \in Nat /\ store' = store
          /\ \A t \in Threads : call'[t] = NoCall \/ call'[t] = call[t]
      BY <1>7, MessageConstants DEF Tick, Crash, MessagesInv, TypeOK
    <2>2. ASSUME NEW t \in Threads, call[t] # NoCall, call[t].pc = "now_ms"
          PROVE  Millis(call[t].id) \in Nat
      BY <2>2, CallParts, MillisGrow DEF MessagesInv
    <2>. QED
      BY <2>1, <2>2 DEF TimesOK, Stored
  <1>8. ASSUME UNCHANGED <<call, now, store>>
        PROVE  TimesOK'
    BY <1>8 DEF TimesOK, Stored
  <1>9. ASSUME NEW e \in 0 .. MaxEpoch, NEW new \in SUBSET Identities, CommitEpoch(e, new)
        PROVE  TimesOK'
    BY <1>8, <1>9 DEF CommitEpoch
  <1>10. CASE UNCHANGED vars
    BY <1>8, <1>10 DEF vars
  <1>11. Marked \subseteq Ids
    BY MessageConstants
  <1>. QED
    BY <1>1, <1>2, <1>3, <1>4, <1>5, <1>6, <1>7, <1>9, <1>10, <1>11 DEF Next

\* "... natural pagination": whatever a page of list_messages leaves out, for any
\* cursor and limit, is found by the call whose cursor is the last message of the
\* page, unless that message has a later time than the millisecond of its id.
THEOREM NothingSkipped == Spec => []PagesSkipNothing
  <1>1. TypeOK /\ TimesOK => PagesSkipNothing
    <2>. SUFFICES ASSUME TypeOK, TimesOK, NEW before \in Stored \cup {NoCursor},
                         NEW limit \in 1 .. Cardinality(Stored), NEW page, NEW last,
                         page = list_messages(before, limit), last = page[Len(page)],
                         page # <<>>, store[last].created_at = Millis(last),
                         NEW x \in Stored, x < before, x \notin ToSet(page)
                  PROVE  x \in ToSet(list_messages(last, Cardinality(Ids)))
      BY DEF PagesSkipNothing
    <2>1. limit \in Nat /\ limit >= 1 /\ Cardinality(Ids) \in Nat
      <3>1. Stored \subseteq Ids
        BY DEF Stored
      <3>2. Cardinality(Stored) \in Nat
        BY <3>1, IdBounds, FS_Subset, FS_CardinalityType
      <3>. QED
        BY <3>2, IdBounds
    <2>3. PICK s \in SetToSeqs(Found(before)) :
              /\ \A i, j \in DOMAIN s : i < j => Before(s[i], s[j])
              /\ page = IF Len(s) > limit THEN SubSeq(s, 1, limit) ELSE s
              /\ IsFiniteSet(Found(before))
      BY <2>1, PageOf
    <2>4. x \in Found(before) /\ Found(before) \subseteq Stored
      BY DEF Found, Stored
    <2>5. PICK n : n = Cardinality(Found(before))
      OBVIOUS
    <2>6. /\ s \in Seq(Found(before)) /\ Len(s) = n /\ DOMAIN s = 1 .. n /\ n \in Nat
          /\ \A y \in Found(before) : \E i \in 1 .. n : s[i] = y
      BY <2>3, <2>5, Lists
    <2>8. Len(s) > limit /\ page = SubSeq(s, 1, limit)
      <3>1. ASSUME page = s PROVE FALSE
        <4>1. x \in ToSet(s)
          BY <2>4, <2>6 DEF ToSet
        <4>. QED
          BY <3>1, <4>1
      <3>. QED
        BY <2>3, <3>1
    <2>9. Len(page) = limit /\ \A i \in 1 .. limit : i \in DOMAIN page /\ page[i] = s[i]
      BY <2>1, <2>6, <2>8
    <2>10. PICK j \in 1 .. n : s[j] = x
      BY <2>4, <2>6
    <2>11. j > limit
      <3>. SUFFICES ASSUME j \in 1 .. limit PROVE FALSE
        BY <2>1, <2>6, <2>10
      <3>. QED
        BY <2>9, <2>10 DEF ToSet
    <2>12. last = s[limit] /\ last \in Stored /\ Before(last, x)
      <3>1. last = s[limit]
        BY <2>1, <2>9
      <3>2. limit \in DOMAIN s /\ j \in DOMAIN s /\ limit < j
        BY <2>1, <2>6, <2>8, <2>10, <2>11
      <3>3. s[limit] \in Found(before)
        BY <2>6, <3>2
      <3>4. Before(s[limit], s[j])
        BY <2>3, <3>2
      <3>. QED
        BY <2>4, <2>10, <3>1, <3>3, <3>4
    <2>13. x < last
      <3>1. \A y \in Stored : store[y] \in GroupMessage /\ y \in Ids
        BY DEF TypeOK, Stored
      <3>2. \A y \in Stored : y \in Nat /\ store[y].created_at \in Nat
        BY <3>1, IdBounds, MessageConstants DEF GroupMessage
      <3>3. PICK a, b \in Nat : a = store[last].created_at /\ b = store[x].created_at
        BY <2>12, <3>2
      <3>4. a > b \/ (a = b /\ last > x)
        BY <2>12, <3>3 DEF Before
      <3>5. Millis(x) =< b /\ a = Millis(last) /\ Millis(x) \in Nat
        BY <2>12, <3>1, <3>3, MillisGrow DEF TimesOK
      <3>6. last =< x => a =< Millis(x)
        BY <2>12, <3>1, <3>5, MillisGrow
      <3>7. last \in Nat /\ x \in Nat
        BY <2>12, <3>2
      <3>. QED
        BY <3>3, <3>4, <3>5, <3>6, <3>7
    <2>14. x \in Found(last)
      BY <2>13 DEF Found, Stored
    <2>15. PICK t \in SetToSeqs(Found(last)) :
              /\ list_messages(last, Cardinality(Ids))
                     = IF Len(t) > Cardinality(Ids) THEN SubSeq(t, 1, Cardinality(Ids)) ELSE t
              /\ IsFiniteSet(Found(last))
              /\ Cardinality(Found(last)) =< Cardinality(Ids)
      BY <2>1, PageOf
    <2>16. /\ Len(t) = Cardinality(Found(last)) /\ Cardinality(Found(last)) \in Nat
           /\ \E i \in DOMAIN t : t[i] = x
      BY <2>14, <2>15, Lists
    <2>17. list_messages(last, Cardinality(Ids)) = t
      BY <2>1, <2>15, <2>16
    <2>. QED
      BY <2>16, <2>17 DEF ToSet
  <1>2. Init => TimesOK
    BY DEF Init, TimesOK, Stored
  <1>3. MessagesInv => TypeOK
    BY DEF MessagesInv
  <1>. QED
    BY <1>1, <1>2, <1>3, TimesNext, MessagesInvariant, PTL DEF Spec

----------------------------------------------------------------------------
(* The inbox *)

\* Thread t is in the middle of a call for conversation c.
Works(t, c) == inbox_call[t] # NoInboxCall /\ inbox_call[t].entry.conversation_id = c

\* The keys of the index that name conversation c.
Named(c) == {k \in Keys : cf[k] # NoEntry /\ k[2] = c}

\* An entry is stored under its own key, and a call only deletes keys of its
\* conversation.
KeysOK ==
    /\ \A k \in Keys : cf[k] # NoEntry => encode_key(cf[k]) = k
    /\ \A t \in InboxThreads :
          (inbox_call[t] # NoInboxCall /\ inbox_call[t].pc = "delete") =>
              inbox_call[t].old[2] = inbox_call[t].entry.conversation_id

\* What is known of a conversation for which no two calls have raced: at most
\* one call is at work on it, and what that call has read is still there.
AloneOK(c) ==
    /\ \A t, u \in InboxThreads : Works(t, c) /\ Works(u, c) => t = u
    /\ \A j, k \in Named(c) : j = k
    /\ \A t \in InboxThreads : Works(t, c) =>
          \/ inbox_call[t].pc = "put" /\ Named(c) = {}
          \/ inbox_call[t].pc = "delete" /\ Named(c) \subseteq {inbox_call[t].old}

\* What is known of a conversation between calls when in addition none was cut
\* short.
LatestOK(c) ==
    /\ \A k \in Named(c) : cf[k] = latest[c]
    /\ latest[c] # NoEntry => Named(c) # {}

BoxInv ==
    /\ InboxTypeOK
    /\ KeysOK
    /\ \A c \in InboxConversations \ inbox_raced : AloneOK(c)
    /\ \A c \in InboxConversations \ (inbox_raced \cup cut) :
          (\A t \in InboxThreads : ~Works(t, c)) => LatestOK(c)

\* The keys are finitely many, and an entry's key names its conversation.
LEMMA BoxKeys ==
    /\ IsFiniteSet(Keys)
    /\ \A e \in InboxEntry : encode_key(e) \in Keys /\ encode_key(e)[2] = e.conversation_id
    /\ \A k \in Keys :
          k[1] \in 0 .. MaxTs /\ k[2] \in InboxConversations /\ k = <<k[1], k[2]>>
  <1>1. IsFiniteSet(0 .. MaxTs) /\ IsFiniteSet(InboxConversations)
    <2>1. 0 \in Int /\ MaxTs \in Int /\ IsFiniteSet(InboxConversations)
      BY InboxConstants
    <2>. QED
      BY <2>1, FS_Interval
  <1>2. IsFiniteSet(Keys)
    BY <1>1, FS_Product DEF Keys
  <1>. QED
    BY <1>2, InboxConstants DEF Keys, InboxEntry, encode_key

\* Where entries are under their keys, find_raw_entry looks at the keys that
\* name the conversation.
LEMMA KeysNamed ==
    ASSUME InboxTypeOK, KeysOK, NEW c
    PROVE  KeysOf(c) = Named(c)
  <1>1. ASSUME NEW k \in Keys, cf[k] # NoEntry
        PROVE  cf[k].conversation_id = k[2]
    BY <1>1, BoxKeys DEF InboxTypeOK, KeysOK
  <1>. QED
    BY <1>1 DEF KeysOf, Named

\* The byte order of the keys, as a relation.
KeyOrder == {p \in Keys \X Keys : KeyPrecedes(p[1], p[2])}

\* The byte order of the keys is strict and total.
LEMMA KeysInOrder ==
    ASSUME NEW S \in SUBSET Keys
    PROVE  /\ IsFiniteSet(S) /\ Orders(KeyOrder, S)
           /\ \A j, k \in S : <<j, k>> \in KeyOrder <=> KeyPrecedes(j, k)
  <1>1. IsFiniteSet(S)
    BY BoxKeys, FS_Subset
  <1>2. \A j, k \in Keys : <<j, k>> \in KeyOrder <=> KeyPrecedes(j, k)
    BY DEF KeyOrder
  <1>3. \A k \in S : k[1] \in Nat /\ k[2] \in Nat /\ k = <<k[1], k[2]>>
    BY BoxKeys, InboxConstants
  <1>4. \A k \in S : ~KeyPrecedes(k, k)
    BY <1>3 DEF KeyPrecedes
  <1>5. \A i, j, k \in S : KeyPrecedes(i, j) /\ KeyPrecedes(j, k) => KeyPrecedes(i, k)
    BY <1>3 DEF KeyPrecedes
  <1>6. \A j, k \in S : j # k => KeyPrecedes(j, k) \/ KeyPrecedes(k, j)
    BY <1>3 DEF KeyPrecedes
  <1>. QED
    BY <1>1, <1>2, <1>4, <1>5, <1>6 DEF Orders

\* find_raw_entry returns a key of the conversation, if there is one.
LEMMA Finds ==
    ASSUME NEW c, KeysOf(c) # {}
    PROVE  find_raw_entry(c) \in KeysOf(c)
  <1>. DEFINE S == KeysOf(c)
  <1>1. S \in SUBSET Keys /\ S # {}
    BY DEF KeysOf
  <1>. HIDE DEF S
  <1>2. IsFiniteSet(S) /\ Orders(KeyOrder, S)
    BY <1>1, KeysInOrder
  <1>3. \E k \in S : \A j \in S \ {k} : <<k, j>> \in KeyOrder
    BY <1>1, <1>2, Ends
  <1>4. \E k \in S : \A j \in S \ {k} : KeyPrecedes(k, j)
    BY <1>1, <1>3, KeysInOrder
  <1>. QED
    BY <1>4 DEF S, find_raw_entry

----------------------------------------------------------------------------

\* The parts of a call.
LEMMA BoxCall ==
    ASSUME InboxTypeOK, NEW t \in InboxThreads, inbox_call[t] # NoInboxCall
    PROVE  /\ inbox_call[t] \in InboxCall
           /\ inbox_call[t].pc \in {"delete", "put"}
           /\ inbox_call[t].entry \in InboxEntry
           /\ inbox_call[t].entry.conversation_id \in InboxConversations
           /\ inbox_call[t].pc = "delete" => inbox_call[t].old \in Keys
  <1>1. inbox_call[t] \in InboxCall
    BY DEF InboxTypeOK
  <1>. QED
    BY <1>1 DEF InboxCall, InboxEntry

\* Which conversations are undisturbed, by what threads are at work on.
LEMMA BoxQuiet ==
    /\ \A c : c \in Busy <=> \E t \in InboxThreads : Works(t, c)
    /\ \A c : c \in Undisturbed <=>
          /\ c \in InboxConversations /\ c \notin inbox_raced /\ c \notin cut
          /\ \A t \in InboxThreads : ~Works(t, c)
  <1>1. \A c : c \in Busy <=> \E t \in InboxThreads : Works(t, c)
    BY DEF Busy, Works
  <1>. QED
    BY <1>1 DEF Undisturbed

\* The empty index with no call under way satisfies BoxInv.
LEMMA BoxInit == ASSUME InboxInit PROVE BoxInv
  <1>1. InboxTypeOK /\ KeysOK
    BY DEF InboxInit, InboxTypeOK, KeysOK
  <1>2. \A c : Named(c) = {} /\ \A t \in InboxThreads : ~Works(t, c)
    BY DEF InboxInit, Named, Works
  <1>3. \A c \in InboxConversations : AloneOK(c)
    BY <1>2 DEF AloneOK
  <1>4. \A c \in InboxConversations : LatestOK(c)
    BY <1>2 DEF LatestOK, InboxInit
  <1>. QED
    BY <1>1, <1>3, <1>4, BoxQuiet DEF BoxInv

\* A call that its scan has started: it knows what the index has of its
\* conversation, and it is alone unless that is noted.
LEMMA BeginKeeps ==
    ASSUME BoxInv, NEW t \in InboxThreads, inbox_call[t] = NoInboxCall,
           NEW c \in InboxCall, BeginCall(t, c),
           \/ c.pc = "delete" /\ c.old \in Named(c.entry.conversation_id)
           \/ c.pc = "put" /\ Named(c.entry.conversation_id) = {}
    PROVE  BoxInv'
  <1>. DEFINE d == c.entry.conversation_id
  <1>1. /\ inbox_call' \in [InboxThreads -> InboxCall \cup {NoInboxCall}]
        /\ inbox_call'[t] = c /\ c # NoInboxCall /\ d \in InboxConversations
        /\ \A u \in InboxThreads : u # t => inbox_call'[u] = inbox_call[u]
        /\ inbox_raced' = inbox_raced \cup (Busy \cap {d})
        /\ UNCHANGED <<cf, latest, cut>>
    BY InboxNoneIsNone DEF BeginCall, BoxInv, InboxTypeOK, InboxCall, InboxEntry
  <1>2. \A e : Named(e)' = Named(e)
    BY <1>1 DEF Named
  <1>3. /\ \A u \in InboxThreads \ {t} : \A e : Works(u, e)' <=> Works(u, e)
        /\ \A e : Works(t, e)' <=> e = d
        /\ \A e : ~Works(t, e)
    BY <1>1 DEF Works
  <1>. HIDE DEF d
  <1>4. InboxTypeOK'
    BY <1>1 DEF BoxInv, InboxTypeOK
  <1>5. KeysOK'
    <2>1. c.pc = "delete" => c.old[2] = c.entry.conversation_id
      BY DEF Named
    <2>. QED
      BY <1>1, <2>1 DEF BoxInv, KeysOK
  <1>6. ASSUME NEW e \in InboxConversations \ inbox_raced' PROVE AloneOK(e)'
    <2>1. AloneOK(e)
      BY <1>1 DEF BoxInv
    <2>2. CASE e # d
      BY <2>1, <2>2, <1>1, <1>2, <1>3 DEF AloneOK
    <2>3. CASE e = d
      <3>1. \A u \in InboxThreads : ~Works(u, d)
        BY <2>3, <1>1, BoxQuiet
      <3>2. \A u, v \in InboxThreads : Works(u, e)' /\ Works(v, e)' => u = v
        BY <2>3, <3>1, <1>3
      <3>3. \A j, k \in Named(e)' : j = k
        BY <2>1, <1>2 DEF AloneOK
      <3>4. \/ c.pc = "put" /\ Named(e)' = {}
            \/ c.pc = "delete" /\ Named(e)' \subseteq {c.old}
        BY <2>1, <2>3, <1>2 DEF AloneOK, d
      <3>. QED
        BY <2>3, <3>1, <3>2, <3>3, <3>4, <1>1, <1>3 DEF AloneOK
    <2>. QED
      BY <2>2, <2>3
  <1>7. ASSUME NEW e \in InboxConversations \ (inbox_raced \cup cut)',
               \A u \in InboxThreads : ~Works(u, e)'
        PROVE  LatestOK(e)'
    <2>1. e \notin inbox_raced \cup cut /\ \A u \in InboxThreads : ~Works(u, e)
      BY <1>1, <1>3, <1>7
    <2>. QED
      BY <2>1, <1>1, <1>2 DEF BoxInv, LatestOK
  <1>. QED
    BY <1>4, <1>5, <1>6, <1>7 DEF BoxInv

\* The scan of upsert.
LEMMA StepUpsert ==
    ASSUME BoxInv, NEW t \in InboxThreads, NEW entry \in InboxEntry,
           upsert(t, entry)
    PROVE  BoxInv'
  <1>. DEFINE d == entry.conversation_id
  <1>1. KeysOf(d) = Named(d)
    BY KeysNamed DEF BoxInv
  <1>2. CASE Named(d) # {}
    <2>. DEFINE c == [pc |-> "delete", entry |-> entry, old |-> find_raw_entry(d)]
    <2>1. find_raw_entry(d) \in Named(d)
      BY <1>1, <1>2, Finds
    <2>2. find_raw_entry(d) \in Keys
      BY <2>1 DEF Named
    <2>3. c \in InboxCall /\ c.pc = "delete" /\ c.entry = entry /\ c.old \in Named(d)
      BY <2>1, <2>2 DEF InboxCall
    <2>4. inbox_call[t] = NoInboxCall /\ BeginCall(t, c)
      BY <1>1, <1>2 DEF upsert
    <2>. HIDE DEF c
    <2>. QED
      BY <2>3, <2>4, BeginKeeps
  <1>3. CASE Named(d) = {}
    <2>. DEFINE c == [pc |-> "put", entry |-> entry]
    <2>1. c \in InboxCall /\ c.pc = "put" /\ c.entry = entry
      BY DEF InboxCall
    <2>2. inbox_call[t] = NoInboxCall /\ BeginCall(t, c)
      BY <1>1, <1>3 DEF upsert
    <2>. HIDE DEF c
    <2>. QED
      BY <1>3, <2>1, <2>2, BeginKeeps
  <1>. QED
    BY <1>2, <1>3

\* The scan of mark_read.
LEMMA StepMarkRead ==
    ASSUME BoxInv, NEW t \in InboxThreads, NEW d \in InboxConversations,
           mark_read(t, d)
    PROVE  BoxInv'
  <1>1. KeysOf(d) = Named(d)
    BY KeysNamed DEF BoxInv
  <1>. PICK old : old = find_raw_entry(d)
    OBVIOUS
  <1>2. old \in Named(d) /\ old \in KeysOf(d)
    BY <1>1, Finds DEF mark_read
  <1>3. old \in Keys /\ cf[old] \in InboxEntry /\ cf[old].conversation_id = d
    BY <1>2 DEF KeysOf, BoxInv, InboxTypeOK
  <1>. DEFINE entry == [cf[old] EXCEPT !.unread = 0]
              c == [pc |-> "delete", old |-> old, entry |-> entry]
  <1>4. entry \in InboxEntry /\ entry.conversation_id = d
    BY <1>3, InboxConstants DEF InboxEntry
  <1>5. inbox_call[t] = NoInboxCall /\ BeginCall(t, c)
    BY DEF mark_read
  <1>. HIDE DEF entry
  <1>6. c \in InboxCall /\ c.pc = "delete" /\ c.entry.conversation_id = d /\ c.old \in Named(d)
    BY <1>2, <1>3, <1>4 DEF InboxCall
  <1>. HIDE DEF c
  <1>. QED
    BY <1>5, <1>6, BeginKeeps

\* The delete_raw of the old key: nothing of the conversation is left.
LEMMA StepDelete ==
    ASSUME BoxInv, NEW t \in InboxThreads, delete(t)
    PROVE  BoxInv'
  <1>. PICK c : c = inbox_call[t]
    OBVIOUS
  <1>. DEFINE d == c.entry.conversation_id
              new == [pc |-> "put", entry |-> c.entry]
  <1>1. /\ c # NoInboxCall /\ c.pc = "delete" /\ c.entry \in InboxEntry
        /\ d \in InboxConversations /\ c.old \in Keys /\ c.old[2] = d
    BY BoxCall DEF delete, BoxInv, KeysOK
  <1>2. /\ new \in InboxCall /\ new # NoInboxCall /\ new.pc = "put" /\ new.entry = c.entry
        /\ inbox_call' = [inbox_call EXCEPT ![t] = new]
        /\ cf' = [cf EXCEPT ![c.old] = NoEntry]
        /\ UNCHANGED <<latest, inbox_raced, cut>>
    BY <1>1, InboxNoneIsNone DEF delete, InboxCall
  <1>3. /\ inbox_call' \in [InboxThreads -> InboxCall \cup {NoInboxCall}] /\ inbox_call'[t] = new
        /\ \A u \in InboxThreads : u # t => inbox_call'[u] = inbox_call[u]
        /\ cf' \in [Keys -> InboxEntry \cup {NoEntry}]
        /\ cf'[c.old] = NoEntry
        /\ \A k \in Keys : k # c.old => cf'[k] = cf[k]
    BY <1>1, <1>2 DEF BoxInv, InboxTypeOK
  <1>. HIDE DEF new
  <1>4. /\ \A e : e # d => Named(e)' = Named(e)
        /\ Named(d)' = Named(d) \ {c.old}
    BY <1>1, <1>3 DEF Named
  <1>5. /\ \A u \in InboxThreads : \A e : Works(u, e)' <=> Works(u, e)
        /\ \A e : Works(t, e) <=> e = d
    BY <1>1, <1>2, <1>3 DEF Works
  <1>. HIDE DEF d
  <1>6. InboxTypeOK'
    BY <1>2, <1>3 DEF BoxInv, InboxTypeOK
  <1>7. KeysOK'
    BY <1>2, <1>3 DEF BoxInv, KeysOK
  <1>8. ASSUME NEW e \in InboxConversations \ inbox_raced' PROVE AloneOK(e)'
    <2>1. AloneOK(e)
      BY <1>2, <1>8 DEF BoxInv
    <2>2. CASE e # d
      BY <2>1, <2>2, <1>3, <1>4, <1>5 DEF AloneOK
    <2>3. CASE e = d
      <3>1. Named(e)' = {}
        BY <2>1, <2>3, <1>1, <1>4, <1>5 DEF AloneOK
      <3>2. \A u \in InboxThreads : Works(u, e)' => u = t
        BY <2>1, <2>3, <1>5 DEF AloneOK
      <3>. QED
        BY <3>1, <3>2, <1>2, <1>3 DEF AloneOK
    <2>. QED
      BY <2>2, <2>3
  <1>9. ASSUME NEW e \in InboxConversations \ (inbox_raced \cup cut)',
               \A u \in InboxThreads : ~Works(u, e)'
        PROVE  LatestOK(e)'
    <2>1. e # d /\ e \notin inbox_raced \cup cut /\ \A u \in InboxThreads : ~Works(u, e)
      BY <1>2, <1>5, <1>9
    <2>2. LatestOK(e)
      BY <2>1, <1>9 DEF BoxInv
    <2>3. Named(e)' = Named(e) /\ \A k \in Named(e) : cf'[k] = cf[k]
      BY <2>1, <1>1, <1>3, <1>4 DEF Named, d
    <2>. QED
      BY <2>2, <2>3, <1>2 DEF LatestOK
  <1>. QED
    BY <1>6, <1>7, <1>8, <1>9 DEF BoxInv

\* The put_raw of the new key: it is the only one of the conversation.
LEMMA StepBoxPut ==
    ASSUME BoxInv, NEW t \in InboxThreads, put_entry(t)
    PROVE  BoxInv'
  <1>. PICK entry : entry = inbox_call[t].entry
    OBVIOUS
  <1>. DEFINE d == entry.conversation_id
              key == encode_key(entry)
  <1>1. /\ inbox_call[t] # NoInboxCall /\ inbox_call[t].pc = "put" /\ entry \in InboxEntry
        /\ d \in InboxConversations /\ key \in Keys /\ key[2] = d /\ entry # NoEntry
    BY BoxCall, BoxKeys, InboxNoneIsNone DEF put_entry, BoxInv
  <1>2. /\ inbox_call' = [inbox_call EXCEPT ![t] = NoInboxCall]
        /\ cf' = [cf EXCEPT ![key] = entry]
        /\ latest' = [latest EXCEPT ![d] = entry]
        /\ UNCHANGED <<inbox_raced, cut>>
    BY DEF put_entry
  <1>3. /\ inbox_call' \in [InboxThreads -> InboxCall \cup {NoInboxCall}]
        /\ inbox_call'[t] = NoInboxCall
        /\ \A u \in InboxThreads : u # t => inbox_call'[u] = inbox_call[u]
        /\ cf' \in [Keys -> InboxEntry \cup {NoEntry}]
        /\ cf'[key] = entry
        /\ \A k \in Keys : k # key => cf'[k] = cf[k]
        /\ latest' \in [InboxConversations -> InboxEntry \cup {NoEntry}]
        /\ latest'[d] = entry
        /\ \A e \in InboxConversations : e # d => latest'[e] = latest[e]
    BY <1>1, <1>2 DEF BoxInv, InboxTypeOK
  <1>4. /\ \A e : e # d => Named(e)' = Named(e)
        /\ Named(d)' = Named(d) \cup {key}
    BY <1>1, <1>3 DEF Named
  <1>5. /\ \A u \in InboxThreads \ {t} : \A e : Works(u, e)' <=> Works(u, e)
        /\ \A e : ~Works(t, e)' /\ (Works(t, e) <=> e = d)
    BY <1>1, <1>2, <1>3 DEF Works
  <1>6. InboxTypeOK'
    BY <1>2, <1>3 DEF BoxInv, InboxTypeOK
  <1>7. KeysOK'
    <2>1. \A k \in Keys : cf'[k] # NoEntry => encode_key(cf'[k]) = k
      BY <1>3 DEF BoxInv, KeysOK
    <2>2. \A k \in Keys : cf'[k] # NoEntry => encode_key(cf[k])' = k
      BY <2>1 DEF encode_key
    <2>. QED
      BY <2>2, <1>3 DEF BoxInv, KeysOK
  <1>. HIDE DEF d, key
  <1>8. ASSUME NEW e \in InboxConversations \ inbox_raced' PROVE AloneOK(e)'
    <2>1. AloneOK(e)
      BY <1>2, <1>8 DEF BoxInv
    <2>2. CASE e # d
      BY <2>1, <2>2, <1>3, <1>4, <1>5 DEF AloneOK
    <2>3. CASE e = d
      <3>1. Named(e)' = {key}
        BY <2>1, <2>3, <1>1, <1>4, <1>5 DEF AloneOK
      <3>2. \A u \in InboxThreads : ~Works(u, e)'
        BY <2>1, <2>3, <1>5 DEF AloneOK
      <3>. QED
        BY <3>1, <3>2 DEF AloneOK
    <2>. QED
      BY <2>2, <2>3
  <1>9. ASSUME NEW e \in InboxConversations \ (inbox_raced \cup cut)',
               \A u \in InboxThreads : ~Works(u, e)'
        PROVE  LatestOK(e)'
    <2>0. e \notin inbox_raced \cup cut
      BY <1>2, <1>9
    <2>1. CASE e # d
      <3>1. LatestOK(e)
        BY <2>0, <2>1, <1>5, <1>9 DEF BoxInv
      <3>2. Named(e)' = Named(e) /\ \A k \in Named(e) : cf'[k] = cf[k]
        BY <2>1, <1>1, <1>3, <1>4 DEF Named
      <3>. QED
        BY <2>1, <3>1, <3>2, <1>3 DEF LatestOK
    <2>2. CASE e = d
      <3>1. AloneOK(e)
        BY <2>0, <1>9 DEF BoxInv
      <3>2. Named(e)' = {key}
        BY <2>2, <3>1, <1>1, <1>4, <1>5 DEF AloneOK
      <3>. QED
        BY <2>2, <3>2, <1>3 DEF LatestOK
    <2>. QED
      BY <2>1, <2>2
  <1>. QED
    BY <1>6, <1>7, <1>8, <1>9 DEF BoxInv

\* The process stops; the calls it was in are noted as cut short.
LEMMA StepBoxCrash ==
    ASSUME BoxInv, InboxCrash
    PROVE  BoxInv'
  <1>1. /\ inbox_call' = [t \in InboxThreads |-> NoInboxCall]
        /\ cut' = cut \cup Busy /\ UNCHANGED <<cf, latest, inbox_raced>>
    BY DEF InboxCrash
  <1>2. \A c : Named(c)' = Named(c) /\ \A t \in InboxThreads : ~Works(t, c)'
    BY <1>1 DEF Named, Works
  <1>3. InboxTypeOK'
    <2>1. Busy \subseteq InboxConversations
      BY BoxCall DEF Busy, BoxInv
    <2>. QED
      BY <1>1, <2>1 DEF BoxInv, InboxTypeOK
  <1>4. KeysOK'
    BY <1>1 DEF BoxInv, KeysOK
  <1>5. \A c \in InboxConversations \ inbox_raced' : AloneOK(c)'
    BY <1>1, <1>2 DEF BoxInv, AloneOK
  <1>6. ASSUME NEW e \in InboxConversations \ (inbox_raced \cup cut)'
        PROVE  LatestOK(e)'
    <2>1. e \notin inbox_raced \cup cut /\ \A u \in InboxThreads : ~Works(u, e)
      BY <1>1, BoxQuiet
    <2>. QED
      BY <2>1, <1>1, <1>2 DEF BoxInv, LatestOK
  <1>. QED
    BY <1>3, <1>4, <1>5, <1>6 DEF BoxInv

\* Every step keeps BoxInv.
LEMMA BoxNext ==
    ASSUME BoxInv, [InboxNext]_inbox_vars
    PROVE  BoxInv'
  <1>1. CASE InboxNext
    BY <1>1, StepUpsert, StepMarkRead, StepDelete, StepBoxPut, StepBoxCrash DEF InboxNext
  <1>2. CASE UNCHANGED inbox_vars
    BY <1>2 DEF inbox_vars, BoxInv, InboxTypeOK, KeysOK, AloneOK, LatestOK, Works, Named
  <1>. QED
    BY <1>1, <1>2

\* What holds in every state of the inbox: the type invariant, entries under
\* their own keys, and what a call that is alone on its conversation knows.
THEOREM BoxInvariant == InboxSpec => []BoxInv
  <1>1. InboxInit => BoxInv
    BY BoxInit
  <1>2. BoxInv /\ [InboxNext]_inbox_vars => BoxInv'
    BY BoxNext
  <1>. QED
    BY <1>1, <1>2, PTL DEF InboxSpec

\* upsert and mark_read: a conversation has one entry in the index, at most,
\* unless two calls worked on it at once.  A call that is stopped between its
\* delete_raw and its put_raw leaves none, never two.
THEOREM InboxOneEntry == InboxSpec => []OneEntryPerConversation
  <1>1. BoxInv => OneEntryPerConversation
    <2>. SUFFICES ASSUME BoxInv, NEW c \in InboxConversations \ inbox_raced
                  PROVE  Cardinality(KeysOf(c)) =< 1
      BY DEF OneEntryPerConversation
    <2>1. Cardinality(KeysOf(c)) = Cardinality(Named(c))
      BY KeysNamed DEF BoxInv
    <2>2. Named(c) = {} \/ \E k : Named(c) = {k}
      <3>1. \A j, k \in Named(c) : j = k
        BY DEF BoxInv, AloneOK
      <3>. QED
        BY <3>1
    <2>3. Cardinality(Named(c)) \in {0, 1}
      BY <2>2, FS_EmptySet, FS_Singleton
    <2>. QED
      BY <2>1, <2>3
  <1>. QED
    BY <1>1, BoxInvariant, PTL

Listed == {k \in Keys : cf[k] # NoEntry}

\* The scan meets every key of the index once, in the order of bytes.
LEMMA BoxScan ==
    /\ ScanIndex \in SetToSeqs(Listed) /\ IsFiniteSet(Listed)
    /\ \A i, j \in DOMAIN ScanIndex : i < j => KeyPrecedes(ScanIndex[i], ScanIndex[j])
  <1>1. IsFiniteSet(Listed) /\ Orders(KeyOrder, Listed) /\ Listed \in SUBSET Keys
    BY KeysInOrder DEF Listed
  <1>2. PICK s \in SetToSeqs(Listed) :
            \A i, j \in DOMAIN s : i < j => <<s[i], s[j]>> \in KeyOrder
    BY <1>1, Sorts
  <1>3. \A i, j \in DOMAIN s : i < j => KeyPrecedes(s[i], s[j])
    BY <1>2 DEF KeyOrder
  <1>4. ScanIndex = CHOOSE r \in SetToSeqs(Listed) :
                      \A i, j \in DOMAIN r : i < j => KeyPrecedes(r[i], r[j])
    BY DEF ScanIndex, Listed
  <1>. QED
    BY <1>1, <1>2, <1>3, <1>4

\* What list_inbox shows, by the places of the scan.
LEMMA BoxShows ==
    ASSUME BoxInv, NEW limit \in Nat
    PROVE  \E m \in 0 .. limit :
              /\ m =< Len(ScanIndex) /\ (m < limit => m = Len(ScanIndex))
              /\ list_inbox(limit) = [i \in 1 .. m |-> cf[ScanIndex[i]]]
              /\ Len(list_inbox(limit)) = m /\ DOMAIN list_inbox(limit) = 1 .. m
  <1>1. Len(ScanIndex) \in Nat
    BY BoxScan, Lists
  <1>. DEFINE m == IF Len(ScanIndex) < limit THEN Len(ScanIndex) ELSE limit
  <1>2. /\ m \in 0 .. limit /\ m =< Len(ScanIndex) /\ (m < limit => m = Len(ScanIndex))
        /\ list_inbox(limit) = [i \in 1 .. m |-> cf[ScanIndex[i]]]
    BY <1>1 DEF list_inbox
  <1>. HIDE DEF m
  <1>3. m \in Nat
    BY <1>2
  <1>. QED
    BY <1>2, <1>3

\* Two entries are in the order of their times where their keys are in that of
\* bytes.
LEMMA NewestFirst ==
    ASSUME BoxInv, NEW j \in Listed, NEW k \in Listed, KeyPrecedes(j, k)
    PROVE  cf[j].last_ts >= cf[k].last_ts
  <1>1. \A l \in Listed : cf[l].last_ts \in 0 .. MaxTs /\ l[1] = MaxTs - cf[l].last_ts
    BY DEF Listed, BoxInv, KeysOK, InboxTypeOK, InboxEntry, encode_key
  <1>. QED
    BY <1>1, InboxConstants DEF KeyPrecedes

\* list_inbox, for any limit: the inverted timestamps of encode_key make the
\* forward scan list the newest first, and what the limit leaves out is older.
THEOREM InboxNewestFirst == InboxSpec => []ListsNewestFirst
  <1>1. BoxInv => ListsNewestFirst
    <2>. SUFFICES ASSUME BoxInv, NEW limit \in Nat
                  PROVE  LET shown == list_inbox(limit)
                             left == {cf[k] : k \in Listed} \ ToSet(shown)
                         IN  /\ Len(shown) =< limit
                             /\ Len(shown) < limit => left = {}
                             /\ \A i, j \in DOMAIN shown :
                                   i < j => shown[i].last_ts >= shown[j].last_ts
                             /\ \A i \in DOMAIN shown : \A e \in left :
                                   shown[i].last_ts >= e.last_ts
      BY DEF ListsNewestFirst, Listed
    <2>. DEFINE shown == list_inbox(limit)
                left == {cf[k] : k \in Listed} \ ToSet(shown)
    <2>. PICK S : S = ScanIndex
      OBVIOUS
    <2>. PICK n : n = Len(S)
      OBVIOUS
    <2>1. /\ n \in Nat
          /\ \A i \in 1 .. n : S[i] \in Listed
          /\ \A k \in Listed : \E i \in 1 .. n : S[i] = k
          /\ \A i, j \in 1 .. n : i < j => KeyPrecedes(S[i], S[j])
      BY BoxScan, Lists
    <2>2. PICK m \in 0 .. limit :
             /\ m =< n /\ (m < limit => m = n)
             /\ shown = [i \in 1 .. m |-> cf[S[i]]]
             /\ Len(shown) = m /\ DOMAIN shown = 1 .. m
      BY BoxShows
    <2>. HIDE DEF shown
    <2>3. \A i, j \in 1 .. n : i < j => cf[S[i]].last_ts >= cf[S[j]].last_ts
      BY <2>1, NewestFirst
    <2>4. \A i \in 1 .. m : i \in 1 .. n /\ shown[i] = cf[S[i]]
      BY <2>1, <2>2
    <2>5. ASSUME NEW e \in left PROVE \E j \in 1 .. n : j > m /\ e = cf[S[j]]
      <3>1. PICK k \in Listed : e = cf[k] /\ e \notin ToSet(shown)
        OBVIOUS
      <3>2. PICK j \in 1 .. n : S[j] = k
        BY <2>1
      <3>3. j \notin 1 .. m
        <4>. SUFFICES ASSUME j \in 1 .. m PROVE FALSE
          OBVIOUS
        <4>1. shown[j] = e /\ j \in DOMAIN shown
          BY <2>2, <2>4, <3>1, <3>2
        <4>. QED
          BY <4>1, <3>1 DEF ToSet
      <3>. QED
        BY <3>1, <3>2, <3>3, <2>1, <2>2
    <2>6. Len(shown) =< limit
      BY <2>2
    <2>7. Len(shown) < limit => left = {}
      <3>. SUFFICES ASSUME m < limit, NEW e \in left PROVE FALSE
        BY <2>2
      <3>. HIDE DEF left
      <3>. QED
        BY <2>1, <2>2, <2>5
    <2>8. \A i, j \in DOMAIN shown : i < j => shown[i].last_ts >= shown[j].last_ts
      BY <2>2, <2>3, <2>4
    <2>9. ASSUME NEW i \in DOMAIN shown, NEW e \in left
          PROVE  shown[i].last_ts >= e.last_ts
      <3>. HIDE DEF left
      <3>1. PICK j \in 1 .. n : j > m /\ e = cf[S[j]]
        BY <2>5
      <3>2. i \in 1 .. n /\ shown[i] = cf[S[i]] /\ i < j
        BY <2>1, <2>2, <2>4, <3>1
      <3>. QED
        BY <3>1, <3>2, <2>3
    <2>. QED
      BY <2>6, <2>7, <2>8, <2>9 DEF shown, left
  <1>. QED
    BY <1>1, BoxInvariant, PTL

\* Between calls of a conversation the index has what the last of them made of it.
LEMMA ShowsLatest ==
    ASSUME BoxInv, NEW c \in Undisturbed
    PROVE  {cf[k] : k \in KeysOf(c)} = {latest[c]} \ {NoEntry}
  <1>1. KeysOf(c) = Named(c)
    BY KeysNamed DEF BoxInv
  <1>2. LatestOK(c)
    BY BoxQuiet DEF BoxInv
  <1>3. \A k \in Named(c) : cf[k] # NoEntry
    BY DEF Named
  <1>. QED
    BY <1>1, <1>2, <1>3 DEF LatestOK

\* The sums of stats are those of the conversations, each counted once.
LEMMA TotalsOfLatest ==
    ASSUME BoxInv, Undisturbed = InboxConversations
    PROVE  \E s \in SetToSeqs(Known) :
              stats = [total_unread |-> Total([i \in DOMAIN s |-> latest[s[i]].unread]),
                           conversation_count |-> Len(s)]
  <1>. PICK S : S = ScanIndex
    OBVIOUS
  <1>. PICK n : n = Len(S)
    OBVIOUS
  <1>1. /\ n \in Nat /\ DOMAIN S = 1 .. n /\ S \in SetToSeqs(Listed)
        /\ \A i \in 1 .. n : S[i] \in Listed
        /\ \A k \in Listed : \E i \in 1 .. n : S[i] = k
        /\ \A i, j \in 1 .. n : S[i] = S[j] => i = j
    BY BoxScan, Lists
  <1>2. /\ \A c \in InboxConversations : LatestOK(c) /\ AloneOK(c)
        /\ \A k \in Listed : k[2] \in InboxConversations /\ k \in Named(k[2])
    BY BoxQuiet, BoxKeys DEF BoxInv, Listed, Named
  <1>. DEFINE s == [i \in 1 .. n |-> S[i][2]]
  <1>3. \A i \in 1 .. n : s[i] \in Known /\ latest[s[i]] = cf[S[i]]
    <2>. TAKE i \in 1 .. n
    <2>1. S[i] \in Named(s[i]) /\ s[i] \in InboxConversations
      BY <1>1, <1>2
    <2>2. latest[s[i]] = cf[S[i]] /\ cf[S[i]] # NoEntry
      BY <2>1, <1>2 DEF LatestOK, Named
    <2>. QED
      BY <2>1, <2>2 DEF Known
  <1>4. \A i, j \in 1 .. n : s[i] = s[j] => i = j
    <2>. SUFFICES ASSUME NEW i \in 1 .. n, NEW j \in 1 .. n, s[i] = s[j] PROVE S[i] = S[j]
      BY <1>1
    <2>1. S[i] \in Named(s[i]) /\ S[j] \in Named(s[i]) /\ s[i] \in InboxConversations
      BY <1>1, <1>2
    <2>. QED
      BY <2>1, <1>2 DEF AloneOK
  <1>5. \A c \in Known : \E i \in 1 .. n : s[i] = c
    <2>. TAKE c \in Known
    <2>1. PICK k : k \in Named(c)
      BY <1>2 DEF Known, LatestOK
    <2>2. k \in Listed /\ k[2] = c
      BY <2>1 DEF Named, Listed
    <2>. QED
      BY <2>2, <1>1
  <1>6. s \in [1 .. n -> Known] /\ DOMAIN s = 1 .. n /\ Len(s) = n
    BY <1>1, <1>3
  <1>7. [i \in DOMAIN s |-> latest[s[i]].unread] = [i \in DOMAIN S |-> cf[S[i]].unread]
    BY <1>1, <1>3, <1>6
  <1>. HIDE DEF s
  <1>8. Cardinality(Known) = n
    <2>1. IsFiniteSet(1 .. n) /\ Cardinality(1 .. n) = n
      <3>1. 1 \in Int /\ n \in Int /\ (IF 1 > n THEN 0 ELSE n - 1 + 1) = n
        BY <1>1
      <3>. QED
        BY <3>1, FS_Interval
    <2>2. s \in Surjection(1 .. n, Known)
      BY <1>5, <1>6 DEF Surjection
    <2>3. s \in Injection(1 .. n, Known)
      BY <1>4, <1>6 DEF Injection, IsInjective
    <2>. QED
      BY <2>1, <2>2, <2>3, FS_Surjection
  <1>9. s \in SetToSeqs(Known)
    BY <1>4, <1>6, <1>8 DEF SetToSeqs
  <1>10. stats = [total_unread |-> Total([i \in DOMAIN s |-> latest[s[i]].unread]),
                      conversation_count |-> Len(s)]
    BY <1>6, <1>7 DEF stats
  <1>. QED
    BY <1>9, <1>10

\* Between calls, the index has for every conversation what the last upsert or
\* mark_read to return made of it, and stats adds up exactly these entries,
\* where no calls raced and none was cut short.
THEOREM InboxShowsLatest == InboxSpec => []IndexShowsLatest
  <1>1. BoxInv => IndexShowsLatest
    BY ShowsLatest, TotalsOfLatest DEF IndexShowsLatest
  <1>. QED
    BY <1>1, BoxInvariant, PTL

----------------------------------------------------------------------------
(* The history of direct messages *)

DmKeys == MsgKeys \cup {storage_key(c) : c \in DmConversations}

\* The prefix of a conversation's messages.
LEMMA DmPrefix ==
    ASSUME NEW c \in DmConversations
    PROVE  LET P == make_msg_prefix(c)
           IN  /\ P \in Seq(Nat) /\ Len(P) = Len(c) + 1 /\ Len(P) \in Nat /\ P[1] = 1
               /\ \A i \in 1 .. Len(P) : P[i] \in 0 .. MaxByte
               /\ \A i \in 1 .. Len(c) : P[i + 1] = c[i]
  BY HistoryConstants DEF make_msg_prefix

\* The key of a message: the prefix of its conversation and its id.
LEMMA DmKey ==
    ASSUME NEW c \in DmConversations, NEW id \in MessageIds
    PROVE  LET P == make_msg_prefix(c)
               K == make_msg_key(c, id)
           IN  /\ K \in Seq(Nat) /\ Len(K) = Len(P) + 1
               /\ \A i \in 1 .. Len(P) : K[i] = P[i]
               /\ K[Len(P) + 1] = id /\ IdOf(K) = id
               /\ StartsWith(K, P)
  <1>. DEFINE P == make_msg_prefix(c)
              K == make_msg_key(c, id)
  <1>1. P \in Seq(Nat) /\ Len(P) \in Nat /\ id \in Nat
    BY DmPrefix, HistoryConstants
  <1>2. K = P \o <<id>>
    BY DEF make_msg_key
  <1>. HIDE DEF P, K
  <1>3. /\ K \in Seq(Nat) /\ Len(K) = Len(P) + 1
        /\ \A i \in 1 .. Len(P) : K[i] = P[i]
        /\ K[Len(P) + 1] = id
    BY <1>1, <1>2
  <1>4. SubSeq(K, 1, Len(P)) = P
    BY <1>1, <1>3
  <1>. QED
    BY <1>1, <1>3, <1>4 DEF P, K, IdOf, StartsWith

\* The key of a conversation itself.
LEMMA DmStorageKey ==
    ASSUME NEW c \in DmConversations
    PROVE  /\ storage_key(c) \in Seq(Nat) /\ Len(storage_key(c)) = Len(c) + 1
           /\ storage_key(c)[1] = 0
           /\ \A i \in 1 .. Len(c) + 1 : storage_key(c)[i] \in 0 .. MaxByte
  BY HistoryConstants DEF storage_key

\* Two keys are compared at the first place where they differ.
LEMMA DmCompare ==
    ASSUME NEW a \in Seq(Nat), NEW b \in Seq(Nat), NEW i \in 1 .. Len(a), i =< Len(b),
           \A j \in 1 .. i - 1 : a[j] = b[j], a[i] # b[i]
    PROVE  /\ Precedes(a, b) <=> a[i] < b[i]
           /\ a # b
  <1>1. a[i] < b[i] => Precedes(a, b)
    BY DEF Precedes
  <1>2. ASSUME Precedes(a, b) PROVE a[i] < b[i]
    <2>1. PICK k \in DOMAIN b :
             /\ \A j \in 1 .. k - 1 : j \in DOMAIN a /\ a[j] = b[j]
             /\ k \in DOMAIN a => a[k] < b[k]
      BY <1>2 DEF Precedes
    <2>2. k \in 1 .. Len(b)
      OBVIOUS
    <2>3. k =< i
      BY <2>1, <2>2
    <2>4. k \in DOMAIN a
      BY <2>2, <2>3
    <2>. QED
      BY <2>1, <2>2, <2>3, <2>4
  <1>. QED
    BY <1>1, <1>2

\* k departs from P at place i.
Departs(k, P, i) ==
    /\ i \in 1 .. Len(P)
    /\ \A j \in 1 .. i - 1 : k[j] = P[j]
    /\ k[i] # P[i]

\* A sequence at least as long as another one starts with it or departs from it.
LEMMA StartsOrDeparts ==
    ASSUME NEW k \in Seq(Nat), NEW P \in Seq(Nat), Len(k) >= Len(P)
    PROVE  \/ \A i \in 1 .. Len(P) : k[i] = P[i]
           \/ \E i : Departs(k, P, i)
  <1>. DEFINE T == {i \in 1 .. Len(P) : k[i] # P[i]}
              R == {p \in Nat \X Nat : p[1] < p[2]}
  <1>1. CASE T = {}
    BY <1>1
  <1>2. CASE T # {}
    <2>1. IsFiniteSet(T)
      <3>1. 1 \in Int /\ Len(P) \in Int
        OBVIOUS
      <3>2. IsFiniteSet(1 .. Len(P))
        BY <3>1, FS_Interval
      <3>3. T \in SUBSET (1 .. Len(P))
        OBVIOUS
      <3>. QED
        BY <3>2, <3>3, FS_Subset
    <2>2. \A x, y \in Nat : <<x, y>> \in R <=> x < y
      OBVIOUS
    <2>3. T \subseteq Nat
      OBVIOUS
    <2>4. Orders(R, T)
      <3>. HIDE DEF R, T
      <3>. QED
        BY <2>2, <2>3 DEF Orders
    <2>5. PICK i \in T : \A j \in T \ {i} : <<i, j>> \in R
      <3>. HIDE DEF R, T
      <3>. QED
        BY <1>2, <2>1, <2>4, Ends
    <2>6. \A j \in T \ {i} : i < j
      BY <2>2, <2>3, <2>5
    <2>7. \A j \in 1 .. i - 1 : k[j] = P[j]
      <3>. SUFFICES ASSUME NEW j \in 1 .. i - 1, k[j] # P[j] PROVE FALSE
        OBVIOUS
      <3>1. PICK n \in Nat : n = Len(P)
        OBVIOUS
      <3>2. j \in 1 .. n /\ j # i /\ ~(i < j)
        <4>1. i \in 1 .. n /\ j \in 1 .. i - 1
          BY <2>5, <3>1
        <4>. HIDE DEF T, R
        <4>. QED
          BY <4>1
      <3>3. j \in T
        BY <3>1, <3>2
      <3>. QED
        BY <3>2, <3>3, <2>6
    <2>. QED
      BY <2>5, <2>7 DEF Departs
  <1>. QED
    BY <1>1, <1>2

\* The keys of CF_CHAINS, seen from a conversation: its messages, and keys that
\* depart from its prefix.
LEMMA DmKinds ==
    ASSUME NEW c \in DmConversations, NEW k \in DmKeys
    PROVE  LET P == make_msg_prefix(c)
           IN  /\ k \in Seq(Nat) /\ Len(k) \in {Len(P), Len(P) + 1}
               /\ \A i \in 1 .. Len(P) : k[i] \in 0 .. MaxByte
               /\ Len(k) = Len(P) => k[1] = 0
               /\ StartsWith(k, P) => \E id \in MessageIds : k = make_msg_key(c, id)
               /\ ~StartsWith(k, P) => \E i : Departs(k, P, i)
  <1>. DEFINE P == make_msg_prefix(c)
  <1>1. /\ P \in Seq(Nat) /\ Len(P) = Len(c) + 1 /\ Len(P) \in Nat /\ P[1] = 1 /\ Len(c) \in Nat
        /\ \A d \in DmConversations : Len(d) = Len(c)
    BY DmPrefix, HistoryConstants
  <1>2. CASE k \in MsgKeys
    <2>1. PICK d \in DmConversations, id \in MessageIds : k = make_msg_key(d, id)
      BY <1>2 DEF MsgKeys
    <2>. DEFINE Q == make_msg_prefix(d)
    <2>2. /\ Q \in Seq(Nat) /\ Len(Q) = Len(P)
          /\ \A i \in 1 .. Len(P) : Q[i] \in 0 .. MaxByte
      BY <1>1, DmPrefix
    <2>3. /\ k \in Seq(Nat) /\ Len(k) = Len(P) + 1
          /\ \A i \in 1 .. Len(P) : k[i] = Q[i]
          /\ StartsWith(k, Q)
      <3>1. /\ k \in Seq(Nat) /\ Len(k) = Len(Q) + 1
            /\ \A i \in 1 .. Len(Q) : k[i] = Q[i]
            /\ StartsWith(k, Q)
        BY <2>1, DmKey
      <3>. QED
        BY <2>2, <3>1
    <2>. HIDE DEF P, Q
    <2>4. SubSeq(k, 1, Len(P)) = Q
      BY <2>2, <2>3 DEF StartsWith
    <2>5. ASSUME StartsWith(k, P) PROVE k = make_msg_key(c, id)
      <3>1. P = Q
        BY <2>5, <2>4 DEF StartsWith
      <3>. QED
        BY <3>1, <2>1 DEF make_msg_key, P, Q
    <2>6. ASSUME ~StartsWith(k, P) PROVE \E i : Departs(k, P, i)
      <3>1. P # Q
        BY <2>6, <2>3
      <3>2. ~\A i \in 1 .. Len(P) : k[i] = P[i]
        <4>. SUFFICES ASSUME \A i \in 1 .. Len(P) : k[i] = P[i] PROVE FALSE
          OBVIOUS
        <4>1. \A i \in 1 .. Len(P) : P[i] = Q[i]
          BY <2>3
        <4>. QED
          BY <4>1, <3>1, <2>2, <1>1, SeqEqual
      <3>3. Len(k) >= Len(P)
        BY <2>3, <1>1
      <3>. QED
        BY <3>2, <3>3, <2>3, <1>1, StartsOrDeparts
    <2>. QED
      BY <2>2, <2>3, <2>5, <2>6, <1>1 DEF P
  <1>3. CASE k \in {storage_key(d) : d \in DmConversations}
    <2>1. /\ k \in Seq(Nat) /\ Len(k) = Len(P) /\ k[1] = 0
          /\ \A i \in 1 .. Len(P) : k[i] \in 0 .. MaxByte
      BY <1>3, <1>1, DmStorageKey
    <2>. HIDE DEF P
    <2>2. Departs(k, P, 1)
      BY <2>1, <1>1 DEF Departs
    <2>3. ~StartsWith(k, P)
      <3>. SUFFICES ASSUME SubSeq(k, 1, Len(P)) = P PROVE FALSE
        BY DEF StartsWith
      <3>1. SubSeq(k, 1, Len(P))[1] = k[1]
        BY <2>1, <1>1
      <3>. QED
        BY <3>1, <2>1, <1>1
    <2>. QED
      BY <2>1, <2>2, <2>3 DEF P
  <1>. QED
    BY <1>2, <1>3 DEF DmKeys

\* The messages of a conversation are in the order of their ids.
LEMMA DmSameOrder ==
    ASSUME NEW c \in DmConversations, NEW x \in MessageIds, NEW y \in MessageIds
    PROVE  /\ Precedes(make_msg_key(c, x), make_msg_key(c, y)) <=> x < y
           /\ make_msg_key(c, x) = make_msg_key(c, y) <=> x = y
  <1>. PICK P, a, b : /\ P = make_msg_prefix(c)
                      /\ a = make_msg_key(c, x) /\ b = make_msg_key(c, y)
    OBVIOUS
  <1>1. /\ a \in Seq(Nat) /\ b \in Seq(Nat) /\ Len(a) = Len(P) + 1 /\ Len(b) = Len(P) + 1
        /\ \A i \in 1 .. Len(P) : a[i] = b[i]
        /\ a[Len(P) + 1] = x /\ b[Len(P) + 1] = y /\ Len(P) \in Nat
        /\ x \in Nat /\ y \in Nat
    <2>1. P \in Seq(Nat) /\ Len(P) \in Nat
      BY DmPrefix
    <2>2. /\ a \in Seq(Nat) /\ Len(a) = Len(P) + 1 /\ a[Len(P) + 1] = x
          /\ \A i \in 1 .. Len(P) : a[i] = P[i]
      BY DmKey
    <2>3. /\ b \in Seq(Nat) /\ Len(b) = Len(P) + 1 /\ b[Len(P) + 1] = y
          /\ \A i \in 1 .. Len(P) : b[i] = P[i]
      BY DmKey
    <2>4. x \in Nat /\ y \in Nat
      BY HistoryConstants
    <2>. QED
      BY <2>1, <2>2, <2>3, <2>4
  <1>2. CASE x # y
    <2>. PICK n : n = Len(P) + 1
      OBVIOUS
    <2>1. /\ n \in 1 .. Len(a) /\ n =< Len(b) /\ a[n] # b[n]
          /\ \A j \in 1 .. n - 1 : a[j] = b[j]
      BY <1>1, <1>2
    <2>2. (Precedes(a, b) <=> a[n] < b[n]) /\ a # b
      BY <2>1, <1>1, DmCompare
    <2>. QED
      BY <1>1, <1>2, <2>2
  <1>3. CASE x = y
    <2>1. ~Precedes(a, a)
      BY <1>1 DEF Precedes
    <2>. QED
      BY <1>1, <1>3, <2>1
  <1>. QED
    BY <1>2, <1>3

\* A key that departs from the prefix is on the same side of all messages.
LEMMA DmApart ==
    ASSUME NEW c \in DmConversations, NEW id \in MessageIds, NEW k \in DmKeys,
           NEW i, Departs(k, make_msg_prefix(c), i)
    PROVE  LET P == make_msg_prefix(c)
               K == make_msg_key(c, id)
           IN  /\ Precedes(k, K) <=> k[i] < P[i]
               /\ Precedes(K, k) <=> P[i] < k[i]
               /\ k # K
  <1>. PICK P, K : P = make_msg_prefix(c) /\ K = make_msg_key(c, id)
    OBVIOUS
  <1>1. /\ k \in Seq(Nat) /\ K \in Seq(Nat) /\ Len(k) \in {Len(P), Len(P) + 1}
        /\ Len(K) = Len(P) + 1 /\ Len(P) \in Nat
        /\ \A j \in 1 .. Len(P) : K[j] = P[j]
    BY DmPrefix, DmKey, DmKinds
  <1>2. /\ i \in 1 .. Len(K) /\ i \in 1 .. Len(k) /\ i =< Len(K) /\ i =< Len(k)
        /\ k[i] # K[i] /\ K[i] = P[i]
        /\ \A j \in 1 .. i - 1 : k[j] = K[j]
    <2>1. /\ i \in 1 .. Len(P) /\ k[i] # P[i]
          /\ \A j \in 1 .. i - 1 : k[j] = P[j]
      BY DEF Departs
    <2>2. K[i] = P[i] /\ k[i] # K[i]
      BY <1>1, <2>1
    <2>3. \A j \in 1 .. i - 1 : j \in 1 .. Len(P)
      BY <1>1, <2>1
    <2>4. \A j \in 1 .. i - 1 : k[j] = K[j]
      BY <1>1, <2>1, <2>3
    <2>. QED
      BY <1>1, <2>1, <2>2, <2>4
  <1>3. (Precedes(k, K) <=> k[i] < K[i]) /\ k # K
    BY <1>1, <1>2, DmCompare
  <1>4. Precedes(K, k) <=> K[i] < k[i]
    BY <1>1, <1>2, DmCompare
  <1>. QED
    BY <1>2, <1>3, <1>4

\* increment_bytes adds one at some place, with a carry behind it.
LEMMA DmIncrement ==
    ASSUME NEW c \in DmConversations
    PROVE  LET P == make_msg_prefix(c)
               Q == increment_bytes(P)
           IN  \E n \in 1 .. Len(P) :
                  /\ Q \in Seq(Nat) /\ Len(Q) = Len(P)
                  /\ \A i \in 1 .. n - 1 : Q[i] = P[i]
                  /\ Q[n] = P[n] + 1
                  /\ \A i \in n + 1 .. Len(P) : Q[i] = 0 /\ P[i] = MaxByte
  <1>. PICK P : P = make_msg_prefix(c)
    OBVIOUS
  <1>1. /\ P \in Seq(Nat) /\ Len(P) \in Nat /\ 1 \in 1 .. Len(P) /\ P[1] < MaxByte
        /\ \A i \in 1 .. Len(P) : P[i] \in 0 .. MaxByte
        /\ DOMAIN P = 1 .. Len(P) /\ MaxByte \in Nat
    <2>1. Len(P) = Len(c) + 1 /\ Len(c) \in Nat /\ MaxByte \in Nat /\ MaxByte > 1
      BY DmPrefix, HistoryConstants
    <2>. QED
      BY <2>1, DmPrefix
  <1>. DEFINE T == {i \in 1 .. Len(P) : P[i] < MaxByte}
              R == {p \in Nat \X Nat : p[1] < p[2]}
              last == {i \in DOMAIN P : /\ P[i] < MaxByte
                                        /\ \A j \in i + 1 .. Len(P) : P[j] = MaxByte}
              n == CHOOSE i \in last : TRUE
              Q == increment_bytes(P)
  <1>2. last # {}
    <2>1. IsFiniteSet(T)
      <3>1. 1 \in Int /\ Len(P) \in Int
        BY <1>1
      <3>2. IsFiniteSet(1 .. Len(P))
        BY <3>1, FS_Interval
      <3>3. T \in SUBSET (1 .. Len(P))
        OBVIOUS
      <3>. QED
        BY <3>2, <3>3, FS_Subset
    <2>2. \A x, y \in Nat : <<x, y>> \in R <=> x < y
      OBVIOUS
    <2>3. T \subseteq Nat /\ T # {}
      BY <1>1
    <2>4. Orders(R, T)
      <3>. HIDE DEF R, T
      <3>. QED
        BY <2>2, <2>3 DEF Orders
    <2>5. PICK i \in T : \A j \in T \ {i} : <<j, i>> \in R
      <3>. HIDE DEF R, T
      <3>. QED
        BY <2>1, <2>3, <2>4, Ends
    <2>6. \A j \in T \ {i} : j < i
      BY <2>2, <2>3, <2>5
    <2>7. ASSUME NEW j \in i + 1 .. Len(P) PROVE P[j] = MaxByte
      <3>1. j \in 1 .. Len(P) /\ j # i /\ ~(j < i)
        BY <2>5, <2>7, <1>1
      <3>2. j \notin T
        BY <3>1, <2>6
      <3>. QED
        BY <3>1, <3>2, <1>1
    <2>8. i \in last
      BY <2>5, <2>7, <1>1
    <2>. QED
      BY <2>8
  <1>3. n \in last
    BY <1>2
  <1>4. Q = [i \in DOMAIN P |-> IF i < n THEN P[i] ELSE IF i = n THEN P[i] + 1 ELSE 0]
    BY <1>2 DEF increment_bytes
  <1>5. n \in 1 .. Len(P) /\ \A j \in n + 1 .. Len(P) : P[j] = MaxByte
    BY <1>3, <1>1
  <1>. HIDE DEF n, Q
  <1>6. Q \in Seq(Nat) /\ Len(Q) = Len(P)
    <2>1. Q \in [1 .. Len(P) -> Nat]
      <3>1. \A i \in 1 .. Len(P) : P[i] \in Nat /\ P[i] + 1 \in Nat
        BY <1>1
      <3>. QED
        BY <1>1, <1>4, <3>1
    <2>2. PICK m \in Nat : m = Len(P)
      BY <1>1
    <2>3. Q \in [1 .. m -> Nat]
      BY <2>1, <2>2
    <2>4. Q \in Seq(Nat) /\ Len(Q) = m
      BY <2>3
    <2>. QED
      BY <2>2, <2>4
  <1>7. \A i \in 1 .. Len(P) : Q[i] = IF i < n THEN P[i] ELSE IF i = n THEN P[i] + 1 ELSE 0
    BY <1>1, <1>4
  <1>8. \A i \in 1 .. n - 1 : Q[i] = P[i]
    BY <1>5, <1>7, <1>1
  <1>9. Q[n] = P[n] + 1 /\ \A i \in n + 1 .. Len(P) : Q[i] = 0
    BY <1>5, <1>7, <1>1
  <1>. QED
    BY <1>5, <1>6, <1>8, <1>9 DEF Q

\* The key that a scan without cursor starts from has the messages of the
\* conversation below it and what is above them not.
LEMMA DmUpper ==
    ASSUME NEW c \in DmConversations
    PROVE  LET P == make_msg_prefix(c)
               Q == increment_bytes(P)
           IN  /\ \A id \in MessageIds : Precedes(make_msg_key(c, id), Q)
               /\ \A k \in DmKeys : \A i :
                     Departs(k, P, i) /\ P[i] < k[i] => k # Q /\ ~Precedes(k, Q)
  <1>. PICK P, Q : P = make_msg_prefix(c) /\ Q = increment_bytes(P)
    OBVIOUS
  <1>1. /\ P \in Seq(Nat) /\ Len(P) \in Nat /\ P[1] = 1
        /\ \A i \in 1 .. Len(P) : P[i] \in 0 .. MaxByte
    BY DmPrefix
  <1>2. PICK n \in 1 .. Len(P) :
          /\ Q \in Seq(Nat) /\ Len(Q) = Len(P)
          /\ \A i \in 1 .. n - 1 : Q[i] = P[i]
          /\ Q[n] = P[n] + 1
          /\ \A i \in n + 1 .. Len(P) : Q[i] = 0 /\ P[i] = MaxByte
    BY DmIncrement
  <1>3. ASSUME NEW id \in MessageIds PROVE Precedes(make_msg_key(c, id), Q)
    <2>. PICK K : K = make_msg_key(c, id)
      OBVIOUS
    <2>1. /\ K \in Seq(Nat) /\ Len(K) = Len(P) + 1
          /\ \A i \in 1 .. Len(P) : K[i] = P[i]
      BY DmKey
    <2>2. n \in 1 .. Len(K) /\ n =< Len(Q) /\ K[n] # Q[n] /\ K[n] < Q[n]
          /\ \A j \in 1 .. n - 1 : K[j] = Q[j]
      <3>1. K[n] = P[n] /\ P[n] \in Nat /\ Q[n] = P[n] + 1
        BY <1>1, <1>2, <2>1
      <3>2. \A j \in 1 .. n - 1 : j \in 1 .. Len(P)
        BY <1>1
      <3>3. n \in 1 .. Len(P) + 1 /\ n =< Len(P)
        BY <1>1
      <3>. QED
        BY <3>1, <3>2, <3>3, <1>2, <2>1
    <2>3. K \in Seq(Nat) /\ Q \in Seq(Nat)
      BY <1>2, <2>1
    <2>4. Precedes(K, Q) <=> K[n] < Q[n]
      BY <2>2, <2>3, DmCompare
    <2>. QED
      BY <2>2, <2>4
  <1>4. ASSUME NEW k \in DmKeys, NEW i, Departs(k, P, i), P[i] < k[i]
        PROVE  k # Q /\ ~Precedes(k, Q)
    <2>1. /\ k \in Seq(Nat) /\ Len(k) \in {Len(P), Len(P) + 1}
          /\ \A j \in 1 .. Len(P) : k[j] \in 0 .. MaxByte
          /\ Len(k) = Len(P) => k[1] = 0
      BY DmKinds
    <2>2. i \in 1 .. Len(P) /\ \A j \in 1 .. i - 1 : k[j] = P[j]
      BY <1>4 DEF Departs
    <2>3. MaxByte \in Nat
      BY HistoryConstants
    <2>4. i =< n
      <3>. SUFFICES ASSUME i > n PROVE FALSE
        BY <2>2, <1>2
      <3>1. P[i] = MaxByte /\ k[i] \in 0 .. MaxByte
        BY <2>1, <2>2, <1>1, <1>2
      <3>. QED
        BY <3>1, <1>4, <2>3
    <2>5. CASE k[i] # Q[i]
      <3>1. /\ i \in 1 .. Len(k) /\ i =< Len(Q) /\ ~(k[i] < Q[i])
            /\ \A j \in 1 .. i - 1 : k[j] = Q[j]
        <4>1. i \in 1 .. Len(k) /\ i =< Len(Q)
          BY <1>1, <1>2, <2>1, <2>2
        <4>2. Q[i] = P[i] \/ Q[i] = P[i] + 1
          BY <1>2, <2>2, <2>4
        <4>3. k[i] \in Nat /\ P[i] \in Nat
          <5>1. k[i] \in 0 .. MaxByte
            BY <2>1, <2>2
          <5>2. P[i] \in Nat
            BY <1>1, <2>2
          <5>. QED
            BY <5>1, <5>2, <2>3
        <4>4. \A j \in 1 .. i - 1 : j \in 1 .. n - 1
          BY <2>2, <2>4
        <4>5. ~(k[i] < Q[i])
          BY <4>2, <4>3, <1>4
        <4>6. \A j \in 1 .. i - 1 : k[j] = Q[j]
          BY <4>4, <1>2, <2>2
        <4>. QED
          BY <4>1, <4>5, <4>6
      <3>. QED
        BY <3>1, <2>1, <2>5, <1>2, DmCompare
    <2>6. CASE k[i] = Q[i]
      <3>1. i = n
        BY <2>6, <2>4, <2>2, <1>1, <1>2, <1>4
      <3>2. \A j \in 1 .. n : k[j] = Q[j]
        BY <3>1, <2>2, <2>6, <1>1, <1>2
      <3>3. k # Q
        <4>. SUFFICES ASSUME k = Q PROVE FALSE
          OBVIOUS
        <4>1. k[1] = 0 /\ Q[1] = k[1]
          BY <2>1, <1>2
        <4>2. Q[1] >= 1
          BY <1>1, <1>2
        <4>. QED
          BY <4>1, <4>2
      <3>4. ~Precedes(k, Q)
        <4>. SUFFICES ASSUME NEW l \in 1 .. Len(Q),
                             \A j \in 1 .. l - 1 : j \in DOMAIN k /\ k[j] = Q[j],
                             l \in DOMAIN k => k[l] < Q[l]
                      PROVE  FALSE
          BY <1>2 DEF Precedes
        <4>1. l \in 1 .. Len(k) /\ k[l] \in Nat
          <5>1. l \in 1 .. Len(P)
            BY <1>2
          <5>2. l \in 1 .. Len(k)
            BY <5>1, <2>1, <1>1
          <5>. QED
            BY <5>2, <2>1
        <4>2. k[l] < Q[l]
          BY <4>1
        <4>3. l > n
          BY <3>2, <4>1, <4>2, <1>2
        <4>4. Q[l] = 0
          BY <4>3, <1>1, <1>2
        <4>. QED
          BY <4>1, <4>2, <4>4
      <3>. QED
        BY <3>3, <3>4
    <2>. QED
      BY <2>5, <2>6
  <1>. QED
    BY <1>3, <1>4

\* The messages of a conversation, as keys and as ids.
LEMMA DmMessages ==
    ASSUME index \subseteq DmKeys, NEW c \in DmConversations
    PROVE  /\ \A k \in MessagesOf(c) :
                 /\ k \in index /\ StartsWith(k, make_msg_prefix(c))
                 /\ IdOf(k) \in MessageIds /\ IdOf(k) \in Nat
                 /\ k = make_msg_key(c, IdOf(k))
           /\ \A j, k \in MessagesOf(c) :
                 /\ Precedes(j, k) <=> IdOf(j) < IdOf(k)
                 /\ IdOf(j) = IdOf(k) => j = k
           /\ IsFiniteSet(MessagesOf(c))
  <1>1. ASSUME NEW k \in MessagesOf(c)
        PROVE  /\ k \in index /\ StartsWith(k, make_msg_prefix(c))
               /\ IdOf(k) \in MessageIds /\ IdOf(k) \in Nat
               /\ k = make_msg_key(c, IdOf(k))
    <2>1. k \in index /\ StartsWith(k, make_msg_prefix(c)) /\ k \in DmKeys
      BY DEF MessagesOf
    <2>2. PICK id \in MessageIds : k = make_msg_key(c, id)
      BY <2>1, DmKinds
    <2>3. IdOf(k) = id /\ id \in Nat
      BY <2>2, DmKey, HistoryConstants
    <2>. QED
      BY <2>1, <2>2, <2>3
  <1>2. ASSUME NEW j \in MessagesOf(c), NEW k \in MessagesOf(c)
        PROVE  /\ Precedes(j, k) <=> IdOf(j) < IdOf(k)
               /\ IdOf(j) = IdOf(k) => j = k
    <2>1. PICK x \in MessageIds : x = IdOf(j) /\ j = make_msg_key(c, x)
      BY <1>1
    <2>2. PICK y \in MessageIds : y = IdOf(k) /\ k = make_msg_key(c, y)
      BY <1>1
    <2>. QED
      BY <2>1, <2>2, DmSameOrder
  <1>3. IsFiniteSet(MessagesOf(c))
    <2>. DEFINE S == MessagesOf(c)
                f == [k \in S |-> IdOf(k)]
    <2>1. f \in Injection(S, MessageIds)
      BY <1>1, <1>2 DEF Injection, IsInjective
    <2>2. IsFiniteSet(MessageIds)
      BY HistoryConstants
    <2>. QED
      BY <2>1, <2>2, FS_Injection
  <1>. QED
    BY <1>1, <1>2, <1>3

\* What the reverse scan of a conversation meets: its messages up to the
\* cursor, and nothing of its neighbours.
LEMMA DmScan ==
    ASSUME index \subseteq DmKeys, NEW c \in DmConversations,
           NEW before \in MessageIds \cup {None}
    PROVE  Scan(Seek(c, before), make_msg_prefix(c))
               = {k \in MessagesOf(c) : before = None \/ IdOf(k) =< before}
  <1>. PICK P, seek : P = make_msg_prefix(c) /\ seek = Seek(c, before)
    OBVIOUS
  <1>. DEFINE M == MessagesOf(c)
              below == {k \in index : k = seek \/ Precedes(k, seek)}
  <1>1. None \notin MessageIds /\ MessageIds \subseteq Nat
    BY HistoryConstants, HistoryNoneIsNone
  <1>2. \A k \in M : k \in below <=> (before = None \/ IdOf(k) =< before)
    <2>. SUFFICES ASSUME NEW k \in M
                  PROVE  k \in below <=> (before = None \/ IdOf(k) =< before)
      OBVIOUS
    <2>1. /\ k \in index /\ IdOf(k) \in MessageIds /\ IdOf(k) \in Nat
          /\ k = make_msg_key(c, IdOf(k))
      BY DmMessages
    <2>2. CASE before = None
      <3>1. seek = increment_bytes(P)
        BY <2>2 DEF Seek
      <3>. QED
        BY <2>1, <2>2, <3>1, DmUpper
    <2>3. CASE before # None
      <3>1. seek = make_msg_key(c, before) /\ before \in MessageIds /\ before \in Nat
        BY <2>3, <1>1 DEF Seek
      <3>2. /\ Precedes(k, seek) <=> IdOf(k) < before
            /\ k = seek <=> IdOf(k) = before
        BY <2>1, <3>1, DmSameOrder
      <3>. QED
        BY <2>1, <2>3, <3>1, <3>2
    <2>. QED
      BY <2>2, <2>3
  <1>3. ASSUME NEW k \in M, NEW j \in below, Precedes(k, j)
        PROVE  StartsWith(j, P)
    <2>. SUFFICES ASSUME ~StartsWith(j, P) PROVE FALSE
      OBVIOUS
    <2>1. j \in DmKeys
      OBVIOUS
    <2>2. PICK i : Departs(j, P, i)
      BY <2>1, DmKinds
    <2>3. PICK id \in MessageIds : k = make_msg_key(c, id)
      BY DmMessages
    <2>4. P[i] < j[i]
      BY <2>1, <2>2, <2>3, <1>3, DmApart
    <2>5. CASE before = None
      <3>1. seek = increment_bytes(P)
        BY <2>5 DEF Seek
      <3>2. j # seek /\ ~Precedes(j, seek)
        BY <2>1, <2>2, <2>4, <3>1, DmUpper
      <3>. QED
        BY <3>2
    <2>6. CASE before # None
      <3>1. seek = make_msg_key(c, before) /\ before \in MessageIds
        BY <2>6 DEF Seek
      <3>2. /\ Precedes(j, seek) <=> j[i] < P[i]
            /\ j # seek
        BY <2>1, <2>2, <3>1, DmApart
      <3>3. j[i] \in Nat /\ P[i] \in Nat
        BY <2>1, <2>2, DmKinds, DmPrefix DEF Departs
      <3>. QED
        BY <2>4, <3>2, <3>3
    <2>. QED
      BY <2>5, <2>6
  <1>4. \A k \in below : StartsWith(k, P) <=> k \in M
    BY DEF MessagesOf
  <1>5. Scan(seek, P) =
            {k \in below : \A j \in below : (j = k \/ Precedes(k, j)) => StartsWith(j, P)}
    BY DEF Scan
  <1>. HIDE DEF M, below
  <1>6. Scan(seek, P) = {k \in below : k \in M}
    BY <1>3, <1>4, <1>5
  <1>7. M \cap below = {k \in M : before = None \/ IdOf(k) =< before}
    BY <1>2
  <1>. QED
    BY <1>6, <1>7 DEF M

\* What is left of a conversation for a reader with a cursor.
Rest(c, before) == {k \in MessagesOf(c) : before = None \/ IdOf(k) < before}

\* A page of history.
LEMMA DmPage ==
    ASSUME index \subseteq DmKeys, NEW c \in DmConversations,
           NEW before \in MessageIds \cup {None}, NEW limit
    PROVE  history(c, before, limit)
               = Newest(Rest(c, before), IF limit = 0 THEN 1 ELSE limit)
  <1>. DEFINE S == Scan(Seek(c, before), make_msg_prefix(c))
  <1>1. {k \in S : before # None => k # Seek(c, before)} = Rest(c, before)
    <2>1. S = {k \in MessagesOf(c) : before = None \/ IdOf(k) =< before}
      BY DmScan
    <2>. HIDE DEF S
    <2>2. CASE before = None
      BY <2>1, <2>2 DEF Rest
    <2>3. CASE before # None
      <3>1. Seek(c, before) = make_msg_key(c, before) /\ before \in MessageIds
            /\ before \in Nat
        BY <2>3, HistoryConstants DEF Seek
      <3>2. ASSUME NEW k \in MessagesOf(c)
            PROVE  /\ k = Seek(c, before) <=> IdOf(k) = before
                   /\ IdOf(k) \in Nat
        <4>1. /\ IdOf(k) \in MessageIds /\ IdOf(k) \in Nat
              /\ k = make_msg_key(c, IdOf(k))
          BY DmMessages
        <4>. QED
          BY <4>1, <3>1, DmSameOrder
      <3>3. \A k \in MessagesOf(c) :
               (IdOf(k) =< before /\ k # Seek(c, before)) <=> IdOf(k) < before
        BY <3>1, <3>2
      <3>. QED
        BY <2>1, <2>3, <3>3 DEF Rest
    <2>. QED
      BY <2>2, <2>3
  <1>. QED
    BY <1>1 DEF history

\* The members of a finite set with fewer than n others above them.
LEMMA Tops ==
    ASSUME NEW S, IsFiniteSet(S), NEW f \in [S -> Nat], NEW A \in [S -> SUBSET S],
           \A x, y \in S : f[x] = f[y] => x = y,
           \A x, y \in S : y \in A[x] <=> f[x] < f[y],
           NEW n \in Nat, n # 0
    PROVE  /\ S # {} => \E x \in S : Cardinality(A[x]) < n
           /\ \A x, y \in S : f[x] =< f[y] /\ Cardinality(A[x]) < n => Cardinality(A[y]) < n
  <1>1. \A x \in S : IsFiniteSet(A[x]) /\ Cardinality(A[x]) \in Nat
    BY FS_Subset, FS_CardinalityType
  <1>2. ASSUME S # {} PROVE \E x \in S : Cardinality(A[x]) < n
    <2>. DEFINE R == {p \in S \X S : f[p[1]] < f[p[2]]}
    <2>1. \A x, y \in S : <<x, y>> \in R <=> f[x] < f[y]
      OBVIOUS
    <2>. HIDE DEF R
    <2>2. \A x \in S : f[x] \in Nat
      OBVIOUS
    <2>3. Orders(R, S)
      BY <2>1, <2>2 DEF Orders
    <2>4. PICK x \in S : \A y \in S \ {x} : <<y, x>> \in R
      BY <2>3, <1>2, Ends
    <2>5. ASSUME NEW y \in A[x] PROVE FALSE
      <3>1. y \in S /\ f[x] < f[y]
        OBVIOUS
      <3>2. f[x] \in Nat /\ f[y] \in Nat
        BY <3>1, <2>2
      <3>3. y # x
        BY <3>1, <3>2
      <3>4. f[y] < f[x]
        BY <3>1, <3>3, <2>1, <2>4
      <3>. QED
        BY <3>1, <3>2, <3>4
    <2>6. A[x] = {}
      BY <2>5
    <2>7. Cardinality(A[x]) = 0
      BY <2>6, FS_EmptySet
    <2>8. 0 < n
      OBVIOUS
    <2>. QED
      BY <2>7, <2>8
  <1>3. ASSUME NEW x \in S, NEW y \in S, f[x] =< f[y], Cardinality(A[x]) < n
        PROVE  Cardinality(A[y]) < n
    <2>1. A[y] \in SUBSET A[x]
      <3>1. \A z \in S : f[z] \in Nat
        OBVIOUS
      <3>2. \A z \in A[y] : z \in S /\ f[y] < f[z]
        OBVIOUS
      <3>3. \A z \in A[y] : f[x] < f[z]
        BY <1>3, <3>1, <3>2
      <3>. QED
        BY <3>2, <3>3
    <2>2. Cardinality(A[y]) =< Cardinality(A[x])
      BY <1>1, <2>1, FS_Subset
    <2>3. Cardinality(A[y]) \in Nat /\ Cardinality(A[x]) \in Nat
      BY <1>1
    <2>. QED
      BY <2>2, <2>3, <1>3
  <1>. QED
    BY <1>2, <1>3

\* The newest of some messages: at least one, and with each all newer ones.
LEMMA DmNewest ==
    ASSUME index \subseteq DmKeys, NEW c \in DmConversations,
           NEW hits \in SUBSET MessagesOf(c), NEW n \in Nat, n # 0
    PROVE  /\ Newest(hits, n) \subseteq hits
           /\ hits # {} => Newest(hits, n) # {}
           /\ \A k \in Newest(hits, n), j \in hits :
                 IdOf(k) =< IdOf(j) => j \in Newest(hits, n)
  <1>1. IsFiniteSet(hits)
    <2>1. IsFiniteSet(MessagesOf(c))
      BY DmMessages
    <2>. QED
      BY <2>1, FS_Subset
  <1>2. \A k \in hits : IdOf(k) \in Nat
    BY DmMessages
  <1>3. \A j, k \in hits : /\ Precedes(j, k) <=> IdOf(j) < IdOf(k)
                           /\ IdOf(j) = IdOf(k) => j = k
    BY DmMessages
  <1>f. PICK f : f = [k \in hits |-> IdOf(k)]
    OBVIOUS
  <1>a. PICK A : A = [k \in hits |-> {j \in hits : Precedes(k, j)}]
    OBVIOUS
  <1>4. f \in [hits -> Nat] /\ \A k \in hits : f[k] = IdOf(k)
    BY <1>2, <1>f
  <1>5. /\ A \in [hits -> SUBSET hits]
        /\ \A k \in hits : A[k] = {j \in hits : Precedes(k, j)}
    BY <1>a
  <1>6. /\ \A x, y \in hits : f[x] = f[y] => x = y
        /\ \A x, y \in hits : y \in A[x] <=> f[x] < f[y]
    BY <1>3, <1>4, <1>5
  <1>7. /\ hits # {} => \E x \in hits : Cardinality(A[x]) < n
        /\ \A x, y \in hits : f[x] =< f[y] /\ Cardinality(A[x]) < n => Cardinality(A[y]) < n
    BY <1>1, <1>4, <1>5, <1>6, Tops
  <1>8. Newest(hits, n) = {k \in hits : Cardinality(A[k]) < n}
    BY <1>5 DEF Newest
  <1>. QED
    BY <1>4, <1>7, <1>8

\* A reader that has come down to its cursor has been shown messages of the
\* conversation, none below the cursor, and every message above it that was
\* there from the start.
WalkOK(w) ==
    /\ w \in Walk
    /\ w.start \cup w.shown \subseteq MessagesOf(w.conv)
    /\ \A k \in w.shown : w.cursor # None /\ w.cursor =< IdOf(k)
    /\ \A k \in w.start : w.cursor # None /\ w.cursor =< IdOf(k) => k \in w.shown
    /\ w.done /\ w.limit > 0 => w.start \subseteq w.shown

HistoryInv ==
    /\ index \subseteq DmKeys
    /\ walk # None => WalkOK(walk)

\* What history and paginate_messages return: the newest messages below the
\* cursor, with no gap, and at least one if any is left.
LEMMA DmWindow ==
    ASSUME index \subseteq DmKeys, NEW c \in DmConversations,
           NEW before \in MessageIds \cup {None}, NEW limit \in Nat,
           NEW page \in {history(c, before, limit), paginate_messages(c, before, limit)}
    PROVE  /\ page \subseteq Rest(c, before)
           /\ limit > 0 /\ page = {} => Rest(c, before) = {}
           /\ \A k \in page, j \in Rest(c, before) : IdOf(k) =< IdOf(j) => j \in page
  <1>1. PICK n \in Nat : n # 0 /\ n = IF limit = 0 THEN 1 ELSE limit
    OBVIOUS
  <1>2. history(c, before, limit) = Newest(Rest(c, before), n)
    BY <1>1, DmPage
  <1>3. PICK hits \in SUBSET MessagesOf(c) : hits = Rest(c, before)
    BY DEF Rest
  <1>4. /\ Newest(hits, n) \subseteq hits
        /\ hits # {} => Newest(hits, n) # {}
        /\ \A k \in Newest(hits, n), j \in hits :
              IdOf(k) =< IdOf(j) => j \in Newest(hits, n)
    BY <1>1, DmNewest
  <1>5. page = Newest(hits, n) \/ (page = {} /\ limit = 0)
    BY <1>2, <1>3 DEF paginate_messages
  <1>. QED
    BY <1>3, <1>4, <1>5

\* The key the reader goes on from.
LEMMA DmOldest ==
    ASSUME index \subseteq DmKeys, NEW c \in DmConversations,
           NEW page \in SUBSET MessagesOf(c), page # {}
    PROVE  LET oldest == CHOOSE k \in page : \A j \in page \ {k} : Precedes(k, j)
           IN  oldest \in page /\ \A j \in page : IdOf(oldest) =< IdOf(j)
  <1>1. IsFiniteSet(page)
    <2>1. IsFiniteSet(MessagesOf(c))
      BY DmMessages
    <2>. QED
      BY <2>1, FS_Subset
  <1>2. \A k \in page : IdOf(k) \in Nat
    BY DmMessages
  <1>3. \A j, k \in page : /\ Precedes(j, k) <=> IdOf(j) < IdOf(k)
                           /\ IdOf(j) = IdOf(k) => j = k
    BY DmMessages
  <1>4. PICK R : R = {p \in page \X page : Precedes(p[1], p[2])}
    OBVIOUS
  <1>5. \A j, k \in page : <<j, k>> \in R <=> Precedes(j, k)
    BY <1>4
  <1>6. Orders(R, page)
    BY <1>2, <1>3, <1>5 DEF Orders
  <1>7. PICK k \in page : \A j \in page \ {k} : <<k, j>> \in R
    BY <1>1, <1>6, Ends
  <1>8. \A j \in page \ {k} : Precedes(k, j)
    BY <1>5, <1>7
  <1>9. PICK oldest : oldest = CHOOSE x \in page : \A j \in page \ {x} : Precedes(x, j)
    OBVIOUS
  <1>10. oldest \in page /\ \A j \in page \ {oldest} : Precedes(oldest, j)
    BY <1>8, <1>9
  <1>11. \A j \in page : IdOf(oldest) =< IdOf(j)
    BY <1>2, <1>3, <1>10
  <1>. QED
    BY <1>9, <1>10, <1>11

\* A new message is stored.
LEMMA StepDmStore ==
    ASSUME HistoryInv, NEW c \in DmConversations, NEW id \in MessageIds,
           Store(c, id)
    PROVE  HistoryInv'
  <1>1. index' = index \cup {make_msg_key(c, id)} /\ walk' = walk
    BY DEF Store
  <1>2. index' \subseteq DmKeys
    BY <1>1 DEF HistoryInv, DmKeys, MsgKeys
  <1>3. ASSUME walk' # None PROVE WalkOK(walk)'
    <2>1. WalkOK(walk)
      BY <1>1, <1>3 DEF HistoryInv
    <2>2. MessagesOf(walk.conv) \subseteq MessagesOf(walk.conv)'
      BY <1>1 DEF MessagesOf
    <2>. QED
      BY <1>1, <2>1, <2>2 DEF WalkOK
  <1>. QED
    BY <1>2, <1>3 DEF HistoryInv

\* A reader begins.
LEMMA StepDmBegin ==
    ASSUME HistoryInv, NEW c \in DmConversations, NEW limit \in Limits,
           Begin(c, limit)
    PROVE  HistoryInv'
  <1>1. PICK M : M = MessagesOf(c)
    OBVIOUS
  <1>2. PICK w : w = [conv |-> c, limit |-> limit, cursor |-> None, start |-> M,
                      page |-> {}, shown |-> {}, done |-> FALSE]
    OBVIOUS
  <1>3. index' = index /\ walk' = w
    BY <1>1, <1>2 DEF Begin
  <1>4. index \subseteq DmKeys
    BY DEF HistoryInv
  <1>5. M \subseteq MsgKeys
    BY <1>1, <1>4, DmMessages DEF MsgKeys
  <1>6. MessagesOf(c)' = M
    BY <1>1, <1>3 DEF MessagesOf
  <1>7. /\ w \in Walk /\ w.conv = c /\ w.start = M /\ w.shown = {} /\ w.cursor = None
        /\ w.done = FALSE
    BY <1>2, <1>5 DEF Walk
  <1>8. WalkOK(walk)'
    BY <1>3, <1>6, <1>7 DEF WalkOK
  <1>. QED
    BY <1>3, <1>4, <1>8 DEF HistoryInv

\* The page a reader gets next, and what it makes of it.
LEMMA DmTurn ==
    ASSUME HistoryInv, NextPage
    PROVE  \E page \in SUBSET Rest(walk.conv, walk.cursor) :
              /\ walk.limit > 0 /\ page = {} => Rest(walk.conv, walk.cursor) = {}
              /\ page = {} => walk' = [walk EXCEPT !.page = {}, !.done = TRUE]
              /\ page # {} => \E k \in page :
                    /\ \A j \in page : IdOf(k) =< IdOf(j)
                    /\ \A j \in Rest(walk.conv, walk.cursor) :
                          IdOf(k) =< IdOf(j) => j \in page
                    /\ walk' = [walk EXCEPT !.cursor = IdOf(k), !.page = page,
                                            !.shown = @ \cup page]
  <1>1. walk # None /\ WalkOK(walk) /\ index \subseteq DmKeys
    BY DEF HistoryInv, NextPage
  <1>2. PICK c, before, limit : c = walk.conv /\ before = walk.cursor /\ limit = walk.limit
    OBVIOUS
  <1>3. c \in DmConversations /\ before \in MessageIds \cup {None} /\ limit \in Nat
    BY <1>1, <1>2, HistoryConstants DEF WalkOK, Walk
  <1>4. PICK page \in {history(c, before, limit), paginate_messages(c, before, limit)} :
            walk' = IF page = {} THEN [walk EXCEPT !.page = {}, !.done = TRUE]
                    ELSE [walk EXCEPT
                            !.cursor = IdOf(CHOOSE k \in page :
                                                \A j \in page \ {k} : Precedes(k, j)),
                            !.page = page,
                            !.shown = @ \cup page]
    BY <1>2 DEF NextPage
  <1>5. /\ page \subseteq Rest(c, before)
        /\ limit > 0 /\ page = {} => Rest(c, before) = {}
        /\ \A k \in page, j \in Rest(c, before) : IdOf(k) =< IdOf(j) => j \in page
    BY <1>1, <1>3, <1>4, DmWindow
  <1>6. page \in SUBSET MessagesOf(c)
    BY <1>5 DEF Rest
  <1>7. ASSUME page # {}
        PROVE  \E k \in page : /\ \A j \in page : IdOf(k) =< IdOf(j)
                               /\ walk' = [walk EXCEPT !.cursor = IdOf(k), !.page = page,
                                                       !.shown = @ \cup page]
    <2>1. PICK k : k = CHOOSE x \in page : \A j \in page \ {x} : Precedes(x, j)
      OBVIOUS
    <2>2. k \in page /\ \A j \in page : IdOf(k) =< IdOf(j)
      BY <1>1, <1>3, <1>6, <1>7, <2>1, DmOldest
    <2>3. walk' = [walk EXCEPT !.cursor = IdOf(k), !.page = page, !.shown = @ \cup page]
      BY <1>4, <1>7, <2>1
    <2>. QED
      BY <2>2, <2>3
  <1>8. page = {} => walk' = [walk EXCEPT !.page = {}, !.done = TRUE]
    BY <1>4
  <1>. QED
    BY <1>2, <1>5, <1>7, <1>8

\* The next page.
LEMMA StepDmNextPage ==
    ASSUME HistoryInv, NextPage
    PROVE  HistoryInv'
  <1>1. walk # None /\ ~walk.done /\ WalkOK(walk) /\ index \subseteq DmKeys /\ index' = index
    BY DEF HistoryInv, NextPage
  <1>2. PICK c, before : c = walk.conv /\ before = walk.cursor
    OBVIOUS
  <1>3. PICK page \in SUBSET Rest(c, before) :
              /\ walk.limit > 0 /\ page = {} => Rest(c, before) = {}
              /\ page = {} => walk' = [walk EXCEPT !.page = {}, !.done = TRUE]
              /\ page # {} => \E k \in page :
                    /\ \A j \in page : IdOf(k) =< IdOf(j)
                    /\ \A j \in Rest(c, before) : IdOf(k) =< IdOf(j) => j \in page
                    /\ walk' = [walk EXCEPT !.cursor = IdOf(k), !.page = page,
                                            !.shown = @ \cup page]
    BY <1>2, DmTurn
  <1>4. PICK M : M = MessagesOf(c)
    OBVIOUS
  <1>5. /\ c \in DmConversations /\ before \in MessageIds \cup {None}
        /\ walk \in Walk /\ walk.start \subseteq M /\ walk.shown \subseteq M
        /\ None \notin MessageIds /\ MessageIds \subseteq Nat
        /\ \A k \in walk.shown : before # None /\ before =< IdOf(k)
        /\ \A k \in walk.start : before # None /\ before =< IdOf(k) => k \in walk.shown
    BY <1>1, <1>2, <1>4, HistoryConstants, HistoryNoneIsNone DEF WalkOK, Walk
  <1>6. \A k \in M : IdOf(k) \in MessageIds /\ k \in MsgKeys
    BY <1>1, <1>4, <1>5, DmMessages DEF MsgKeys
  <1>7. MessagesOf(c)' = M
    BY <1>1, <1>4 DEF MessagesOf
  <1>8. Rest(c, before) = {k \in M : before = None \/ IdOf(k) < before}
    BY <1>4 DEF Rest
  <1>9. PICK w : w = walk'
    OBVIOUS
  <1>10. CASE page = {}
    <2>1. w = [walk EXCEPT !.page = {}, !.done = TRUE]
      BY <1>3, <1>9, <1>10
    <2>2. /\ w \in Walk /\ w.conv = c /\ w.start = walk.start /\ w.shown = walk.shown
          /\ w.cursor = before /\ w.limit = walk.limit
      BY <1>2, <1>5, <2>1 DEF Walk
    <2>3. ASSUME w.limit > 0, NEW k \in walk.start PROVE k \in walk.shown
      <3>1. k \in M /\ k \notin Rest(c, before)
        BY <1>3, <1>5, <1>10, <2>2, <2>3
      <3>2. before # None /\ ~(IdOf(k) < before)
        BY <1>8, <3>1
      <3>3. IdOf(k) \in Nat /\ before \in Nat
        BY <1>5, <1>6, <3>1, <3>2
      <3>. QED
        BY <1>5, <3>2, <3>3
    <2>4. WalkOK(w)'
      BY <1>5, <1>7, <2>2, <2>3 DEF WalkOK
    <2>. QED
      BY <1>1, <1>9, <2>4 DEF HistoryInv
  <1>11. CASE page # {}
    <2>1. PICK k \in page :
              /\ \A j \in page : IdOf(k) =< IdOf(j)
              /\ \A j \in Rest(c, before) : IdOf(k) =< IdOf(j) => j \in page
              /\ w = [walk EXCEPT !.cursor = IdOf(k), !.page = page,
                                  !.shown = @ \cup page]
      BY <1>3, <1>9, <1>11
    <2>2. PICK id : id = IdOf(k)
      OBVIOUS
    <2>3. page \subseteq M /\ page \subseteq MsgKeys /\ id \in MessageIds /\ id \in Nat
          /\ id # None
      BY <1>5, <1>6, <1>8, <2>1, <2>2
    <2>4. /\ w \in Walk /\ w.conv = c /\ w.start = walk.start
          /\ w.shown = walk.shown \cup page
          /\ w.cursor = id /\ w.limit = walk.limit /\ w.done = FALSE
      BY <1>1, <1>2, <1>5, <2>1, <2>2, <2>3 DEF Walk
    <2>5. before # None => before \in Nat /\ id < before
      BY <1>5, <1>8, <2>1, <2>2
    <2>6. \A j \in w.shown : id =< IdOf(j)
      <3>1. \A j \in page : id =< IdOf(j)
        BY <2>1, <2>2
      <3>2. \A j \in walk.shown : id =< IdOf(j)
        <4>. SUFFICES ASSUME NEW j \in walk.shown PROVE id =< IdOf(j)
          OBVIOUS
        <4>1. before # None /\ before =< IdOf(j) /\ j \in M
          BY <1>5
        <4>2. IdOf(j) \in Nat
          BY <1>5, <1>6, <4>1
        <4>. QED
          BY <2>3, <2>5, <4>1, <4>2
      <3>. QED
        BY <2>4, <3>1, <3>2
    <2>7. ASSUME NEW j \in walk.start, id =< IdOf(j) PROVE j \in w.shown
      <3>1. j \in M /\ IdOf(j) \in Nat
        BY <1>5, <1>6
      <3>2. CASE before # None /\ before =< IdOf(j)
        BY <1>5, <2>4, <3>2
      <3>3. CASE before = None \/ ~(before =< IdOf(j))
        <4>1. j \in Rest(c, before)
          BY <1>8, <2>5, <3>1, <3>3
        <4>. QED
          BY <2>1, <2>2, <2>4, <2>7, <4>1
      <3>. QED
        BY <3>2, <3>3
    <2>8. WalkOK(w)'
      BY <1>5, <1>7, <2>3, <2>4, <2>6, <2>7 DEF WalkOK
    <2>. QED
      BY <1>1, <1>9, <2>8 DEF HistoryInv
  <1>. QED
    BY <1>10, <1>11

\* Every step keeps the invariant.
LEMMA DmNext ==
    ASSUME HistoryInv, [HistoryNext]_history_vars
    PROVE  HistoryInv'
  <1>1. ASSUME NEW c \in DmConversations, NEW id \in MessageIds, Store(c, id)
        PROVE  HistoryInv'
    BY <1>1, StepDmStore
  <1>2. ASSUME NEW c \in DmConversations, NEW limit \in Limits, Begin(c, limit)
        PROVE  HistoryInv'
    BY <1>2, StepDmBegin
  <1>3. CASE NextPage
    BY <1>3, StepDmNextPage
  <1>4. CASE UNCHANGED history_vars
    BY <1>4 DEF HistoryInv, WalkOK, history_vars, MessagesOf
  <1>. QED
    BY <1>1, <1>2, <1>3, <1>4 DEF HistoryNext

\* What holds in every state of the message history.
THEOREM HistoryInvariant == HistorySpec => []HistoryInv
  <1>1. HistoryInit => HistoryInv
    BY DEF HistoryInit, HistoryInv, DmKeys
  <1>2. HistoryInv /\ [HistoryNext]_history_vars => HistoryInv'
    BY DmNext
  <1>. QED
    BY <1>1, <1>2, PTL DEF HistorySpec

\* history and paginate_messages, called again and again with the oldest id
\* returned: a reader who gets an empty page has been shown every message that
\* was there when it began, for any page size above 0, although messages of its
\* own and of other conversations were stored on the way.
THEOREM HistoryWalkComplete == HistorySpec => []WalkComplete
  <1>1. HistoryInv => WalkComplete
    BY DEF HistoryInv, WalkOK, WalkComplete
  <1>. QED
    BY <1>1, HistoryInvariant, PTL

\* The body of PagesDescend.
Descends ==
    walk # None /\ walk' # None /\ walk' # walk =>
        \A k \in walk'.page :
            /\ StartsWith(k, make_msg_prefix(walk'.conv))
            /\ \A j \in walk.shown : Precedes(k, j)

\* Every step keeps pages in order.
LEMMA StepDescends ==
    ASSUME HistoryInv, [HistoryNext]_history_vars
    PROVE  Descends
  <1>1. ASSUME NEW c \in DmConversations, NEW id \in MessageIds, Store(c, id)
        PROVE  Descends
    BY <1>1 DEF Descends, Store
  <1>2. ASSUME NEW c \in DmConversations, NEW limit \in Limits, Begin(c, limit)
        PROVE  Descends
    <2>1. walk'.page = {}
      BY <1>2 DEF Begin
    <2>. QED
      BY <2>1 DEF Descends
  <1>3. CASE NextPage
    <2>1. walk # None /\ WalkOK(walk) /\ index \subseteq DmKeys
      BY <1>3 DEF HistoryInv, NextPage
    <2>2. PICK page \in SUBSET Rest(walk.conv, walk.cursor) :
              /\ page = {} => walk' = [walk EXCEPT !.page = {}, !.done = TRUE]
              /\ page # {} => \E k \in page :
                    walk' = [walk EXCEPT !.cursor = IdOf(k), !.page = page,
                                         !.shown = @ \cup page]
      BY <1>3, DmTurn
    <2>3. walk \in Walk
      BY <2>1 DEF WalkOK
    <2>4. walk'.conv = walk.conv /\ walk'.page = page
      BY <2>2, <2>3 DEF Walk
    <2>5. PICK c, before : c = walk.conv /\ before = walk.cursor
      OBVIOUS
    <2>6. /\ c \in DmConversations /\ before \in MessageIds \cup {None}
          /\ MessageIds \subseteq Nat
          /\ \A j \in walk.shown : /\ j \in MessagesOf(c)
                                   /\ before # None /\ before =< IdOf(j)
      BY <2>1, <2>5, HistoryConstants DEF WalkOK, Walk
    <2>7. ASSUME NEW k \in page
          PROVE  /\ StartsWith(k, make_msg_prefix(c))
                 /\ \A j \in walk.shown : Precedes(k, j)
      <3>1. k \in MessagesOf(c) /\ (before = None \/ IdOf(k) < before)
        BY <2>2, <2>5, <2>7 DEF Rest
      <3>2. StartsWith(k, make_msg_prefix(c)) /\ IdOf(k) \in Nat
        BY <2>1, <2>6, <3>1, DmMessages
      <3>3. ASSUME NEW j \in walk.shown PROVE Precedes(k, j)
        <4>1. j \in MessagesOf(c) /\ before \in Nat /\ before =< IdOf(j)
              /\ IdOf(k) < before
          BY <2>6, <3>1
        <4>2. IdOf(j) \in Nat
          BY <2>1, <2>6, <4>1, DmMessages
        <4>3. IdOf(k) < IdOf(j)
          BY <3>2, <4>1, <4>2
        <4>. QED
          BY <2>1, <2>6, <3>1, <4>1, <4>3, DmMessages
      <3>. QED
        BY <3>2, <3>3
    <2>. QED
      BY <2>4, <2>5, <2>7 DEF Descends
  <1>4. CASE UNCHANGED history_vars
    BY <1>4 DEF Descends, history_vars
  <1>. QED
    BY <1>1, <1>2, <1>3, <1>4 DEF HistoryNext

\* history and paginate_messages: a page holds messages of the conversation
\* only, each older than all that were shown before it.
THEOREM HistoryPagesDescend == HistorySpec => PagesDescend
  <1>1. HistoryInv /\ [HistoryNext]_history_vars => [Descends]_history_vars
    BY StepDescends
  <1>. QED
    BY <1>1, HistoryInvariant, PTL DEF HistorySpec, PagesDescend, Descends
====
