---- MODULE DmDeliveryProofs ----
(***************************************************************************)
(* Safety of DmDelivery for any number of messages, threads, faults and    *)
(* restarts and any capacities.                                            *)
(*                                                                         *)
(* A sender's status is justified by a receipt, a receipt by the           *)
(* recipient's database.  The invariant follows the evidence along the     *)
(* way: through the recipient's call, its outbox, the network and the      *)
(* sender's call.                                                          *)
(***************************************************************************)
EXTENDS DmDelivery, FiniteSetTheorems, TLAPS

\* What is known of a caller between two steps of its call.
CallOK(c) ==
    LET k == call[c]
        n == NodeOf[c]
    IN  /\ k.pc # "open" => k.msg \in Msgs
        /\ c \in AppThreads => k.pc \notin {"in_open", "in_store"}
        /\ c \in Nodes => k.pc \in {"in_open", "in_store", "receipt"}
        /\ k.pc \in {"enqueue", "save"} => Author[k.msg] = n
        /\ k.pc = "save" => k.msg \in queued
        /\ c \in Nodes => Author[k.msg] = Peer[n]
        /\ k.pc \in {"in_open", "in_store"} => k.status = Delivered
        /\ k.pc \in {"put_read", "put_emit"} => k.status = Read
        /\ k.pc \in {"put", "put_read", "put_emit"} =>
               IF Author[k.msg] = n
               THEN k.pc = "put" => Claim(k.msg, k.status)
               ELSE k.status = Read /\ status[n][k.msg] # NoMessage
        /\ k.pc = "receipt" =>
               /\ k.status \in {Delivered, Read} /\ Claim(k.msg, k.status)
               /\ Author[k.msg] = n => k.status = Read

CallsOK == \A c \in Callers : call[c] # NoCall => CallOK(c)

\* A receipt waiting in an outbox, or on its way, is true, and one that an
\* author sends says Read; messages are on the right side.
OutboxOK ==
    \A n \in Nodes, s \in Sector :
        outbox[n][s] > 0 =>
            IF IsReceipt(s) THEN (Author[s.msg] = n => s.status = Read) /\ Claim(s.msg, s.status)
            ELSE Author[s.msg] = n

NetOK ==
    \A n \in Nodes : \A s \in net[n] :
        IF IsReceipt(s) THEN (Author[s.msg] = Peer[n] => s.status = Read) /\ Claim(s.msg, s.status)
        ELSE Author[s.msg] = Peer[n]

AckedOK == \A n \in Nodes : \A m \in acked[n] : Author[m] = n

\* What was published is still in the outbox until it is removed.
InHandOK == \A n \in Nodes : inhand[n] # NoSector => outbox[n][inhand[n]] > 0

DeliveryInv ==
    /\ TypeOK
    /\ CallsOK
    /\ OutboxOK
    /\ NetOK
    /\ AckedOK
    /\ InHandOK
    /\ NoPhantomReceipts
    /\ LastSectorWasQueued

----------------------------------------------------------------------------

LEMMA NodeOfApp ==
    \A t \in AppThreads : t \in Callers /\ t \notin Nodes /\ NodeOf[t] = Home[t] /\ Home[t] \in Nodes
  BY DmConstants DEF NodeOf, Callers

LEMMA NodeOfLoop ==
    \A n \in Nodes : n \in Callers /\ n \notin AppThreads /\ NodeOf[n] = n
  BY DmConstants DEF NodeOf, Callers

\* A node that did not write a message is the peer of the one that did.
LEMMA TwoNodes ==
    \A n \in Nodes, m \in Msgs :
        /\ Author[m] # n <=> Author[m] = Peer[n]
        /\ Author[m] = Peer[n] => Peer[Author[m]] = n
  BY DmConstants

\* The recipient's side never loses a message or forgets that it was read.
Grows ==
    /\ \A n \in Nodes, m \in Msgs :
          status[n][m] # NoMessage => status'[n][m] # NoMessage
    /\ read \subseteq read'
    /\ own \subseteq own'

LEMMA ClaimStable ==
    ASSUME Grows, NEW m \in Msgs, NEW st, Claim(m, st)
    PROVE  Claim(m, st)'
  BY DmConstants DEF Grows, Claim, Recipient

\* Invariants of the parts a step leaves alone.
LEMMA CallStable ==
    ASSUME DeliveryInv, Grows, queued \subseteq queued',
           NEW c \in Callers, call'[c] = call[c], call[c] # NoCall
    PROVE  CallOK(c)'
  <1>1. CallOK(c) /\ NodeOf[c] \in Nodes
    BY DmConstants DEF DeliveryInv, CallsOK, Callers, NodeOf
  <1>2. call[c].pc \in {"receipt", "put"} /\ Claim(call[c].msg, call[c].status) =>
            Claim(call[c].msg, call[c].status)'
    BY <1>1, ClaimStable DEF CallOK
  <1>. QED
    BY <1>1, <1>2 DEF CallOK, Grows

LEMMA OutboxStable ==
    ASSUME DeliveryInv, Grows,
           \A n \in Nodes, s \in Sector : outbox'[n][s] > 0 => outbox[n][s] > 0
    PROVE  OutboxOK'
  <1>. SUFFICES ASSUME NEW n \in Nodes, NEW s \in Sector, outbox'[n][s] > 0
                PROVE  IF IsReceipt(s)
                       THEN (Author[s.msg] = n => s.status = Read) /\ Claim(s.msg, s.status)'
                       ELSE Author[s.msg] = n
    BY DEF OutboxOK, IsReceipt
  <1>1. s.msg \in Msgs
    BY DEF Sector
  <1>. QED
    BY <1>1, ClaimStable DEF DeliveryInv, OutboxOK

LEMMA NetStable ==
    ASSUME DeliveryInv, Grows, \A n \in Nodes : net'[n] \subseteq net[n]
    PROVE  NetOK'
  <1>. SUFFICES ASSUME NEW n \in Nodes, NEW s \in net'[n]
                PROVE  IF IsReceipt(s)
                       THEN (Author[s.msg] = Peer[n] => s.status = Read) /\ Claim(s.msg, s.status)'
                       ELSE Author[s.msg] = Peer[n]
    BY DEF NetOK, IsReceipt
  <1>1. s \in net[n] /\ s.msg \in Msgs
    BY DEF DeliveryInv, TypeOK, Sector
  <1>. QED
    BY <1>1, ClaimStable DEF DeliveryInv, NetOK

LEMMA PhantomStable ==
    ASSUME DeliveryInv, Grows, UNCHANGED status
    PROVE  NoPhantomReceipts'
  <1>. SUFFICES ASSUME NEW m \in Msgs
                PROVE  Claim(m, status[Author[m]][m])'
    BY DEF NoPhantomReceipts
  <1>1. Claim(m, status[Author[m]][m])
    BY DEF DeliveryInv, NoPhantomReceipts
  <1>. QED
    BY <1>1, ClaimStable DEF Claim

----------------------------------------------------------------------------
(* What the helpers do *)

LEMMA ReturnEffect ==
    ASSUME TypeOK, NEW c \in Callers, Return(c)
    PROVE  /\ call' \in [Callers -> Call \cup {NoCall}]
           /\ call'[c] = NoCall
           /\ \A d \in Callers : d # c => call'[d] = call[d]
  BY DEF TypeOK, DmTypeOK, Return

LEMMA ContinueEffect ==
    ASSUME TypeOK, NEW c \in Callers, NEW pc, call[c] # NoCall, Continue(c, pc),
           pc \in {"save", "receipt", "in_store"}
    PROVE  /\ call' \in [Callers -> Call \cup {NoCall}]
           /\ call'[c] = [pc |-> pc, msg |-> call[c].msg, status |-> call[c].status]
           /\ \A d \in Callers : d # c => call'[d] = call[d]
  <1>1. call[c] \in Call
    BY DEF TypeOK, DmTypeOK
  <1>2. [call[c] EXCEPT !.pc = pc] =
            [pc |-> pc, msg |-> call[c].msg, status |-> call[c].status]
    BY <1>1 DEF Call
  <1>3. [call[c] EXCEPT !.pc = pc] \in Call
    BY <1>1 DEF Call
  <1>4. call' = [call EXCEPT ![c] = [call[c] EXCEPT !.pc = pc]]
    BY DEF Continue
  <1>. QED
    BY <1>2, <1>3, <1>4 DEF TypeOK, DmTypeOK

\* An entry may join the outbox when it would satisfy OutboxOK.
LEMMA EnqueueEffect ==
    ASSUME DeliveryInv, Grows, UNCHANGED inhand,
           NEW n0 \in Nodes, NEW s0 \in Sector,
           outbox' = Enqueued(n0, s0) \/ outbox' = outbox,
           IF IsReceipt(s0) THEN (Author[s0.msg] = n0 => s0.status = Read) /\ Claim(s0.msg, s0.status)
           ELSE Author[s0.msg] = n0
    PROVE  /\ outbox' \in [Nodes -> [Sector -> Nat]]
           /\ OutboxOK'
           /\ InHandOK'
  <1>1. outbox \in [Nodes -> [Sector -> Nat]] /\ inhand \in [Nodes -> Sector \cup {NoSector}]
    BY DEF DeliveryInv, TypeOK, DmTypeOK
  <1>2. /\ outbox' \in [Nodes -> [Sector -> Nat]]
        /\ \A n \in Nodes, s \in Sector :
              /\ outbox'[n][s] >= outbox[n][s]
              /\ outbox'[n][s] > outbox[n][s] => n = n0 /\ s = s0
    <2>1. CASE outbox' = outbox
      BY <2>1, <1>1
    <2>2. CASE outbox' = Enqueued(n0, s0)
      <3>. DEFINE box == [outbox[n0] EXCEPT ![s0] = @ + 1]
      <3>1. /\ box \in [Sector -> Nat]
            /\ \A s \in Sector : box[s] = IF s = s0 THEN outbox[n0][s] + 1 ELSE outbox[n0][s]
        BY <1>1
      <3>2. outbox' = [outbox EXCEPT ![n0] = box]
        BY <2>2 DEF Enqueued
      <3>. QED
        BY <3>1, <3>2, <1>1
    <2>. QED
      BY <2>1, <2>2
  <1>3. OutboxOK'
    <2>. SUFFICES ASSUME NEW n \in Nodes, NEW s \in Sector, outbox'[n][s] > 0
                  PROVE  IF IsReceipt(s)
                         THEN (Author[s.msg] = n => s.status = Read) /\ Claim(s.msg, s.status)'
                         ELSE Author[s.msg] = n
      BY DEF OutboxOK, IsReceipt
    <2>1. s.msg \in Msgs
      BY DEF Sector
    <2>2. CASE n = n0 /\ s = s0
      BY <2>1, <2>2, ClaimStable
    <2>3. CASE ~(n = n0 /\ s = s0)
      <3>1. outbox[n][s] > 0
        BY <2>3, <1>1, <1>2
      <3>. QED
        BY <2>1, <3>1, ClaimStable DEF DeliveryInv, OutboxOK
    <2>. QED
      BY <2>2, <2>3
  <1>4. InHandOK'
    <2>. SUFFICES ASSUME NEW n \in Nodes, inhand[n] # NoSector
                  PROVE  outbox'[n][inhand[n]] > 0
      BY DEF InHandOK
    <2>1. outbox[n][inhand[n]] > 0 /\ inhand[n] \in Sector
      BY <1>1 DEF DeliveryInv, InHandOK
    <2>. QED
      BY <2>1, <1>1, <1>2
  <1>. QED
    BY <1>2, <1>3, <1>4

\* One entry may leave an outbox once nothing is in hand there.
LEMMA RemoveEffect ==
    ASSUME DeliveryInv, Grows, NEW n0 \in Nodes, NEW s0 \in Sector,
           outbox[n0][s0] > 0,
           outbox' = [outbox EXCEPT ![n0][s0] = @ - 1],
           inhand'[n0] = NoSector,
           \A n \in Nodes : n # n0 => inhand'[n] = inhand[n]
    PROVE  /\ outbox' \in [Nodes -> [Sector -> Nat]]
           /\ OutboxOK'
           /\ InHandOK'
  <1>1. outbox \in [Nodes -> [Sector -> Nat]]
    BY DEF DeliveryInv, TypeOK, DmTypeOK
  <1>. DEFINE box == [outbox[n0] EXCEPT ![s0] = @ - 1]
  <1>2. /\ box \in [Sector -> Nat]
        /\ \A s \in Sector : box[s] > 0 => outbox[n0][s] > 0
    BY <1>1
  <1>3. outbox' = [outbox EXCEPT ![n0] = box]
    OBVIOUS
  <1>4. /\ outbox' \in [Nodes -> [Sector -> Nat]]
        /\ \A n \in Nodes, s \in Sector : outbox'[n][s] > 0 => outbox[n][s] > 0
        /\ \A n \in Nodes : n # n0 => outbox'[n] = outbox[n]
    BY <1>1, <1>2, <1>3
  <1>5. OutboxOK'
    BY <1>4, OutboxStable
  <1>6. InHandOK'
    BY <1>4 DEF DeliveryInv, InHandOK
  <1>. QED
    BY <1>4, <1>5, <1>6

----------------------------------------------------------------------------
(* Steps inside a node *)

LEMMA StepOpen ==
    ASSUME DeliveryInv, NEW t \in AppThreads, open_conversation(t), UNCHANGED glueVars
    PROVE  DeliveryInv'
  <1>. USE DEF open_conversation, Begin, glueVars
  <1>0. Grows /\ t \in Callers
    BY NodeOfApp DEF Grows
  <1>1. TypeOK'
    BY <1>0 DEF DeliveryInv, TypeOK, DmTypeOK, Call, MessageStatus, Queued, Read
  <1>2. CallsOK'
    <2>. SUFFICES ASSUME NEW c \in Callers, call'[c] # NoCall
                  PROVE  CallOK(c)'
      BY DEF CallsOK
    <2>1. CASE c # t
      BY <2>1, <1>0, CallStable DEF DeliveryInv, TypeOK, DmTypeOK
    <2>2. CASE c = t
      BY <2>2, <1>0, NodeOfApp DEF CallOK, DeliveryInv, TypeOK, DmTypeOK
    <2>. QED
      BY <2>1, <2>2
  <1>3. OutboxOK' /\ NetOK' /\ NoPhantomReceipts'
    BY <1>0, OutboxStable, NetStable, PhantomStable
  <1>4. AckedOK' /\ InHandOK' /\ LastSectorWasQueued'
    BY DEF DeliveryInv, AckedOK, InHandOK, LastSectorWasQueued
  <1>. QED
    BY <1>1, <1>2, <1>3, <1>4 DEF DeliveryInv

LEMMA StepPutConversation ==
    ASSUME DeliveryInv, NEW c0 \in Callers, put_conversation(c0), UNCHANGED glueVars
    PROVE  DeliveryInv'
  <1>. USE DEF put_conversation, At, glueVars
  <1>0. Grows /\ NodeOf[c0] \in Nodes /\ TypeOK /\ CallOK(c0)
    BY NodeOfApp, NodeOfLoop DEF Grows, Callers, DeliveryInv, CallsOK
  <1>a. /\ call' \in [Callers -> Call \cup {NoCall}]
        /\ call'[c0] = IF c0 \in Nodes
                       THEN [pc |-> "in_store", msg |-> call[c0].msg, status |-> call[c0].status]
                       ELSE NoCall
        /\ \A d \in Callers : d # c0 => call'[d] = call[d]
    BY <1>0, ReturnEffect, ContinueEffect
  <1>1. TypeOK'
    BY <1>0, <1>a DEF TypeOK, DmTypeOK
  <1>2. CallsOK'
    <2>. SUFFICES ASSUME NEW c \in Callers, call'[c] # NoCall
                  PROVE  CallOK(c)'
      BY DEF CallsOK
    <2>1. CASE c # c0
      BY <2>1, <1>0, <1>a, CallStable
    <2>2. CASE c = c0
      BY <2>2, <1>0, <1>a, NodeOfLoop DEF CallOK
    <2>. QED
      BY <2>1, <2>2
  <1>3. OutboxOK' /\ NetOK' /\ NoPhantomReceipts'
    BY <1>0, OutboxStable, NetStable, PhantomStable
  <1>4. AckedOK' /\ InHandOK' /\ LastSectorWasQueued'
    BY <1>0, DmConstants DEF DeliveryInv, TypeOK, DmTypeOK, AckedOK, InHandOK, LastSectorWasQueued
  <1>. QED
    BY <1>1, <1>2, <1>3, <1>4 DEF DeliveryInv

LEMMA StepSend ==
    ASSUME DeliveryInv, NEW t \in AppThreads, NEW m0 \in Msgs, send_text(t, m0),
           UNCHANGED glueVars
    PROVE  DeliveryInv'
  <1>. USE DEF send_text, Begin, glueVars, NoMessage, Queued, Sent, Delivered, Read
  <1>0. Grows /\ t \in Callers /\ Home[t] \in Nodes
    BY NodeOfApp DEF Grows, DeliveryInv, TypeOK, DmTypeOK
  <1>1. TypeOK'
    BY <1>0 DEF DeliveryInv, TypeOK, DmTypeOK, Call, MessageStatus
  <1>2. CallsOK'
    <2>. SUFFICES ASSUME NEW c \in Callers, call'[c] # NoCall
                  PROVE  CallOK(c)'
      BY DEF CallsOK
    <2>1. CASE c # t
      BY <2>1, <1>0, CallStable DEF DeliveryInv, TypeOK, DmTypeOK
    <2>2. CASE c = t
      BY <2>2, <1>0, NodeOfApp DEF CallOK, DeliveryInv, TypeOK, DmTypeOK
    <2>. QED
      BY <2>1, <2>2
  <1>3. OutboxOK' /\ NetOK'
    BY <1>0, OutboxStable, NetStable
  <1>4. NoPhantomReceipts'
    <2>. SUFFICES ASSUME NEW m \in Msgs
                  PROVE  Claim(m, status[Author[m]][m])'
      BY DEF NoPhantomReceipts
    <2>1. CASE m = m0
      BY <2>1, <1>0 DEF Claim, DeliveryInv, TypeOK, DmTypeOK
    <2>2. CASE m # m0
      BY <2>2, <1>0, ClaimStable, DmConstants
         DEF DeliveryInv, NoPhantomReceipts, TypeOK, DmTypeOK, Claim
    <2>. QED
      BY <2>1, <2>2
  <1>5. AckedOK' /\ InHandOK' /\ LastSectorWasQueued'
    BY DEF DeliveryInv, AckedOK, InHandOK, LastSectorWasQueued
  <1>. QED
    BY <1>1, <1>2, <1>3, <1>4, <1>5 DEF DeliveryInv

LEMMA StepEnqueue ==
    ASSUME DeliveryInv, NEW t \in AppThreads, enqueue(t), UNCHANGED glueVars
    PROVE  DeliveryInv'
  <1>. USE DEF enqueue, At, glueVars
  <1>0. /\ Grows /\ t \in Callers /\ Home[t] \in Nodes /\ NodeOf[t] = Home[t]
        /\ TypeOK /\ queued \subseteq queued'
    BY NodeOfApp DEF Grows, DeliveryInv
  <1>a. CallOK(t) /\ call[t].msg \in Msgs /\ Author[call[t].msg] = Home[t]
    BY <1>0 DEF DeliveryInv, CallsOK, CallOK
  <1>b. /\ DmSector(call[t].msg) \in Sector
        /\ ~IsReceipt(DmSector(call[t].msg))
        /\ DmSector(call[t].msg).msg = call[t].msg
    BY <1>a DEF DmSector, Sector, IsReceipt
  <1>c. /\ call' \in [Callers -> Call \cup {NoCall}]
        /\ \/ call'[t] = NoCall
           \/ /\ call'[t] = [pc |-> "save", msg |-> call[t].msg, status |-> call[t].status]
              /\ call[t].msg \in queued'
        /\ \A d \in Callers : d # t => call'[d] = call[d]
    BY <1>0, ReturnEffect, ContinueEffect
  <1>d. outbox' \in [Nodes -> [Sector -> Nat]] /\ OutboxOK' /\ InHandOK'
    BY <1>0, <1>a, <1>b, EnqueueEffect
  <1>1. TypeOK'
    BY <1>0, <1>a, <1>c, <1>d DEF TypeOK, DmTypeOK
  <1>2. CallsOK'
    <2>. SUFFICES ASSUME NEW c \in Callers, call'[c] # NoCall
                  PROVE  CallOK(c)'
      BY DEF CallsOK
    <2>1. CASE c # t
      BY <2>1, <1>0, <1>c, CallStable
    <2>2. CASE c = t
      BY <2>2, <1>0, <1>a, <1>c, NodeOfApp DEF CallOK
    <2>. QED
      BY <2>1, <2>2
  <1>3. NetOK' /\ NoPhantomReceipts'
    BY <1>0, NetStable, PhantomStable
  <1>4. AckedOK' /\ LastSectorWasQueued'
    BY <1>0 DEF DeliveryInv, AckedOK, LastSectorWasQueued
  <1>. QED
    BY <1>1, <1>2, <1>3, <1>4, <1>d DEF DeliveryInv

LEMMA StepSave ==
    ASSUME DeliveryInv, NEW t \in AppThreads, save_conversation(t), UNCHANGED glueVars
    PROVE  DeliveryInv'
  <1>. USE DEF save_conversation, At, Return, glueVars
  <1>0. Grows /\ t \in Callers /\ Home[t] \in Nodes /\ NodeOf[t] = Home[t]
    BY NodeOfApp DEF Grows
  <1>a. call[t].msg \in Msgs /\ call[t].msg \in queued
    BY <1>0 DEF DeliveryInv, CallsOK, CallOK
  <1>1. TypeOK'
    BY <1>0, <1>a DEF DeliveryInv, TypeOK, DmTypeOK
  <1>2. CallsOK'
    <2>. SUFFICES ASSUME NEW c \in Callers, call'[c] # NoCall
                  PROVE  CallOK(c)'
      BY DEF CallsOK
    <2>1. c # t
      BY <1>0 DEF DeliveryInv, TypeOK, DmTypeOK
    <2>. QED
      BY <2>1, <1>0, CallStable DEF DeliveryInv, TypeOK, DmTypeOK
  <1>3. OutboxOK' /\ NetOK' /\ NoPhantomReceipts'
    BY <1>0, OutboxStable, NetStable, PhantomStable
  <1>4. AckedOK' /\ InHandOK' /\ LastSectorWasQueued'
    BY <1>0, <1>a DEF DeliveryInv, TypeOK, DmTypeOK, AckedOK, InHandOK, LastSectorWasQueued
  <1>. QED
    BY <1>1, <1>2, <1>3, <1>4 DEF DeliveryInv

\* update_status begins: the caller knows what it needs of the new status.
LEMMA UpdateEffect ==
    ASSUME DeliveryInv, NEW t \in AppThreads, NEW m0 \in Msgs,
           NEW st \in MessageStatus, NEW pc \in {"put", "put_read", "put_emit"},
           update_status(t, m0, st, pc),
           pc # "put" => st = Read,
           IF Author[m0] = Home[t] THEN pc = "put" => Claim(m0, st) ELSE st = Read
    PROVE  /\ DmTypeOK' /\ CallsOK' /\ Grows
           /\ NoPhantomReceipts' /\ LastSectorWasQueued'
           /\ UNCHANGED <<conv, status, outbox, seen, looping, queued, read, own>>
  <1>. USE DEF update_status, Begin
  <1>0. /\ Grows /\ t \in Callers /\ t \notin Nodes
        /\ Home[t] \in Nodes /\ NodeOf[t] = Home[t]
    BY NodeOfApp DEF Grows
  <1>a. /\ call' \in [Callers -> Call \cup {NoCall}]
        /\ call'[t] = [pc |-> pc, msg |-> m0, status |-> st]
        /\ \A d \in Callers : d # t => call'[d] = call[d]
    BY <1>0 DEF DeliveryInv, TypeOK, DmTypeOK, Call
  <1>1. DmTypeOK'
    BY <1>a DEF DeliveryInv, TypeOK, DmTypeOK
  <1>2. CallsOK'
    <2>. SUFFICES ASSUME NEW c \in Callers, call'[c] # NoCall
                  PROVE  CallOK(c)'
      BY DEF CallsOK
    <2>1. CASE c # t
      BY <2>1, <1>0, <1>a, CallStable
    <2>2. CASE c = t
      <3>1. Claim(m0, st) => Claim(m0, st)'
        BY <1>0, ClaimStable
      <3>2. call'[t].pc = pc /\ call'[t].msg = m0 /\ call'[t].status = st
        BY <1>a
      <3>. QED
        BY <2>2, <3>1, <3>2, <1>0 DEF CallOK, Accepts
    <2>. QED
      BY <2>1, <2>2
  <1>3. NoPhantomReceipts' /\ LastSectorWasQueued'
    BY <1>0, PhantomStable DEF DeliveryInv, LastSectorWasQueued
  <1>. QED
    BY <1>0, <1>1, <1>2, <1>3

LEMMA StepMarkRead ==
    ASSUME DeliveryInv, NEW t \in AppThreads, NEW m0 \in Msgs, mark_read(t, m0),
           UNCHANGED glueVars
    PROVE  DeliveryInv'
  <1>. USE DEF glueVars
  <1>1. PICK pc \in {"put_read", "put_emit"} : update_status(t, m0, Read, pc)
    BY DEF mark_read
  <1>2. Read \in MessageStatus
    BY DEF MessageStatus, Queued, Read
  <1>3. /\ DmTypeOK' /\ CallsOK' /\ Grows
        /\ NoPhantomReceipts' /\ LastSectorWasQueued'
        /\ UNCHANGED <<conv, status, outbox, seen, looping, queued, read, own>>
    BY <1>1, <1>2, UpdateEffect
  <1>4. OutboxOK' /\ NetOK'
    BY <1>3, OutboxStable, NetStable
  <1>5. TypeOK' /\ AckedOK' /\ InHandOK'
    BY <1>3 DEF DeliveryInv, TypeOK, AckedOK, InHandOK
  <1>. QED
    BY <1>3, <1>4, <1>5 DEF DeliveryInv

\* The write of a new status: what the caller says of the message is true by
\* then, for one of the reasons Claim gives.
LEMMA PutEffect ==
    ASSUME DeliveryInv, NEW t \in AppThreads, put_status(t),
           UNCHANGED <<inhand, acked, faults, restarts>>
    PROVE  /\ DmTypeOK' /\ CallsOK' /\ Grows /\ OutboxOK' /\ AckedOK' /\ InHandOK'
           /\ NoPhantomReceipts' /\ LastSectorWasQueued'
           /\ call[t].msg \in Msgs
           /\ call[t].pc # "put" => call[t].status = Read
           /\ \A m, st : m = call[t].msg /\ st = call[t].status => Claim(m, st)'
  <1>. USE DEF put_status, At
  <1>. DEFINE m0 == call[t].msg
              st == call[t].status
              n0 == Home[t]
  <1>0. /\ t \in Callers /\ t \notin Nodes /\ n0 \in Nodes /\ NodeOf[t] = n0 /\ TypeOK
        /\ CallOK(t)
    BY NodeOfApp DEF DeliveryInv, CallsOK
  <1>a. /\ m0 \in Msgs /\ st \in MessageStatus
        /\ call[t].pc # "put" => st = Read
        /\ IF Author[m0] = n0 THEN call[t].pc = "put" => Claim(m0, st)
           ELSE st = Read /\ status[n0][m0] # NoMessage
    BY <1>0 DEF CallOK, TypeOK, DmTypeOK, Call
  <1>b. /\ status' \in [Nodes -> [Msgs -> MessageStatus \cup {NoMessage}]]
        /\ status'[n0][m0] = st
        /\ \A n \in Nodes, m \in Msgs : n # n0 \/ m # m0 => status'[n][m] = status[n][m]
    <2>1. [status[n0] EXCEPT ![m0] = st] \in [Msgs -> MessageStatus \cup {NoMessage}]
      BY <1>0, <1>a DEF TypeOK, DmTypeOK
    <2>2. status' = [status EXCEPT ![n0] = [status[n0] EXCEPT ![m0] = st]]
      OBVIOUS
    <2>. QED
      BY <2>1, <2>2, <1>0, <1>a DEF TypeOK, DmTypeOK
  <1>c. Grows
    BY <1>a, <1>b DEF Grows, MessageStatus, Queued, Read, NoMessage
  <1>d. /\ call' \in [Callers -> Call \cup {NoCall}]
        /\ \/ call'[t] = NoCall
           \/ /\ call[t].pc = "put_emit"
              /\ call'[t] = [pc |-> "receipt", msg |-> m0, status |-> st]
        /\ \A d \in Callers : d # t => call'[d] = call[d]
    BY <1>0, ReturnEffect, ContinueEffect
  <1>e. \A m, x : m = m0 /\ x = st => Claim(m, x)'
    <2>1. CASE Author[m0] = n0 /\ call[t].pc = "put"
      BY <2>1, <1>a, <1>c, ClaimStable
    <2>2. CASE Author[m0] = n0 /\ call[t].pc # "put"
      <3>1. st = Read /\ m0 \in own'
        BY <2>2, <1>a
      <3>. QED
        BY <3>1 DEF Claim, Delivered, Read
    <2>3. CASE Author[m0] # n0
      <3>1. Recipient(m0) = n0 /\ st = Read /\ m0 \in read'
        BY <2>3, <1>0, <1>a, TwoNodes DEF Recipient
      <3>2. status'[n0][m0] # NoMessage
        BY <3>1, <1>b DEF Read, NoMessage
      <3>. QED
        BY <3>1, <3>2 DEF Claim, Delivered, Read, Recipient
    <2>. QED
      BY <2>1, <2>2, <2>3
  <1>1. DmTypeOK'
    BY <1>0, <1>a, <1>b, <1>d DEF TypeOK, DmTypeOK
  <1>2. CallsOK'
    <2>. SUFFICES ASSUME NEW c \in Callers, call'[c] # NoCall
                  PROVE  CallOK(c)'
      BY DEF CallsOK
    <2>1. CASE c # t
      BY <2>1, <1>c, <1>d, CallStable
    <2>2. CASE c = t
      <3>1. call'[t].pc = "receipt" /\ call'[t].msg = m0 /\ call'[t].status = st
        BY <2>2, <1>d
      <3>2. st = Read
        BY <2>2, <1>a, <1>d
      <3>. QED
        BY <2>2, <3>1, <3>2, <1>e, <1>0, <1>a DEF CallOK
    <2>. QED
      BY <2>1, <2>2
  <1>3. OutboxOK'
    BY <1>c, OutboxStable
  <1>4. NoPhantomReceipts'
    <2>. SUFFICES ASSUME NEW m \in Msgs
                  PROVE  Claim(m, status[Author[m]][m])'
      BY DEF NoPhantomReceipts
    <2>1. CASE Author[m] = n0 /\ m = m0
      BY <2>1, <1>b, <1>e
    <2>2. CASE ~(Author[m] = n0 /\ m = m0)
      <3>1. /\ status'[Author[m]][m] = status[Author[m]][m]
            /\ Claim(m, status[Author[m]][m])
        BY <2>2, <1>b, DmConstants DEF DeliveryInv, NoPhantomReceipts
      <3>. QED
        BY <3>1, <1>c, ClaimStable DEF Claim
    <2>. QED
      BY <2>1, <2>2
  <1>5. AckedOK' /\ InHandOK' /\ LastSectorWasQueued'
    BY DEF DeliveryInv, AckedOK, InHandOK, LastSectorWasQueued
  <1>. QED
    BY <1>1, <1>2, <1>3, <1>4, <1>5, <1>a, <1>c, <1>e

LEMMA StepPutStatus ==
    ASSUME DeliveryInv, NEW t \in AppThreads, put_status(t), UNCHANGED glueVars
    PROVE  DeliveryInv'
  <1>. USE DEF glueVars
  <1>1. /\ DmTypeOK' /\ CallsOK' /\ Grows /\ OutboxOK' /\ AckedOK' /\ InHandOK'
        /\ NoPhantomReceipts' /\ LastSectorWasQueued'
    BY PutEffect
  <1>2. NetOK'
    BY <1>1, NetStable
  <1>3. TypeOK'
    BY <1>1 DEF DeliveryInv, TypeOK
  <1>. QED
    BY <1>1, <1>2, <1>3 DEF DeliveryInv

LEMMA StepReceipt ==
    ASSUME DeliveryInv, NEW c0 \in Callers, enqueue_receipt(c0), UNCHANGED glueVars
    PROVE  DeliveryInv'
  <1>. USE DEF enqueue_receipt, At, glueVars
  <1>. DEFINE r == Receipt(call[c0].msg, call[c0].status)
  <1>0. Grows /\ NodeOf[c0] \in Nodes /\ TypeOK /\ CallOK(c0)
    BY NodeOfApp, NodeOfLoop DEF Grows, Callers, DeliveryInv, CallsOK
  <1>a. /\ r \in Sector /\ IsReceipt(r)
        /\ Author[r.msg] = NodeOf[c0] => r.status = Read
        /\ Claim(r.msg, r.status)
    BY <1>0 DEF CallOK, Receipt, Sector, IsReceipt, Queued, Delivered, Read
  <1>b. outbox' \in [Nodes -> [Sector -> Nat]] /\ OutboxOK' /\ InHandOK'
    BY <1>0, <1>a, EnqueueEffect
  <1>c. /\ call' \in [Callers -> Call \cup {NoCall}]
        /\ call'[c0] = NoCall
        /\ \A d \in Callers : d # c0 => call'[d] = call[d]
    BY <1>0, ReturnEffect
  <1>1. TypeOK'
    BY <1>0, <1>b, <1>c DEF TypeOK, DmTypeOK
  <1>2. CallsOK'
    <2>. SUFFICES ASSUME NEW c \in Callers, call'[c] # NoCall
                  PROVE  CallOK(c)'
      BY DEF CallsOK
    <2>1. c # c0
      BY <1>c
    <2>. QED
      BY <2>1, <1>0, <1>c, CallStable
  <1>3. NetOK' /\ NoPhantomReceipts'
    BY <1>0, NetStable, PhantomStable
  <1>4. AckedOK' /\ LastSectorWasQueued'
    BY DEF DeliveryInv, AckedOK, LastSectorWasQueued
  <1>. QED
    BY <1>1, <1>2, <1>3, <1>4, <1>b DEF DeliveryInv

LEMMA StepStore ==
    ASSUME DeliveryInv, NEW n0 \in Nodes, store_message(n0), UNCHANGED glueVars
    PROVE  DeliveryInv'
  <1>. USE DEF store_message, At, glueVars
  <1>. DEFINE m0 == call[n0].msg
  <1>0. n0 \in Callers /\ n0 \notin AppThreads /\ NodeOf[n0] = n0 /\ TypeOK /\ CallOK(n0)
    BY NodeOfLoop DEF DeliveryInv, CallsOK
  <1>a. m0 \in Msgs /\ Author[m0] = Peer[n0] /\ call[n0].status = Delivered
    BY <1>0 DEF CallOK
  <1>b. /\ status' \in [Nodes -> [Msgs -> MessageStatus \cup {NoMessage}]]
        /\ status'[n0][m0] = Delivered
        /\ \A n \in Nodes, m \in Msgs : n # n0 \/ m # m0 => status'[n][m] = status[n][m]
    <2>1. [status[n0] EXCEPT ![m0] = Delivered] \in [Msgs -> MessageStatus \cup {NoMessage}]
      BY <1>0, <1>a DEF TypeOK, DmTypeOK, MessageStatus, Queued, Delivered, Read
    <2>2. status' = [status EXCEPT ![n0] = [status[n0] EXCEPT ![m0] = Delivered]]
      OBVIOUS
    <2>. QED
      BY <2>1, <2>2, <1>0, <1>a DEF TypeOK, DmTypeOK
  <1>c. Grows
    BY <1>b DEF Grows, Delivered, NoMessage
  <1>d. /\ call' \in [Callers -> Call \cup {NoCall}]
        /\ call'[n0] = [pc |-> "receipt", msg |-> m0, status |-> Delivered]
        /\ \A d \in Callers : d # n0 => call'[d] = call[d]
    BY <1>0, <1>a, ContinueEffect
  <1>1. TypeOK'
    BY <1>0, <1>b, <1>d DEF TypeOK, DmTypeOK
  <1>2. CallsOK'
    <2>. SUFFICES ASSUME NEW c \in Callers, call'[c] # NoCall
                  PROVE  CallOK(c)'
      BY DEF CallsOK
    <2>1. CASE c # n0
      BY <2>1, <1>c, <1>d, CallStable
    <2>2. CASE c = n0
      <3>1. Recipient(m0) = n0
        BY <1>a, TwoNodes DEF Recipient
      <3>2. \A m : m = m0 => Claim(m, Delivered)'
        BY <3>1, <1>a, <1>b DEF Claim, Delivered, Read, NoMessage, Recipient
      <3>3. Author[m0] # n0
        BY <1>a, TwoNodes
      <3>. QED
        BY <2>2, <3>2, <3>3, <1>0, <1>a, <1>d DEF CallOK
    <2>. QED
      BY <2>1, <2>2
  <1>3. OutboxOK' /\ NetOK'
    BY <1>c, OutboxStable, NetStable
  <1>4. NoPhantomReceipts'
    <2>. SUFFICES ASSUME NEW m \in Msgs
                  PROVE  Claim(m, status[Author[m]][m])'
      BY DEF NoPhantomReceipts
    <2>1. status'[Author[m]][m] = status[Author[m]][m]
      BY <1>a, <1>b, DmConstants
    <2>. QED
      BY <2>1, <1>c, ClaimStable DEF DeliveryInv, NoPhantomReceipts, Claim
  <1>5. AckedOK' /\ InHandOK' /\ LastSectorWasQueued'
    BY DEF DeliveryInv, AckedOK, InHandOK, LastSectorWasQueued
  <1>. QED
    BY <1>1, <1>2, <1>3, <1>4, <1>5 DEF DeliveryInv

LEMMA StepStartLoop ==
    ASSUME DeliveryInv, NEW n0 \in Nodes, start_receive_loop(n0), UNCHANGED glueVars
    PROVE  DeliveryInv'
  <1>. USE DEF start_receive_loop, glueVars
  <1>0. Grows
    BY DEF Grows
  <1>1. TypeOK'
    BY DEF DeliveryInv, TypeOK, DmTypeOK
  <1>2. CallsOK'
    BY <1>0, CallStable DEF CallsOK
  <1>3. OutboxOK' /\ NetOK' /\ NoPhantomReceipts'
    BY <1>0, OutboxStable, NetStable, PhantomStable
  <1>4. AckedOK' /\ InHandOK' /\ LastSectorWasQueued'
    BY DEF DeliveryInv, AckedOK, InHandOK, LastSectorWasQueued
  <1>. QED
    BY <1>1, <1>2, <1>3, <1>4 DEF DeliveryInv

----------------------------------------------------------------------------
(* Steps of the publisher, of arrivals and of the environment *)

LEMMA StepPublish ==
    ASSUME DeliveryInv, NEW n0 \in Nodes, NEW s0 \in Sector, Publish(n0, s0)
    PROVE  DeliveryInv'
  <1>. USE DEF Publish, Fault, dmVars
  <1>0. Grows
    BY DEF Grows
  <1>a. /\ inhand' \in [Nodes -> Sector \cup {NoSector}]
        /\ inhand'[n0] = s0
        /\ \A n \in Nodes : n # n0 => inhand'[n] = inhand[n]
        /\ Peer[n0] \in Nodes
    BY DmConstants DEF DeliveryInv, TypeOK
  <1>b. /\ net' \in [Nodes -> SUBSET Sector]
        /\ \A n \in Nodes, s \in Sector :
              s \in net'[n] => s \in net[n] \/ (n = Peer[n0] /\ s = s0)
    BY <1>a DEF DeliveryInv, TypeOK
  <1>c. DmTypeOK' /\ acked' = acked /\ restarts' = restarts
    BY DEF DeliveryInv, TypeOK, DmTypeOK
  <1>d. faults' \in 0 .. MaxFaults
    BY DeliveryConstants DEF DeliveryInv, TypeOK
  <1>1. TypeOK'
    BY <1>a, <1>b, <1>c, <1>d DEF DeliveryInv, TypeOK
  <1>2. CallsOK'
    BY <1>0, CallStable DEF CallsOK
  <1>3. OutboxOK' /\ NoPhantomReceipts'
    BY <1>0, OutboxStable, PhantomStable
  <1>4. NetOK'
    <2>. SUFFICES ASSUME NEW n \in Nodes, NEW s \in net'[n]
                  PROVE  IF IsReceipt(s)
                         THEN (Author[s.msg] = Peer[n] => s.status = Read) /\ Claim(s.msg, s.status)'
                         ELSE Author[s.msg] = Peer[n]
      BY DEF NetOK, IsReceipt
    <2>1. s \in Sector /\ s.msg \in Msgs
      BY <1>b DEF Sector
    <2>2. CASE s \in net[n]
      BY <2>1, <2>2, <1>0, ClaimStable DEF DeliveryInv, NetOK
    <2>3. CASE n = Peer[n0] /\ s = s0
      <3>1. IF IsReceipt(s)
            THEN (Author[s.msg] = n0 => s.status = Read) /\ Claim(s.msg, s.status)
            ELSE Author[s.msg] = n0
        BY <2>3 DEF DeliveryInv, OutboxOK
      <3>. QED
        BY <2>1, <2>3, <3>1, <1>0, ClaimStable, DmConstants
    <2>. QED
      BY <2>1, <2>2, <2>3, <1>b
  <1>5. AckedOK' /\ LastSectorWasQueued'
    BY DEF DeliveryInv, AckedOK, LastSectorWasQueued
  <1>6. InHandOK'
    BY <1>a DEF DeliveryInv, InHandOK
  <1>. QED
    BY <1>1, <1>2, <1>3, <1>4, <1>5, <1>6 DEF DeliveryInv

LEMMA StepRemove ==
    ASSUME DeliveryInv, NEW n0 \in Nodes, RemovePublished(n0)
    PROVE  DeliveryInv'
  <1>. USE DEF RemovePublished
  <1>0. Grows
    BY DEF Grows
  <1>a. PICK s0 \in Sector : s0 = inhand[n0] /\ outbox[n0][s0] > 0
    BY DEF DeliveryInv, TypeOK, InHandOK
  <1>b. /\ inhand' \in [Nodes -> Sector \cup {NoSector}]
        /\ inhand'[n0] = NoSector
        /\ \A n \in Nodes : n # n0 => inhand'[n] = inhand[n]
    BY DEF DeliveryInv, TypeOK
  <1>c. outbox' \in [Nodes -> [Sector -> Nat]] /\ OutboxOK' /\ InHandOK'
    BY <1>0, <1>a, <1>b, RemoveEffect
  <1>d. s0.msg \in Msgs /\ (~IsReceipt(s0) => Author[s0.msg] = n0)
    BY <1>a DEF Sector, DeliveryInv, OutboxOK
  <1>e. acked' \in [Nodes -> SUBSET Msgs] /\ AckedOK'
    BY <1>a, <1>d DEF DeliveryInv, TypeOK, AckedOK
  <1>1. TypeOK'
    BY <1>b, <1>c, <1>e DEF DeliveryInv, TypeOK, DmTypeOK
  <1>2. CallsOK'
    BY <1>0, CallStable DEF CallsOK
  <1>3. NetOK' /\ NoPhantomReceipts'
    BY <1>0, NetStable, PhantomStable
  <1>4. LastSectorWasQueued'
    BY DEF DeliveryInv, LastSectorWasQueued
  <1>. QED
    BY <1>1, <1>2, <1>3, <1>4, <1>c, <1>e DEF DeliveryInv

LEMMA StepAbandon ==
    ASSUME DeliveryInv, NEW n0 \in Nodes, NEW s0 \in Sector, Abandon(n0, s0)
    PROVE  DeliveryInv'
  <1>. USE DEF Abandon, Fault
  <1>0. Grows
    BY DEF Grows
  <1>a. outbox' \in [Nodes -> [Sector -> Nat]] /\ OutboxOK' /\ InHandOK'
    BY <1>0, RemoveEffect
  <1>1. TypeOK'
    BY <1>a, DeliveryConstants DEF DeliveryInv, TypeOK, DmTypeOK
  <1>2. CallsOK'
    BY <1>0, CallStable DEF CallsOK
  <1>3. NetOK' /\ NoPhantomReceipts'
    BY <1>0, NetStable, PhantomStable
  <1>4. AckedOK' /\ LastSectorWasQueued'
    BY DEF DeliveryInv, AckedOK, LastSectorWasQueued
  <1>. QED
    BY <1>1, <1>2, <1>3, <1>4, <1>a DEF DeliveryInv

\* A sector is taken off the network, or left there to come again.
LEMMA TakeEffect ==
    ASSUME DeliveryInv, NEW n0 \in Nodes, NEW s0 \in Sector, Take(n0, s0)
    PROVE  /\ net' \in [Nodes -> SUBSET Sector]
           /\ \A n \in Nodes : net'[n] \subseteq net[n]
           /\ faults' \in 0 .. MaxFaults
           /\ s0.msg \in Msgs /\ s0.status \in MessageStatus
           /\ IF IsReceipt(s0)
              THEN (Author[s0.msg] = Peer[n0] => s0.status = Read) /\ Claim(s0.msg, s0.status)
              ELSE Author[s0.msg] = Peer[n0]
  BY DeliveryConstants
     DEF Take, Fault, DeliveryInv, TypeOK, NetOK, Sector, MessageStatus, Queued, Delivered, Read

LEMMA StepReceive ==
    ASSUME DeliveryInv, NEW n0 \in Nodes, NEW s0 \in Sector, ReceiveDm(n0, s0)
    PROVE  DeliveryInv'
  <1>. DEFINE m0 == s0.msg
  <1>0. /\ net' \in [Nodes -> SUBSET Sector]
        /\ \A n \in Nodes : net'[n] \subseteq net[n]
        /\ faults' \in 0 .. MaxFaults
        /\ m0 \in Msgs /\ Author[m0] = Peer[n0]
        /\ UNCHANGED <<inhand, acked, restarts>>
    BY TakeEffect DEF ReceiveDm
  <1>1. UNCHANGED <<conv, status, outbox, queued, read, own>>
    BY DEF ReceiveDm, process_inbound_dm, ignore_inbound_dm, dmVars
  <1>2. Grows
    BY <1>1 DEF Grows
  <1>3. DmTypeOK' /\ CallsOK'
    <2>1. CASE ignore_inbound_dm(n0, m0)
      BY <2>1, <1>1, <1>2, CallStable
         DEF ignore_inbound_dm, dmVars, CallsOK, DeliveryInv, TypeOK, DmTypeOK
    <2>2. CASE process_inbound_dm(n0, m0)
      <3>. USE DEF process_inbound_dm, Begin
      <3>1. n0 \in Callers /\ n0 \notin AppThreads /\ NodeOf[n0] = n0
        BY NodeOfLoop
      <3>2. PICK pc \in {"in_open", "in_store"} :
                call' = [call EXCEPT ![n0] = [pc |-> pc, msg |-> m0, status |-> Delivered]]
        BY <2>2
      <3>3. /\ call' \in [Callers -> Call \cup {NoCall}]
            /\ call'[n0] = [pc |-> pc, msg |-> m0, status |-> Delivered]
            /\ \A d \in Callers : d # n0 => call'[d] = call[d]
        BY <3>1, <3>2, <1>0
           DEF DeliveryInv, TypeOK, DmTypeOK, Call, MessageStatus, Queued, Delivered, Read
      <3>4. seen' \in [Nodes -> Seq(Msgs)] /\ \A n \in Nodes : Len(seen'[n]) =< DEDUPE_CAPACITY
        <4>. DEFINE marked == Append(seen[n0], m0)
                    kept == IF Len(marked) > DEDUPE_CAPACITY THEN Tail(marked) ELSE marked
        <4>1. seen[n0] \in Seq(Msgs) /\ Len(seen[n0]) \in Nat /\ Len(seen[n0]) =< DEDUPE_CAPACITY
          BY DEF DeliveryInv, TypeOK, DmTypeOK
        <4>2. marked \in Seq(Msgs) /\ Len(marked) = Len(seen[n0]) + 1
          BY <4>1, <1>0
        <4>3. Tail(marked) \in Seq(Msgs) /\ Len(Tail(marked)) = Len(seen[n0])
          BY <4>1, <4>2
        <4>4. kept \in Seq(Msgs) /\ Len(kept) =< DEDUPE_CAPACITY
          BY <4>1, <4>2, <4>3, DmConstants
        <4>5. seen' = [seen EXCEPT ![n0] = kept]
          BY <2>2 DEF mark
        <4>. QED
          BY <4>4, <4>5 DEF DeliveryInv, TypeOK, DmTypeOK
      <3>5. DmTypeOK'
        BY <2>2, <3>3, <3>4 DEF DeliveryInv, TypeOK, DmTypeOK
      <3>6. CallsOK'
        <4>. SUFFICES ASSUME NEW c \in Callers, call'[c] # NoCall
                      PROVE  CallOK(c)'
          BY DEF CallsOK
        <4>1. CASE c # n0
          BY <4>1, <1>1, <1>2, <3>3, CallStable
        <4>2. CASE c = n0
          BY <4>2, <1>0, <3>1, <3>3 DEF CallOK
        <4>. QED
          BY <4>1, <4>2
      <3>. QED
        BY <3>5, <3>6
    <2>. QED
      BY <2>1, <2>2 DEF ReceiveDm
  <1>4. OutboxOK' /\ NetOK' /\ NoPhantomReceipts'
    BY <1>0, <1>1, <1>2, OutboxStable, NetStable, PhantomStable
  <1>5. TypeOK' /\ AckedOK' /\ InHandOK' /\ LastSectorWasQueued'
    BY <1>0, <1>1, <1>3 DEF DeliveryInv, TypeOK, AckedOK, InHandOK, LastSectorWasQueued
  <1>. QED
    BY <1>3, <1>4, <1>5 DEF DeliveryInv

\* A call that update_status refuses changes nothing in the node.
LEMMA RefusedEffect ==
    ASSUME DeliveryInv, UNCHANGED dmVars
    PROVE  /\ DmTypeOK' /\ CallsOK' /\ Grows
           /\ NoPhantomReceipts' /\ LastSectorWasQueued'
           /\ UNCHANGED <<conv, status, outbox, seen, looping, queued, read, own>>
  <1>. USE DEF dmVars
  <1>1. Grows
    BY DEF Grows
  <1>. QED
    BY <1>1, CallStable, PhantomStable
       DEF DeliveryInv, TypeOK, DmTypeOK, CallsOK, LastSectorWasQueued

LEMMA StepProcessReceipt ==
    ASSUME DeliveryInv, NEW t \in AppThreads, NEW s0 \in Sector, process_receipt(t, s0)
    PROVE  DeliveryInv'
  <1>. USE DEF process_receipt
  <1>0. Home[t] \in Nodes
    BY NodeOfApp
  <1>1. /\ net' \in [Nodes -> SUBSET Sector]
        /\ \A n \in Nodes : net'[n] \subseteq net[n]
        /\ faults' \in 0 .. MaxFaults
        /\ s0.msg \in Msgs /\ s0.status \in MessageStatus
        /\ Author[s0.msg] # Home[t] => s0.status = Read
        /\ Claim(s0.msg, s0.status)
    BY <1>0, TakeEffect, TwoNodes
  <1>2. /\ DmTypeOK' /\ CallsOK' /\ Grows
        /\ NoPhantomReceipts' /\ LastSectorWasQueued'
        /\ UNCHANGED <<conv, status, outbox, seen, looping, queued, read, own>>
    <2>1. CASE update_status(t, s0.msg, s0.status, "put")
      BY <2>1, <1>1, UpdateEffect
    <2>2. CASE UNCHANGED dmVars
      BY <2>2, RefusedEffect
    <2>. QED
      BY <2>1, <2>2
  <1>3. OutboxOK' /\ NetOK'
    BY <1>1, <1>2, OutboxStable, NetStable
  <1>4. TypeOK' /\ AckedOK' /\ InHandOK'
    BY <1>1, <1>2 DEF DeliveryInv, TypeOK, AckedOK, InHandOK
  <1>. QED
    BY <1>2, <1>3, <1>4 DEF DeliveryInv

LEMMA StepPassReceipt ==
    ASSUME DeliveryInv, NEW t \in AppThreads, pass_receipt(t)
    PROVE  DeliveryInv'
  <1>. DEFINE s0 == Receipt(call[t].msg, Read)
  <1>0. /\ Home[t] \in Nodes /\ Peer[Home[t]] \in Nodes
        /\ UNCHANGED <<inhand, acked, faults, restarts>> /\ put_status(t)
        /\ call[t].pc # "put"
    BY NodeOfApp, DmConstants DEF pass_receipt, At
  <1>1. /\ DmTypeOK' /\ CallsOK' /\ Grows /\ OutboxOK' /\ AckedOK' /\ InHandOK'
        /\ NoPhantomReceipts' /\ LastSectorWasQueued'
    BY <1>0, PutEffect
  <1>a. /\ call[t].msg \in Msgs /\ call[t].status = Read
        /\ \A m, st : m = call[t].msg /\ st = Read => Claim(m, st)'
    BY <1>0, PutEffect
  <1>2. s0 \in Sector /\ s0.msg = call[t].msg /\ s0.status = Read
    BY <1>a DEF Receipt, Sector
  <1>3. /\ net' \in [Nodes -> SUBSET Sector]
        /\ \A n \in Nodes : \A s \in net'[n] : s \in net[n] \/ s = s0
    BY <1>0, <1>2 DEF pass_receipt, DeliveryInv, TypeOK
  <1>4. NetOK'
    <2>. SUFFICES ASSUME NEW n \in Nodes, NEW s \in net'[n]
                  PROVE  IF IsReceipt(s)
                         THEN (Author[s.msg] = Peer[n] => s.status = Read) /\ Claim(s.msg, s.status)'
                         ELSE Author[s.msg] = Peer[n]
      BY DEF NetOK, IsReceipt
    <2>1. CASE s \in net[n]
      <3>1. s.msg \in Msgs
        BY <2>1 DEF DeliveryInv, TypeOK, Sector
      <3>. QED
        BY <2>1, <3>1, <1>1, ClaimStable DEF DeliveryInv, NetOK
    <2>2. CASE s = s0
      BY <2>2, <1>a, <1>2 DEF IsReceipt, Queued, Read
    <2>. QED
      BY <1>3, <2>1, <2>2
  <1>5. TypeOK'
    BY <1>0, <1>1, <1>3 DEF DeliveryInv, TypeOK
  <1>. QED
    BY <1>1, <1>4, <1>5 DEF DeliveryInv

LEMMA StepAcknowledge ==
    ASSUME DeliveryInv, NEW t \in AppThreads, NEW m0 \in Msgs, acknowledge_sent(t, m0)
    PROVE  DeliveryInv'
  <1>. USE DEF acknowledge_sent
  <1>0. Home[t] \in Nodes
    BY NodeOfApp
  <1>1. Author[m0] = Home[t] /\ Claim(m0, Sent) /\ Sent \in MessageStatus
    BY <1>0 DEF DeliveryInv, AckedOK, Claim, MessageStatus, Queued, Sent, Delivered, Read
  <1>2. acked' \in [Nodes -> SUBSET Msgs] /\ AckedOK'
    BY <1>0 DEF DeliveryInv, TypeOK, AckedOK
  <1>3. /\ DmTypeOK' /\ CallsOK' /\ Grows
        /\ NoPhantomReceipts' /\ LastSectorWasQueued'
        /\ UNCHANGED <<conv, status, outbox, seen, looping, queued, read, own>>
    <2>1. CASE update_status(t, m0, Sent, "put")
      BY <2>1, <1>1, UpdateEffect
    <2>2. CASE UNCHANGED dmVars
      BY <2>2, RefusedEffect
    <2>. QED
      BY <2>1, <2>2
  <1>4. OutboxOK' /\ NetOK'
    BY <1>3, OutboxStable, NetStable
  <1>5. TypeOK' /\ InHandOK'
    BY <1>2, <1>3 DEF DeliveryInv, TypeOK, InHandOK
  <1>. QED
    BY <1>2, <1>3, <1>4, <1>5 DEF DeliveryInv

LEMMA StepUnsubscribed ==
    ASSUME DeliveryInv, NEW n0 \in Nodes, Unsubscribed(n0)
    PROVE  DeliveryInv'
  <1>. USE DEF Unsubscribed, StreamEnds, Fault
  <1>0. Grows
    BY DEF Grows
  <1>1. net' \in [Nodes -> SUBSET Sector] /\ \A n \in Nodes : net'[n] \subseteq net[n]
    BY DEF DeliveryInv, TypeOK
  <1>2. TypeOK'
    BY <1>1, DeliveryConstants DEF DeliveryInv, TypeOK, DmTypeOK
  <1>3. CallsOK'
    BY <1>0, CallStable DEF CallsOK
  <1>4. OutboxOK' /\ NetOK' /\ NoPhantomReceipts'
    BY <1>0, <1>1, OutboxStable, NetStable, PhantomStable
  <1>5. AckedOK' /\ InHandOK' /\ LastSectorWasQueued'
    BY DEF DeliveryInv, AckedOK, InHandOK, LastSectorWasQueued
  <1>. QED
    BY <1>2, <1>3, <1>4, <1>5 DEF DeliveryInv

LEMMA StepCrash ==
    ASSUME DeliveryInv, NEW n0 \in Nodes, Crash(n0)
    PROVE  DeliveryInv'
  <1>. USE DEF Crash, Restart
  <1>0. Grows
    BY DEF Grows
  <1>1. net' \in [Nodes -> SUBSET Sector] /\ \A n \in Nodes : net'[n] \subseteq net[n]
    BY DEF DeliveryInv, TypeOK
  <1>2. call' \in [Callers -> Call \cup {NoCall}]
    BY DEF DeliveryInv, TypeOK, DmTypeOK
  <1>3. seen' \in [Nodes -> Seq(Msgs)] /\ \A n \in Nodes : Len(seen'[n]) =< DEDUPE_CAPACITY
    BY DmConstants DEF DeliveryInv, TypeOK, DmTypeOK
  <1>4. TypeOK'
    BY <1>1, <1>2, <1>3, DeliveryConstants DEF DeliveryInv, TypeOK, DmTypeOK
  <1>5. CallsOK'
    BY <1>0, CallStable DEF CallsOK
  <1>6. OutboxOK' /\ NetOK' /\ NoPhantomReceipts'
    BY <1>0, <1>1, OutboxStable, NetStable, PhantomStable
  <1>7. AckedOK' /\ InHandOK' /\ LastSectorWasQueued'
    BY DEF DeliveryInv, TypeOK, AckedOK, InHandOK, LastSectorWasQueued
  <1>. QED
    BY <1>4, <1>5, <1>6, <1>7 DEF DeliveryInv

----------------------------------------------------------------------------
(* The theorems *)

LEMMA InvInit == Init => DeliveryInv
  <1>. SUFFICES ASSUME Init
                PROVE  DeliveryInv
    OBVIOUS
  <1>. USE DEF Init, DmInit, NoMessage, Queued, Sent, Delivered, Read
  <1>1. TypeOK
    BY DmConstants, DeliveryConstants DEF TypeOK, DmTypeOK, MessageStatus
  <1>2. CallsOK /\ OutboxOK /\ NetOK /\ AckedOK /\ InHandOK
    BY DEF CallsOK, OutboxOK, NetOK, AckedOK, InHandOK
  <1>3. NoPhantomReceipts /\ LastSectorWasQueued
    BY DmConstants DEF NoPhantomReceipts, Claim, LastSectorWasQueued
  <1>. QED
    BY <1>1, <1>2, <1>3 DEF DeliveryInv

LEMMA InvNext == DeliveryInv /\ [Next]_vars => DeliveryInv'
  <1>. SUFFICES ASSUME DeliveryInv, [Next]_vars
                PROVE  DeliveryInv'
    OBVIOUS
  <1>1. CASE Local
    <2>1. ASSUME NEW t \in AppThreads, AppCall(t), UNCHANGED glueVars
          PROVE  DeliveryInv'
      BY <2>1, StepOpen, StepSend, StepMarkRead DEF AppCall
    <2>2. ASSUME NEW t \in AppThreads, AppStep(t), UNCHANGED glueVars
          PROVE  DeliveryInv'
      BY <2>2, NodeOfApp, StepPutConversation, StepEnqueue, StepSave, StepPutStatus, StepReceipt
         DEF AppStep
    <2>3. ASSUME NEW n \in Nodes, LoopStep(n), UNCHANGED glueVars
          PROVE  DeliveryInv'
      BY <2>3, NodeOfLoop, StepPutConversation, StepStore, StepReceipt, StepStartLoop DEF LoopStep
    <2>. QED
      BY <1>1, <2>1, <2>2, <2>3 DEF Local
  <1>2. ASSUME NEW n \in Nodes, NEW s \in Sector,
               Publish(n, s) \/ Abandon(n, s) \/ ReceiveDm(n, s)
        PROVE  DeliveryInv'
    BY <1>2, StepPublish, StepAbandon, StepReceive
  <1>3. ASSUME NEW n \in Nodes, RemovePublished(n) \/ Unsubscribed(n)
        PROVE  DeliveryInv'
    BY <1>3, StepRemove, StepUnsubscribed
  <1>4. ASSUME NEW n \in Restartable, Crash(n)
        PROVE  DeliveryInv'
    BY <1>4, StepCrash, DeliveryConstants
  <1>5. ASSUME NEW t \in AppThreads, Glue(t)
        PROVE  DeliveryInv'
    BY <1>5, StepProcessReceipt, StepAcknowledge, StepPassReceipt DEF Glue
  <1>6. CASE UNCHANGED vars
    <2>1. Grows /\ UNCHANGED dmVars /\ UNCHANGED glueVars
      BY <1>6 DEF vars, Grows, dmVars
    <2>2. DmTypeOK' /\ CallsOK' /\ NoPhantomReceipts' /\ LastSectorWasQueued'
      BY <2>1, RefusedEffect
    <2>3. OutboxOK' /\ NetOK'
      BY <2>1, OutboxStable, NetStable DEF dmVars, glueVars
    <2>. QED
      BY <2>1, <2>2, <2>3 DEF DeliveryInv, TypeOK, AckedOK, InHandOK, dmVars, glueVars
  <1>. QED
    BY <1>1, <1>2, <1>3, <1>4, <1>5, <1>6 DEF Next

\* The invariant that carries the evidence for every status and receipt.
THEOREM DeliveryInvariant == Spec => []DeliveryInv
  BY InvInit, InvNext, PTL DEF Spec

\* Types are respected; among them, the dedupe cache keeps to its capacity
\* and no outbox entry is removed twice.
THEOREM TypeCorrect == Spec => []TypeOK
  <1>1. DeliveryInv => TypeOK
    BY DEF DeliveryInv
  <1>. QED
    BY <1>1, DeliveryInvariant, PTL

\* A status the sender shows is never ahead of the recipient's database,
\* through any losses, duplicates, reorderings and restarts.
THEOREM ReceiptsAreTrue == Spec => []NoPhantomReceipts
  <1>1. DeliveryInv => NoPhantomReceipts
    BY DEF DeliveryInv
  <1>. QED
    BY <1>1, DeliveryInvariant, PTL

\* last_sector always names a sector that was handed to the outbox.
THEOREM LastSectorTrue == Spec => []LastSectorWasQueued
  <1>1. DeliveryInv => LastSectorWasQueued
    BY DEF DeliveryInv
  <1>. QED
    BY <1>1, DeliveryInvariant, PTL

----------------------------------------------------------------------------
(* The life of a message: DmDelivery implements MessageLifecycle.  What    *)
(* DeliveryInv does not say is that nothing is anywhere, in a call, an     *)
(* outbox, the network or a database, before its author has stored it.     *)

Written == {m \in Msgs : status[Author[m]][m] # NoMessage}

CallsWritten ==
    \A c \in Callers : call[c] # NoCall =>
        /\ call[c].pc # "open" => call[c].msg \in Written
        /\ call[c].pc = "put" => call[c].status # Queued

OutboxWritten == \A n \in Nodes, s \in Sector : outbox[n][s] > 0 => s.msg \in Written

NetWritten == \A n \in Nodes : \A s \in net[n] : s.msg \in Written

StoredWritten == \A n \in Nodes, m \in Msgs : status[n][m] # NoMessage => m \in Written

WrittenInv ==
    /\ CallsWritten
    /\ OutboxWritten
    /\ NetWritten
    /\ StoredWritten

\* What is written stays written.
LEMMA WrittenStable == Grows => Written \subseteq Written'
  BY DmConstants DEF Grows, Written

\* It is enough to look at what a step adds.
LEMMA WrittenStep ==
    ASSUME DeliveryInv, WrittenInv, Grows,
           net' \in [Nodes -> SUBSET Sector],
           \A c \in Callers : call'[c] # NoCall =>
               \/ call'[c] = call[c]
               \/ /\ call'[c].pc # "open" => call'[c].msg \in Written'
                  /\ call'[c].pc = "put" => call'[c].status # Queued,
           \A n \in Nodes, s \in Sector :
               outbox'[n][s] > 0 => outbox[n][s] > 0 \/ s.msg \in Written',
           \A n \in Nodes : \A s \in net'[n] : s \in net[n] \/ s.msg \in Written',
           \A n \in Nodes, m \in Msgs :
               status'[n][m] # NoMessage => status[n][m] # NoMessage \/ m \in Written'
    PROVE  WrittenInv'
  <1>1. CallsWritten'
    BY WrittenStable DEF WrittenInv, CallsWritten
  <1>2. OutboxWritten'
    BY WrittenStable DEF WrittenInv, OutboxWritten
  <1>3. NetWritten'
    BY WrittenStable DEF WrittenInv, NetWritten
  <1>4. StoredWritten'
    BY WrittenStable DEF WrittenInv, StoredWritten
  <1>. QED
    BY <1>1, <1>2, <1>3, <1>4 DEF WrittenInv

\* Calls that begin with an update_status, which has found the message.
LEMMA UpdateWritten ==
    ASSUME DeliveryInv, WrittenInv, NEW t \in AppThreads, NEW m0 \in Msgs, NEW st,
           st # Queued, NEW pc \in {"put", "put_read", "put_emit"}, update_status(t, m0, st, pc),
           net' \in [Nodes -> SUBSET Sector], \A n \in Nodes : net'[n] \subseteq net[n]
    PROVE  WrittenInv'
  <1>. USE DEF update_status, Begin, Accepts
  <1>1. Grows /\ t \in Callers /\ Home[t] \in Nodes
    BY NodeOfApp DEF Grows
  <1>2. m0 \in Written'
    BY <1>1, WrittenStable DEF WrittenInv, StoredWritten
  <1>3. \A c \in Callers :
            call'[c] = IF c = t THEN [pc |-> pc, msg |-> m0, status |-> st] ELSE call[c]
    BY DEF DeliveryInv, TypeOK, DmTypeOK
  <1>. QED
    BY <1>1, <1>2, <1>3, WrittenStep

\* Steps that change nothing but what is in an outbox or on the way.
LEMMA GlueWritten ==
    ASSUME DeliveryInv, WrittenInv, UNCHANGED <<status, call, read, own>>,
           net' \in [Nodes -> SUBSET Sector],
           \A n \in Nodes, s \in Sector : outbox'[n][s] > 0 => outbox[n][s] > 0,
           \A n \in Nodes : \A s \in net'[n] : s \in net[n] \/ s.msg \in Written
    PROVE  WrittenInv'
  <1>1. Grows
    BY DEF Grows
  <1>2. \A n \in Nodes : \A s \in net'[n] : s \in net[n] \/ s.msg \in Written'
    BY DEF Written
  <1>. QED
    BY <1>1, <1>2, WrittenStep

\* A removed entry takes nothing else with it.
LEMMA OutboxShrinks ==
    ASSUME DeliveryInv, NEW n0 \in Nodes, NEW s0 \in Sector,
           outbox' = [outbox EXCEPT ![n0][s0] = @ - 1]
    PROVE  \A n \in Nodes, s \in Sector : outbox'[n][s] > 0 => outbox[n][s] > 0
  <1>1. outbox \in [Nodes -> [Sector -> Nat]]
    BY DEF DeliveryInv, TypeOK, DmTypeOK
  <1>. DEFINE box == [outbox[n0] EXCEPT ![s0] = @ - 1]
  <1>2. \A s \in Sector : box[s] > 0 => outbox[n0][s] > 0
    BY <1>1
  <1>3. outbox' = [outbox EXCEPT ![n0] = box]
    OBVIOUS
  <1>. QED
    BY <1>1, <1>2, <1>3

\* An added one adds nothing else.
LEMMA OutboxGrows ==
    ASSUME DeliveryInv, NEW n0 \in Nodes, NEW s0 \in Sector,
           outbox' = Enqueued(n0, s0) \/ outbox' = outbox
    PROVE  \A n \in Nodes, s \in Sector : outbox'[n][s] > 0 => outbox[n][s] > 0 \/ s = s0
  <1>1. outbox \in [Nodes -> [Sector -> Nat]]
    BY DEF DeliveryInv, TypeOK, DmTypeOK
  <1>2. CASE outbox' = outbox
    BY <1>2
  <1>3. CASE outbox' = Enqueued(n0, s0)
    <2>. DEFINE box == [outbox[n0] EXCEPT ![s0] = @ + 1]
    <2>1. \A s \in Sector : box[s] > 0 => outbox[n0][s] > 0 \/ s = s0
      BY <1>1
    <2>2. outbox' = [outbox EXCEPT ![n0] = box]
      BY <1>3 DEF Enqueued
    <2>. QED
      BY <1>1, <2>1, <2>2
  <1>. QED
    BY <1>2, <1>3

LEMMA WrittenInit == Init => WrittenInv
  BY DmConstants DEF Init, DmInit, WrittenInv, CallsWritten, OutboxWritten, NetWritten,
     StoredWritten, NoMessage

LEMMA WrittenNext == DeliveryInv /\ WrittenInv /\ [Next]_vars => WrittenInv'
  <1>. SUFFICES ASSUME DeliveryInv, WrittenInv, [Next]_vars
                PROVE  WrittenInv'
    OBVIOUS
  <1>t. /\ net \in [Nodes -> SUBSET Sector]
        /\ outbox \in [Nodes -> [Sector -> Nat]]
        /\ status \in [Nodes -> [Msgs -> MessageStatus \cup {NoMessage}]]
        /\ call \in [Callers -> Call \cup {NoCall}]
        /\ inhand \in [Nodes -> Sector \cup {NoSector}]
    BY DEF DeliveryInv, TypeOK, DmTypeOK
  <1>1. ASSUME NEW t \in AppThreads, open_conversation(t), UNCHANGED glueVars
        PROVE  WrittenInv'
    <2>1. Grows
      BY <1>1 DEF open_conversation, Grows
    <2>2. \A c \in Callers : call'[c] = call[c] \/ (call'[c].pc = "open")
      BY <1>1, <1>t DEF open_conversation, Begin
    <2>. QED
      BY <1>1, <1>t, <2>1, <2>2, WrittenStep DEF open_conversation, glueVars
  <1>2. ASSUME NEW t \in AppThreads, NEW m \in Msgs, send_text(t, m), UNCHANGED glueVars
        PROVE  WrittenInv'
    <2>1. Home[t] \in Nodes /\ t \in Callers /\ Author[m] = Home[t]
      BY <1>2, NodeOfApp DEF send_text
    <2>2. \A n \in Nodes, x \in Msgs :
              status'[n][x] = IF n = Home[t] /\ x = m THEN Queued ELSE status[n][x]
      BY <1>2, <1>t, <2>1 DEF send_text
    <2>3. Grows /\ m \in Written'
      BY <1>2, <2>1, <2>2 DEF send_text, Grows, Written, Queued, NoMessage
    <2>4. \A c \in Callers : call'[c] =
              IF c = t THEN [pc |-> "enqueue", msg |-> m, status |-> Queued] ELSE call[c]
      BY <1>2, <1>t DEF send_text, Begin
    <2>5. UNCHANGED <<outbox, net>>
      BY <1>2 DEF send_text, glueVars
    <2>. QED
      BY <1>t, <2>2, <2>3, <2>4, <2>5, WrittenStep
  <1>3. ASSUME NEW t \in AppThreads, NEW m \in Msgs, mark_read(t, m), UNCHANGED glueVars
        PROVE  WrittenInv'
    <2>1. PICK pc \in {"put_read", "put_emit"} : update_status(t, m, Read, pc)
      BY <1>3 DEF mark_read
    <2>. QED
      BY <1>3, <2>1, <1>t, UpdateWritten DEF glueVars, Read, Queued
  <1>4. ASSUME NEW c \in Callers, put_conversation(c), UNCHANGED glueVars
        PROVE  WrittenInv'
    <2>1. Grows /\ CallOK(c) /\ TypeOK
      BY <1>4 DEF put_conversation, Grows, DeliveryInv, CallsOK, At
    <2>2. /\ \A d \in Callers : d # c => call'[d] = call[d]
          /\ \/ call'[c] = NoCall
             \/ /\ call[c].pc # "open"
                /\ call'[c] = [pc |-> "in_store", msg |-> call[c].msg, status |-> call[c].status]
      <3>1. CASE c \in Nodes
        <4>1. call[c].pc # "open" /\ call[c] # NoCall /\ Continue(c, "in_store")
          BY <1>4, <2>1, <3>1 DEF put_conversation, At, CallOK
        <4>. QED
          BY <4>1, <2>1, ContinueEffect
      <3>2. CASE c \notin Nodes
        BY <1>4, <2>1, <3>2, ReturnEffect DEF put_conversation
      <3>. QED
        BY <3>1, <3>2
    <2>3. call[c].pc # "open" => call[c].msg \in Written'
      BY <1>4, <2>1, WrittenStable DEF put_conversation, At, WrittenInv, CallsWritten
    <2>. QED
      BY <1>4, <1>t, <2>1, <2>2, <2>3, WrittenStep DEF put_conversation, glueVars
  <1>5. ASSUME NEW t \in AppThreads, enqueue(t), UNCHANGED glueVars
        PROVE  WrittenInv'
    <2>. DEFINE s0 == DmSector(call[t].msg)
    <2>1. Grows /\ CallOK(t) /\ TypeOK /\ t \in Callers /\ Home[t] \in Nodes
      BY <1>5, NodeOfApp DEF enqueue, Grows, DeliveryInv, CallsOK, At
    <2>2. /\ \A d \in Callers : d # t => call'[d] = call[d]
          /\ \/ call'[t] = NoCall
             \/ call'[t] = [pc |-> "save", msg |-> call[t].msg, status |-> call[t].status]
      BY <1>5, <2>1, ReturnEffect, ContinueEffect DEF enqueue, At
    <2>3. call[t].msg \in Written' /\ s0 \in Sector /\ s0.msg = call[t].msg
      BY <1>5, <2>1, WrittenStable
         DEF enqueue, At, WrittenInv, CallsWritten, DmSector, Sector, CallOK
    <2>4. \A n \in Nodes, s \in Sector : outbox'[n][s] > 0 => outbox[n][s] > 0 \/ s = s0
      BY <1>5, <2>1, <2>3, OutboxGrows DEF enqueue
    <2>. QED
      BY <1>5, <1>t, <2>1, <2>2, <2>3, <2>4, WrittenStep DEF enqueue, glueVars
  <1>6. ASSUME NEW t \in AppThreads, save_conversation(t), UNCHANGED glueVars
        PROVE  WrittenInv'
    <2>1. Grows /\ TypeOK /\ t \in Callers
      BY <1>6, NodeOfApp DEF save_conversation, Grows, DeliveryInv
    <2>2. \A c \in Callers : call'[c] = call[c] \/ call'[c] = NoCall
      BY <1>6, <2>1, ReturnEffect DEF save_conversation
    <2>. QED
      BY <1>6, <1>t, <2>1, <2>2, WrittenStep DEF save_conversation, glueVars
  <1>7. ASSUME NEW t \in AppThreads, put_status(t), UNCHANGED glueVars \/ pass_receipt(t)
        PROVE  WrittenInv'
    <2>. DEFINE m0 == call[t].msg
    <2>1. /\ CallOK(t) /\ TypeOK /\ t \in Callers /\ Home[t] \in Nodes
          /\ m0 \in Msgs /\ call[t].status \in MessageStatus /\ m0 \in Written
      BY <1>7, <1>t, NodeOfApp
         DEF put_status, DeliveryInv, CallsOK, CallOK, At, Call, WrittenInv, CallsWritten
    <2>2. \A n \in Nodes, x \in Msgs :
              status'[n][x] = IF n = Home[t] /\ x = m0 THEN call[t].status ELSE status[n][x]
      BY <1>7, <1>t, <2>1 DEF put_status
    <2>3. Grows
      BY <1>7, <2>1, <2>2 DEF put_status, Grows, MessageStatus, Queued, Read, NoMessage
    <2>4. m0 \in Written'
      BY <2>1, <2>3, WrittenStable
    <2>5. /\ \A d \in Callers : d # t => call'[d] = call[d]
          /\ \/ call'[t] = NoCall
             \/ call'[t] = [pc |-> "receipt", msg |-> m0, status |-> call[t].status]
      BY <1>7, <2>1, ReturnEffect, ContinueEffect DEF put_status, At
    <2>6. /\ net' \in [Nodes -> SUBSET Sector]
          /\ \A n \in Nodes : \A s \in net'[n] : s \in net[n] \/ s.msg = m0
      <3>1. CASE UNCHANGED glueVars
        BY <3>1, <1>t DEF glueVars
      <3>2. CASE pass_receipt(t)
        <4>1. Peer[Home[t]] \in Nodes /\ Receipt(m0, Read) \in Sector /\ Receipt(m0, Read).msg = m0
          BY <2>1, DmConstants DEF Receipt, Sector
        <4>2. net' = [net EXCEPT ![Peer[Home[t]]] = @ \cup {Receipt(m0, Read)}]
          BY <3>2 DEF pass_receipt
        <4>. QED
          BY <4>1, <4>2, <1>t
      <3>. QED
        BY <1>7, <3>1, <3>2
    <2>7. UNCHANGED outbox
      BY <1>7 DEF put_status
    <2>. QED
      BY <1>t, <2>2, <2>3, <2>4, <2>5, <2>6, <2>7, WrittenStep
  <1>8. ASSUME NEW c \in Callers, enqueue_receipt(c), UNCHANGED glueVars
        PROVE  WrittenInv'
    <2>. DEFINE s0 == Receipt(call[c].msg, call[c].status)
    <2>1. Grows /\ CallOK(c) /\ TypeOK /\ NodeOf[c] \in Nodes
      BY <1>8, NodeOfApp, NodeOfLoop DEF enqueue_receipt, Grows, DeliveryInv, CallsOK, At, Callers
    <2>2. \A d \in Callers : call'[d] = call[d] \/ call'[d] = NoCall
      BY <1>8, <2>1, ReturnEffect DEF enqueue_receipt
    <2>3. s0.msg \in Written' /\ s0 \in Sector
      BY <1>8, <2>1, WrittenStable
         DEF enqueue_receipt, At, WrittenInv, CallsWritten, Receipt, Sector, CallOK
    <2>4. \A n \in Nodes, s \in Sector : outbox'[n][s] > 0 => outbox[n][s] > 0 \/ s = s0
      BY <1>8, <2>1, <2>3, OutboxGrows DEF enqueue_receipt
    <2>. QED
      BY <1>8, <1>t, <2>1, <2>2, <2>3, <2>4, WrittenStep DEF enqueue_receipt, glueVars
  <1>9. ASSUME NEW n0 \in Nodes, store_message(n0), UNCHANGED glueVars
        PROVE  WrittenInv'
    <2>. DEFINE m0 == call[n0].msg
    <2>1. CallOK(n0) /\ TypeOK /\ n0 \in Callers /\ m0 \in Msgs /\ m0 \in Written
      BY <1>9, NodeOfLoop
         DEF store_message, DeliveryInv, CallsOK, CallOK, At, WrittenInv, CallsWritten
    <2>2. \A n \in Nodes, x \in Msgs :
              status'[n][x] = IF n = n0 /\ x = m0 THEN Delivered ELSE status[n][x]
      BY <1>9, <1>t, <2>1 DEF store_message
    <2>3. Grows
      BY <1>9, <2>1, <2>2 DEF store_message, Grows, Delivered, NoMessage
    <2>4. m0 \in Written'
      BY <2>1, <2>3, WrittenStable
    <2>5. /\ \A d \in Callers : d # n0 => call'[d] = call[d]
          /\ call'[n0] = [pc |-> "receipt", msg |-> m0, status |-> call[n0].status]
      BY <1>9, <2>1, ContinueEffect DEF store_message, At
    <2>. QED
      BY <1>9, <1>t, <2>2, <2>3, <2>4, <2>5, WrittenStep DEF store_message, glueVars
  <1>10. ASSUME NEW n0 \in Nodes, start_receive_loop(n0), UNCHANGED glueVars
         PROVE  WrittenInv'
    BY <1>10, <1>t, GlueWritten DEF start_receive_loop, glueVars
  <1>11. ASSUME NEW n0 \in Nodes, NEW s0 \in Sector, Publish(n0, s0)
         PROVE  WrittenInv'
    <2>1. Peer[n0] \in Nodes /\ s0.msg \in Written
      BY <1>11, DmConstants DEF Publish, WrittenInv, OutboxWritten
    <2>2. /\ net' \in [Nodes -> SUBSET Sector]
          /\ \A n \in Nodes : \A s \in net'[n] : s \in net[n] \/ s = s0
      <3>1. \/ net' = net
            \/ net' = [net EXCEPT ![Peer[n0]] = @ \cup {s0}]
        BY <1>11 DEF Publish
      <3>2. CASE net' = net
        BY <3>2, <1>t
      <3>3. CASE net' = [net EXCEPT ![Peer[n0]] = @ \cup {s0}]
        BY <3>3, <1>t, <2>1
      <3>. QED
        BY <3>1, <3>2, <3>3
    <2>3. UNCHANGED <<status, call, read, own, outbox>>
      BY <1>11 DEF Publish, dmVars
    <2>. QED
      BY <2>1, <2>2, <2>3, GlueWritten
  <1>12. ASSUME NEW n0 \in Nodes, NEW s0 \in Sector, Abandon(n0, s0)
         PROVE  WrittenInv'
    BY <1>12, <1>t, OutboxShrinks, GlueWritten DEF Abandon
  <1>13. ASSUME NEW n0 \in Nodes, RemovePublished(n0)
         PROVE  WrittenInv'
    BY <1>13, <1>t, OutboxShrinks, GlueWritten DEF RemovePublished
  <1>14. ASSUME NEW n0 \in Nodes, NEW s0 \in Sector, ReceiveDm(n0, s0)
         PROVE  WrittenInv'
    <2>1. /\ net' \in [Nodes -> SUBSET Sector]
          /\ \A n \in Nodes : net'[n] \subseteq net[n]
          /\ s0.msg \in Written
      BY <1>14, <1>t DEF ReceiveDm, Take, WrittenInv, NetWritten
    <2>2. CASE ignore_inbound_dm(n0, s0.msg)
      BY <2>1, <2>2, GlueWritten DEF ignore_inbound_dm, dmVars
    <2>3. CASE process_inbound_dm(n0, s0.msg)
      <3>1. Grows /\ UNCHANGED <<status, outbox>>
        BY <2>3 DEF process_inbound_dm, Grows
      <3>2. \A c \in Callers : \/ call'[c] = call[c]
                              \/ \E pc \in {"in_open", "in_store"} :
                                 call'[c] = [pc |-> pc, msg |-> s0.msg, status |-> Delivered]
        BY <2>3, <1>t DEF process_inbound_dm, Begin
      <3>3. s0.msg \in Written'
        BY <2>1, <3>1, WrittenStable
      <3>. QED
        BY <2>1, <3>1, <3>2, <3>3, WrittenStep
    <2>. QED
      BY <1>14, <2>2, <2>3 DEF ReceiveDm
  <1>15. ASSUME NEW n0 \in Nodes, Unsubscribed(n0)
         PROVE  WrittenInv'
    BY <1>15, <1>t, GlueWritten DEF Unsubscribed, StreamEnds
  <1>16. ASSUME NEW n0 \in Nodes, Crash(n0)
         PROVE  WrittenInv'
    <2>1. Grows /\ UNCHANGED <<status, outbox>>
      BY <1>16 DEF Crash, Restart, Grows
    <2>2. \A c \in Callers : call'[c] = call[c] \/ call'[c] = NoCall
      BY <1>16 DEF Crash, Restart
    <2>3. net' \in [Nodes -> SUBSET Sector] /\ \A n \in Nodes : net'[n] \subseteq net[n]
      BY <1>16, <1>t DEF Crash
    <2>. QED
      BY <2>1, <2>2, <2>3, WrittenStep
  <1>17. ASSUME NEW t \in AppThreads, NEW s0 \in Sector, process_receipt(t, s0)
         PROVE  WrittenInv'
    <2>1. /\ net' \in [Nodes -> SUBSET Sector]
          /\ \A n \in Nodes : net'[n] \subseteq net[n]
          /\ s0.msg \in Msgs /\ s0.status # Queued
      <3>1. Home[t] \in Nodes /\ Take(Home[t], s0)
        BY <1>17, NodeOfApp DEF process_receipt
      <3>2. net' \in [Nodes -> SUBSET Sector] /\ \A n \in Nodes : net'[n] \subseteq net[n]
        BY <3>1, <1>t DEF Take
      <3>. QED
        BY <1>17, <3>2 DEF process_receipt, IsReceipt, Sector
    <2>2. CASE update_status(t, s0.msg, s0.status, "put")
      BY <2>1, <2>2, UpdateWritten
    <2>3. CASE UNCHANGED dmVars
      BY <2>1, <2>3, GlueWritten DEF dmVars
    <2>. QED
      BY <1>17, <2>2, <2>3 DEF process_receipt
  <1>18. ASSUME NEW t \in AppThreads, NEW m0 \in Msgs, acknowledge_sent(t, m0)
         PROVE  WrittenInv'
    <2>1. net' \in [Nodes -> SUBSET Sector] /\ UNCHANGED net /\ Sent # Queued
      BY <1>18, <1>t DEF acknowledge_sent, Sent, Queued
    <2>2. CASE update_status(t, m0, Sent, "put")
      BY <2>1, <2>2, UpdateWritten
    <2>3. CASE UNCHANGED dmVars
      BY <2>1, <2>3, GlueWritten DEF dmVars
    <2>. QED
      BY <1>18, <2>2, <2>3 DEF acknowledge_sent
  <1>19. CASE UNCHANGED vars
    BY <1>19, <1>t, GlueWritten DEF vars, dmVars, glueVars
  <1>20. CASE Local
    BY <1>20, <1>1, <1>2, <1>3, <1>4, <1>5, <1>6, <1>7, <1>8, <1>9, <1>10, NodeOfApp, NodeOfLoop
       DEF Local, AppCall, AppStep, LoopStep
  <1>21. ASSUME NEW t \in AppThreads, pass_receipt(t)
         PROVE  WrittenInv'
    BY <1>7, <1>21 DEF pass_receipt
  <1>. QED
    BY <1>11, <1>12, <1>13, <1>14, <1>15, <1>16, <1>17, <1>18, <1>19, <1>20, <1>21,
       DeliveryConstants
       DEF Next, Glue

\* The values of MessageLifecycle's variables.
LifeHeld == {m \in Msgs : status[Recipient(m)][m] # NoMessage}
LifeKnown == [m \in Msgs |-> status[Author[m]][m]]

\* Steps that write no status are steps the life of a message does not see.
LEMMA LifeStutters ==
    ASSUME UNCHANGED <<status, read, own>>
    PROVE  UNCHANGED Lifecycle!vars
  BY DEF Lifecycle!vars, Recipient

\* A step writes one status of one message at one node.
WritesOne(n0, m0, st) ==
    \A n \in Nodes, m \in Msgs :
        status'[n][m] = IF n = n0 /\ m = m0 THEN st ELSE status[n][m]

\* What one write of a status changes in the life of a message: at its author
\* what is known, at its recipient what is held.
LEMMA LifeOfWrite ==
    ASSUME NEW n0 \in Nodes, NEW m0 \in Msgs, NEW st, st # NoMessage, WritesOne(n0, m0, st)
    PROVE  /\ Author[m0] = n0 =>
                 LifeHeld' = LifeHeld /\ LifeKnown' = [LifeKnown EXCEPT ![m0] = st]
           /\ Author[m0] # n0 =>
                 LifeHeld' = LifeHeld \cup {m0} /\ LifeKnown' = LifeKnown
  <1>. USE DEF WritesOne
  <1>1. \A m \in Msgs : /\ Author[m] \in Nodes /\ Recipient(m) \in Nodes
                        /\ Author[m] = n0 <=> Recipient(m) # n0
    BY DmConstants DEF Recipient
  <1>3. \A m : m \in LifeHeld' <=> m \in Msgs /\ status'[Recipient(m)][m] # NoMessage
    BY DEF LifeHeld, Recipient
  <1>4. ASSUME Author[m0] = n0
        PROVE  LifeHeld' = LifeHeld /\ LifeKnown' = [LifeKnown EXCEPT ![m0] = st]
    <2>1. LifeHeld' = LifeHeld
      BY <1>1, <1>3, <1>4 DEF LifeHeld
    <2>2. LifeKnown' = [LifeKnown EXCEPT ![m0] = st]
      <3>1. \A m \in Msgs :
                status'[Author[m]][m] = IF m = m0 THEN st ELSE status[Author[m]][m]
        BY <1>1, <1>4
      <3>2. LifeKnown' = [m \in Msgs |-> status'[Author[m]][m]]
        BY DEF LifeKnown
      <3>. QED
        BY <3>1, <3>2 DEF LifeKnown
    <2>. QED
      BY <2>1, <2>2
  <1>5. ASSUME Author[m0] # n0
        PROVE  LifeHeld' = LifeHeld \cup {m0} /\ LifeKnown' = LifeKnown
    BY <1>1, <1>3, <1>5 DEF LifeHeld, LifeKnown
  <1>. QED
    BY <1>4, <1>5

\* send_text is the author's Write.
LEMMA LifeSend ==
    ASSUME DeliveryInv, NEW t \in AppThreads, NEW m0 \in Msgs, send_text(t, m0)
    PROVE  Lifecycle!Write(m0)
  <1>1. Home[t] \in Nodes /\ Author[m0] = Home[t] /\ status[Author[m0]][m0] = NoMessage
    BY NodeOfApp DEF send_text
  <1>2. WritesOne(Home[t], m0, Queued)
    BY <1>1 DEF WritesOne, send_text, DeliveryInv, TypeOK, DmTypeOK
  <1>3. LifeHeld' = LifeHeld /\ LifeKnown' = [LifeKnown EXCEPT ![m0] = Queued]
    BY <1>1, <1>2, LifeOfWrite DEF Queued, NoMessage
  <1>. QED
    BY <1>1, <1>3 DEF Lifecycle!Write, send_text, LifeHeld, LifeKnown

\* process_inbound_dm's store is the recipient's Deliver.
LEMMA LifeStore ==
    ASSUME DeliveryInv, WrittenInv, NEW n0 \in Nodes, store_message(n0)
    PROVE  \E m \in Msgs : Lifecycle!Deliver(m)
  <1>0. /\ n0 \in Callers /\ NodeOf[n0] = n0 /\ CallOK(n0)
        /\ call[n0] # NoCall /\ call[n0].pc = "in_store"
    BY NodeOfLoop DEF store_message, DeliveryInv, CallsOK, At
  <1>. PICK m0 \in Msgs : m0 = call[n0].msg
    BY <1>0 DEF CallOK
  <1>1. m0 \in Written /\ Author[m0] # n0
    BY <1>0, DmConstants DEF CallOK, WrittenInv, CallsWritten
  <1>2. WritesOne(n0, m0, Delivered)
    BY <1>1 DEF WritesOne, store_message, DeliveryInv, TypeOK, DmTypeOK
  <1>3. LifeHeld' = LifeHeld \cup {m0} /\ LifeKnown' = LifeKnown
    BY <1>1, <1>2, LifeOfWrite DEF Delivered, NoMessage
  <1>4. Lifecycle!Deliver(m0)
    BY <1>1, <1>3 DEF Lifecycle!Deliver, store_message, LifeHeld, LifeKnown, Written
  <1>. QED
    BY <1>1, <1>4

\* put_status is Learn at the author, where a receipt or an acknowledgement
\* brought the status, MarkOwn where it marks its own message, and MarkRead at
\* the recipient.
LEMMA LifePutStatus ==
    ASSUME DeliveryInv, WrittenInv, NEW t \in AppThreads, put_status(t)
    PROVE  \E m \in Msgs : \/ Lifecycle!MarkRead(m)
                           \/ Lifecycle!MarkOwn(m)
                           \/ \E st \in {Sent, Delivered, Read} : Lifecycle!Learn(m, st)
  <1>. DEFINE n0 == Home[t]
  <1>0. /\ n0 \in Nodes /\ t \in Callers /\ call[t] # NoCall /\ call[t] \in Call
        /\ call[t].pc \in {"put", "put_read", "put_emit"} /\ CallOK(t) /\ NodeOf[t] = n0
    BY NodeOfApp DEF put_status, DeliveryInv, TypeOK, DmTypeOK, CallsOK, At
  <1>. PICK m0 \in Msgs : m0 = call[t].msg
    BY <1>0 DEF CallOK
  <1>. PICK st \in MessageStatus : st = call[t].status
    BY <1>0 DEF Call
  <1>1. /\ m0 \in Written /\ n0 \in Nodes
        /\ IF Author[m0] = n0 THEN call[t].pc = "put" => Claim(m0, st)
           ELSE st = Read /\ status[n0][m0] # NoMessage
        /\ call[t].pc = "put" => st # Queued
        /\ call[t].pc # "put" => st = Read
    BY <1>0 DEF CallOK, Claim, WrittenInv, CallsWritten
  <1>2. WritesOne(n0, m0, st)
    BY <1>1 DEF WritesOne, put_status, DeliveryInv, TypeOK, DmTypeOK
  <1>3. st # NoMessage
    BY <1>1 DEF MessageStatus, NoMessage, Queued, Read
  <1>4. CASE Author[m0] = n0 /\ call[t].pc = "put"
    <2>1. st \in {Sent, Delivered, Read}
      BY <1>1, <1>4 DEF MessageStatus, Queued, Sent, Delivered, Read
    <2>2. LifeHeld' = LifeHeld /\ LifeKnown' = [LifeKnown EXCEPT ![m0] = st]
      <3>1. Author[m0] = n0
        BY <1>4
      <3>. QED
        BY <1>1, <1>2, <1>3, <3>1, LifeOfWrite
    <2>3. /\ st = Delivered => m0 \in LifeHeld
          /\ st = Read => m0 \in own \/ m0 \in LifeHeld \cap read
      BY <1>1, <1>4 DEF Claim, LifeHeld, Delivered, Read
    <2>4. UNCHANGED <<read, own>> /\ LifeKnown[m0] # NoMessage
      BY <1>1, <1>4 DEF put_status, LifeKnown, Written
    <2>5. Lifecycle!Learn(m0, st)
      BY <2>2, <2>3, <2>4 DEF Lifecycle!Learn, LifeHeld, LifeKnown
    <2>. QED
      BY <1>1, <2>1, <2>5
  <1>6. CASE Author[m0] = n0 /\ call[t].pc # "put"
    <2>1. st = Read /\ LifeKnown[m0] # NoMessage
      BY <1>1, <1>6 DEF LifeKnown, Written
    <2>2. LifeHeld' = LifeHeld /\ LifeKnown' = [LifeKnown EXCEPT ![m0] = Read]
      BY <1>1, <1>2, <1>3, <1>6, <2>1, LifeOfWrite
    <2>3. own' = own \cup {m0} /\ UNCHANGED read
      BY <1>6 DEF put_status
    <2>4. Lifecycle!MarkOwn(m0)
      BY <2>1, <2>2, <2>3 DEF Lifecycle!MarkOwn, LifeHeld, LifeKnown
    <2>. QED
      BY <1>1, <2>4
  <1>5. CASE Author[m0] # n0
    <2>1. Recipient(m0) = n0 /\ st = Read /\ m0 \in LifeHeld
      BY <1>1, <1>5, DmConstants DEF LifeHeld, Recipient
    <2>2. LifeHeld' = LifeHeld /\ LifeKnown' = LifeKnown
      <3>1. LifeHeld' = LifeHeld \cup {m0} /\ LifeKnown' = LifeKnown
        BY <1>0, <1>2, <1>3, <1>5, LifeOfWrite
      <3>. QED
        BY <2>1, <3>1
    <2>3. read' = read \cup {m0} /\ UNCHANGED own
      BY <1>5, <2>1 DEF put_status
    <2>4. Lifecycle!MarkRead(m0)
      BY <2>1, <2>2, <2>3 DEF Lifecycle!MarkRead, LifeHeld, LifeKnown
    <2>. QED
      BY <1>1, <2>4
  <1>. QED
    BY <1>4, <1>5, <1>6

LEMMA LifeInit == Init => Lifecycle!Init
  <1>. SUFFICES ASSUME Init PROVE Lifecycle!Init
    OBVIOUS
  <1>1. \A m \in Msgs : status[Author[m]][m] = NoMessage /\ status[Recipient(m)][m] = NoMessage
    BY DmConstants DEF Init, DmInit, Recipient
  <1>. QED
    BY <1>1 DEF Lifecycle!Init, Init, DmInit

LEMMA LifeNext ==
    DeliveryInv /\ WrittenInv /\ [Next]_vars => [Lifecycle!Next]_(Lifecycle!vars)
  <1>. SUFFICES ASSUME DeliveryInv, WrittenInv, [Next]_vars
                PROVE  Lifecycle!Next \/ UNCHANGED Lifecycle!vars
    OBVIOUS
  <1>1. ASSUME NEW t \in AppThreads, AppCall(t)
        PROVE  Lifecycle!Next \/ UNCHANGED Lifecycle!vars
    <2>1. CASE open_conversation(t)
      BY <2>1, LifeStutters DEF open_conversation
    <2>2. ASSUME NEW m \in Msgs, send_text(t, m)
          PROVE  Lifecycle!Next
      BY <2>2, LifeSend DEF Lifecycle!Next
    <2>3. ASSUME NEW m \in Msgs, mark_read(t, m)
          PROVE  UNCHANGED Lifecycle!vars
      BY <2>3, LifeStutters DEF mark_read, update_status
    <2>. QED
      BY <1>1, <2>1, <2>2, <2>3 DEF AppCall
  <1>2. ASSUME NEW t \in AppThreads, AppStep(t)
        PROVE  Lifecycle!Next \/ UNCHANGED Lifecycle!vars
    <2>1. CASE put_status(t)
      BY <2>1, LifePutStatus DEF Lifecycle!Next
    <2>2. CASE put_conversation(t) \/ enqueue(t) \/ save_conversation(t) \/ enqueue_receipt(t)
      BY <2>2, LifeStutters DEF put_conversation, enqueue, save_conversation, enqueue_receipt
    <2>. QED
      BY <1>2, <2>1, <2>2 DEF AppStep
  <1>3. ASSUME NEW n \in Nodes, LoopStep(n)
        PROVE  Lifecycle!Next \/ UNCHANGED Lifecycle!vars
    <2>1. CASE store_message(n)
      BY <2>1, LifeStore DEF Lifecycle!Next
    <2>2. CASE put_conversation(n) \/ enqueue_receipt(n) \/ start_receive_loop(n)
      BY <2>2, LifeStutters DEF put_conversation, enqueue_receipt, start_receive_loop
    <2>. QED
      BY <1>3, <2>1, <2>2 DEF LoopStep
  <1>4. ASSUME NEW n \in Nodes, NEW s \in Sector,
               Publish(n, s) \/ Abandon(n, s) \/ ReceiveDm(n, s)
        PROVE  UNCHANGED Lifecycle!vars
    BY <1>4, LifeStutters
       DEF Publish, Abandon, ReceiveDm, process_inbound_dm, ignore_inbound_dm, dmVars
  <1>5. ASSUME NEW n \in Nodes, RemovePublished(n) \/ Unsubscribed(n) \/ Crash(n)
        PROVE  UNCHANGED Lifecycle!vars
    BY <1>5, LifeStutters DEF RemovePublished, Unsubscribed, StreamEnds, Crash, Restart
  <1>6. ASSUME NEW t \in AppThreads, Glue(t)
        PROVE  Lifecycle!Next \/ UNCHANGED Lifecycle!vars
    <2>1. CASE pass_receipt(t)
      BY <2>1, LifePutStatus DEF pass_receipt, Lifecycle!Next
    <2>2. ASSUME NEW s \in Sector, process_receipt(t, s)
          PROVE  UNCHANGED Lifecycle!vars
      BY <2>2, LifeStutters DEF process_receipt, update_status, dmVars
    <2>3. ASSUME NEW m \in Msgs, acknowledge_sent(t, m)
          PROVE  UNCHANGED Lifecycle!vars
      BY <2>3, LifeStutters DEF acknowledge_sent, update_status, dmVars
    <2>. QED
      BY <1>6, <2>1, <2>2, <2>3 DEF Glue
  <1>7. CASE UNCHANGED vars
    BY <1>7, LifeStutters DEF vars, dmVars
  <1>. QED
    BY <1>1, <1>2, <1>3, <1>4, <1>5, <1>6, <1>7, DeliveryConstants DEF Next, Local

\* Nothing is anywhere before its author has stored it: send_text stores first.
THEOREM WrittenInvariant == Spec => []WrittenInv
  <1>. QED
    BY WrittenInit, WrittenNext, DeliveryInvariant, PTL DEF Spec

\* DmDelivery implements MessageLifecycle: whatever is lost, repeated or cut
\* short, send_text, store_message and put_status are the steps of the life of
\* a message and nothing else touches it.
THEOREM LifecycleRefinement == Spec => ImplementsLifecycle
  <1>. QED
    BY LifeInit, LifeNext, DeliveryInvariant, WrittenInvariant, PTL
       DEF Spec, ImplementsLifecycle, Lifecycle!Spec

----------------------------------------------------------------------------
(* Monotonic statuses.  update_status writes what it decided from an older *)
(* read, and process_inbound_dm writes Delivered without reading at all.   *)
(* Neither takes a status back where a node has one application thread,    *)
(* the dedupe cache has room for every message and whoever receives        *)
(* messages does not lose it.                                              *)

OneThread == \A t, u \in AppThreads : Home[t] = Home[u] => t = u
CacheSuffices == Cardinality(Msgs) =< DEDUPE_CAPACITY
RecipientsStay == \A m \in Msgs : Recipient(m) \notin Restartable

\* A status about to be written is above the one that is stored.
Ahead(t) ==
    At(t, {"put", "put_read", "put_emit"}) =>
        /\ status[Home[t]][call[t].msg] # NoMessage
        /\ status[Home[t]][call[t].msg] < call[t].status

\* A message about to be stored as Delivered is not stored yet.
Fresh(n) ==
    At(n, {"in_open", "in_store"}) =>
        /\ status[n][call[n].msg] = NoMessage
        /\ SeenBefore(n, call[n].msg)

\* The dedupe cache knows every message that was received.
KnowsReceived ==
    \A n \in Nodes, m \in Msgs :
        Author[m] = Peer[n] /\ status[n][m] # NoMessage => SeenBefore(n, m)

SeenOnce == \A n \in Nodes : \A i, j \in DOMAIN seen[n] : seen[n][i] = seen[n][j] => i = j

ForwardInv ==
    /\ \A t \in AppThreads : Ahead(t)
    /\ \A n \in Nodes : Fresh(n)
    /\ KnowsReceived
    /\ SeenOnce

Forward == \A n \in Nodes, m \in Msgs : status'[n][m] >= status[n][m]

\* Statuses are numbers.
LEMMA StatusNumbers ==
    ASSUME DeliveryInv
    PROVE  /\ \A n \in Nodes, m \in Msgs : status[n][m] \in Nat
           /\ MessageStatus \subseteq Nat
  <1>1. MessageStatus \cup {NoMessage} \subseteq Nat
    BY DEF MessageStatus, NoMessage, Queued, Read
  <1>2. status \in [Nodes -> [Msgs -> MessageStatus \cup {NoMessage}]]
    BY DEF DeliveryInv, TypeOK, DmTypeOK
  <1>. HIDE DEF MessageStatus
  <1>. QED
    BY <1>1, <1>2

\* Nothing is stored and nobody is at work.
LEMMA ForwardInit == Init => ForwardInv
  <1>. SUFFICES ASSUME Init PROVE ForwardInv
    OBVIOUS
  <1>1. \A c \in Callers : call[c] = NoCall
    BY DEF Init, DmInit
  <1>2. \A n \in Nodes, m \in Msgs : status[n][m] = NoMessage
    BY DEF Init, DmInit
  <1>3. \A n \in Nodes : seen[n] = <<>>
    BY DEF Init, DmInit
  <1>4. SeenOnce
    BY <1>3 DEF SeenOnce
  <1>. QED
    BY <1>1, <1>2, <1>4, NodeOfApp, NodeOfLoop
       DEF ForwardInv, Ahead, Fresh, At, KnowsReceived

\* Steps that leave what is stored and what was seen alone.
LEMMA ForwardStutters ==
    ASSUME DeliveryInv, ForwardInv, UNCHANGED <<status, seen>>,
           \A t \in AppThreads : call'[t] = call[t] \/ Ahead(t)',
           \A n \in Nodes : call'[n] = call[n] \/ Fresh(n)'
    PROVE  ForwardInv' /\ Forward
  <1>1. \A t \in AppThreads : Ahead(t)'
    BY DEF ForwardInv, Ahead, At
  <1>2. \A n \in Nodes : Fresh(n)'
    BY DEF ForwardInv, Fresh, At, SeenBefore
  <1>3. KnowsReceived' /\ SeenOnce'
    BY DEF ForwardInv, KnowsReceived, SeenOnce, SeenBefore
  <1>4. Forward
    <2>1. \A n \in Nodes, m \in Msgs : status[n][m] \in Nat
      BY StatusNumbers
    <2>. QED
      BY <2>1 DEF Forward
  <1>. QED
    BY <1>1, <1>2, <1>3, <1>4 DEF ForwardInv

\* A step that writes one status and leaves what was seen alone: the write is an
\* advance, the loop of the node is not about to store the same message, and no
\* other thread of the node is about to write it.
Writes(c0, n0, m0, st) ==
    /\ UNCHANGED seen
    /\ st \in MessageStatus /\ st >= status[n0][m0]
    /\ status' = [status EXCEPT ![n0][m0] = st]
    /\ ~At(c0, {"put", "put_read", "put_emit", "in_open", "in_store"})'
    /\ \A c \in Callers : c # c0 => call'[c] = call[c]
    /\ Author[m0] = Peer[n0] => SeenBefore(n0, m0)
    /\ \A t \in AppThreads :
          t # c0 /\ Home[t] = n0 /\ At(t, {"put", "put_read", "put_emit"}) => call[t].msg # m0
    /\ c0 # n0 /\ At(n0, {"in_open", "in_store"}) => call[n0].msg # m0

\* Such a step keeps ForwardInv.
LEMMA ForwardWrites ==
    ASSUME DeliveryInv, ForwardInv, NEW n0 \in Nodes, NEW m0 \in Msgs, NEW st,
           NEW c0 \in Callers, Writes(c0, n0, m0, st)
    PROVE  ForwardInv' /\ Forward
  <1>1. /\ \A n \in Nodes, m \in Msgs :
              status'[n][m] = IF n = n0 /\ m = m0 THEN st ELSE status[n][m]
        /\ \A n \in Nodes, m \in Msgs : status[n][m] \in Nat
        /\ st \in Nat
    <2>1. status \in [Nodes -> [Msgs -> MessageStatus \cup {NoMessage}]]
      BY DEF DeliveryInv, TypeOK, DmTypeOK
    <2>2. \A n \in Nodes, m \in Msgs :
              status'[n][m] = IF n = n0 /\ m = m0 THEN st ELSE status[n][m]
      BY <2>1 DEF Writes
    <2>. QED
      BY <2>2, StatusNumbers DEF Writes
  <1>2. Forward
    BY <1>1 DEF Forward, Writes
  <1>3. ASSUME NEW t \in AppThreads PROVE Ahead(t)'
    <2>. SUFFICES ASSUME At(t, {"put", "put_read", "put_emit"})'
                  PROVE  /\ status'[Home[t]][call'[t].msg] # NoMessage
                         /\ status'[Home[t]][call'[t].msg] < call'[t].status
      BY DEF Ahead
    <2>1. t \in Callers /\ Home[t] \in Nodes /\ t # c0 /\ call'[t] = call[t]
          /\ At(t, {"put", "put_read", "put_emit"})
      BY NodeOfApp DEF At, Writes
    <2>2. /\ status[Home[t]][call[t].msg] # NoMessage
          /\ status[Home[t]][call[t].msg] < call[t].status
          /\ call[t].msg \in Msgs
      BY <2>1 DEF ForwardInv, Ahead, At, DeliveryInv, CallsOK, CallOK
    <2>3. ~(Home[t] = n0 /\ call[t].msg = m0)
      BY <2>1 DEF Writes
    <2>. QED
      BY <1>1, <2>1, <2>2, <2>3
  <1>4. ASSUME NEW n \in Nodes PROVE Fresh(n)'
    <2>. SUFFICES ASSUME At(n, {"in_open", "in_store"})'
                  PROVE  /\ status'[n][call'[n].msg] = NoMessage
                         /\ SeenBefore(n, call[n].msg)'
      BY DEF Fresh
    <2>1. n \in Callers /\ n # c0 /\ call'[n] = call[n] /\ At(n, {"in_open", "in_store"})
      BY NodeOfLoop DEF At, Writes
    <2>2. /\ status[n][call[n].msg] = NoMessage /\ SeenBefore(n, call[n].msg)
          /\ call[n].msg \in Msgs
      BY <2>1 DEF ForwardInv, Fresh, At, DeliveryInv, CallsOK, CallOK
    <2>3. ~(n = n0 /\ call[n].msg = m0)
      BY <2>1 DEF Writes
    <2>4. SeenBefore(n, call[n].msg)'
      BY <2>1, <2>2 DEF SeenBefore, Writes
    <2>. QED
      BY <1>1, <2>1, <2>2, <2>3, <2>4
  <1>5. KnowsReceived' /\ SeenOnce'
    <2>1. SeenOnce'
      BY DEF ForwardInv, SeenOnce, Writes
    <2>2. ASSUME NEW n \in Nodes, NEW m \in Msgs, Author[m] = Peer[n],
                 status'[n][m] # NoMessage
          PROVE  SeenBefore(n, m)
      BY <1>1, <2>2 DEF ForwardInv, KnowsReceived, Writes
    <2>3. \A n \in Nodes, m \in Msgs : SeenBefore(n, m)' <=> SeenBefore(n, m)
      BY DEF SeenBefore, Writes
    <2>. QED
      BY <2>1, <2>2, <2>3 DEF KnowsReceived
  <1>. QED
    BY <1>2, <1>3, <1>4, <1>5 DEF ForwardInv

\* send_text stores a message that nobody has anything of.
LEMMA ForwardSend ==
    ASSUME DeliveryInv, ForwardInv, OneThread, NEW t \in AppThreads, NEW m \in Msgs,
           send_text(t, m)
    PROVE  ForwardInv' /\ Forward
  <1>1. /\ t \in Callers /\ t \notin Nodes /\ NodeOf[t] = Home[t] /\ Home[t] \in Nodes
        /\ Author[m] = Home[t] /\ Author[m] # Peer[Home[t]]
    BY NodeOfApp, TwoNodes DEF send_text
  <1>2. /\ status' = [status EXCEPT ![Home[t]][m] = Queued] /\ Queued >= status[Home[t]][m]
        /\ Queued \in MessageStatus /\ UNCHANGED seen
        /\ status[Home[t]][m] = NoMessage
    BY DEF send_text, Queued, Read, NoMessage, MessageStatus
  <1>3. /\ call'[t] = [pc |-> "enqueue", msg |-> m, status |-> Queued]
        /\ \A c \in Callers : c # t => call'[c] = call[c]
    BY <1>1 DEF send_text, Begin, DeliveryInv, TypeOK, DmTypeOK
  <1>4. ~At(t, {"put", "put_read", "put_emit", "in_open", "in_store"})'
    BY <1>3 DEF At
  <1>5. \A u \in AppThreads : Home[u] = Home[t] /\ At(u, {"put", "put_read", "put_emit"}) /\ u # t
               => call[u].msg # m
    BY DEF OneThread
  <1>6. At(Home[t], {"in_open", "in_store"}) => call[Home[t]].msg # m
    <2>1. At(Home[t], {"in_open", "in_store"}) =>
              Author[call[Home[t]].msg] = Peer[Home[t]]
      BY <1>1, NodeOfLoop DEF DeliveryInv, CallsOK, CallOK, At
    <2>. QED
      BY <1>1, <2>1
  <1>. QED
    <2>1. Writes(t, Home[t], m, Queued)
      BY <1>1, <1>2, <1>3, <1>4, <1>5, <1>6 DEF Writes
    <2>. QED
      BY <1>1, <2>1, ForwardWrites

\* The write of update_status.
LEMMA ForwardPut ==
    ASSUME DeliveryInv, ForwardInv, OneThread, NEW t \in AppThreads, put_status(t)
    PROVE  ForwardInv' /\ Forward
  <1>. PICK m, st : m = call[t].msg /\ st = call[t].status
    OBVIOUS
  <1>1. t \in Callers /\ t \notin Nodes /\ NodeOf[t] = Home[t] /\ Home[t] \in Nodes
    BY NodeOfApp
  <1>2. /\ call[t] \in Call /\ At(t, {"put", "put_read", "put_emit"})
        /\ m \in Msgs /\ st \in MessageStatus
    <2>1. call[t] \in Call /\ At(t, {"put", "put_read", "put_emit"})
      BY <1>1 DEF put_status, At, DeliveryInv, TypeOK, DmTypeOK
    <2>2. m \in Msgs
      BY <1>1, <2>1 DEF At, DeliveryInv, CallsOK, CallOK
    <2>. QED
      BY <2>1, <2>2 DEF Call
  <1>3. status[Home[t]][m] # NoMessage /\ st >= status[Home[t]][m]
    <2>1. status[Home[t]][m] \in Nat /\ st \in Nat
      BY <1>1, <1>2, StatusNumbers
    <2>2. status[Home[t]][m] # NoMessage /\ status[Home[t]][m] < st
      BY <1>2 DEF ForwardInv, Ahead
    <2>. QED
      BY <2>1, <2>2
  <1>4. status' = [status EXCEPT ![Home[t]][m] = st] /\ UNCHANGED seen
    BY DEF put_status
  <1>5. /\ ~At(t, {"put", "put_read", "put_emit", "in_open", "in_store"})'
        /\ \A c \in Callers : c # t => call'[c] = call[c]
    <2>1. CASE Return(t)
      BY <2>1, <1>1, ReturnEffect DEF DeliveryInv, At
    <2>2. CASE Continue(t, "receipt")
      <3>1. /\ call'[t] = [pc |-> "receipt", msg |-> m, status |-> st]
            /\ \A c \in Callers : c # t => call'[c] = call[c]
        BY <2>2, <1>1, <1>2, ContinueEffect DEF DeliveryInv, At
      <3>. QED
        BY <3>1 DEF At
    <2>. QED
      BY <2>1, <2>2 DEF put_status
  <1>6. Author[m] = Peer[Home[t]] => SeenBefore(Home[t], m)
    BY <1>1, <1>2, <1>3 DEF ForwardInv, KnowsReceived
  <1>7. At(Home[t], {"in_open", "in_store"}) => call[Home[t]].msg # m
    BY <1>1, <1>3 DEF ForwardInv, Fresh
  <1>8. \A u \in AppThreads : Home[u] = Home[t] /\ At(u, {"put", "put_read", "put_emit"}) /\ u # t
               => call[u].msg # m
    BY DEF OneThread
  <1>. QED
    <2>1. Writes(t, Home[t], m, st)
      BY <1>1, <1>2, <1>3, <1>4, <1>5, <1>6, <1>7, <1>8 DEF Writes
    <2>. QED
      BY <1>1, <1>2, <2>1, ForwardWrites

\* The loop's store_message.
LEMMA ForwardStore ==
    ASSUME DeliveryInv, ForwardInv, NEW n \in Nodes, store_message(n)
    PROVE  ForwardInv' /\ Forward
  <1>. PICK m : m = call[n].msg
    OBVIOUS
  <1>1. n \in Callers /\ n \notin AppThreads /\ NodeOf[n] = n
    BY NodeOfLoop
  <1>2. At(n, {"in_open", "in_store"}) /\ m \in Msgs /\ call[n] # NoCall
    BY <1>1 DEF store_message, At, DeliveryInv, CallsOK, CallOK
  <1>3. status[n][m] = NoMessage /\ SeenBefore(n, m)
    BY <1>2 DEF ForwardInv, Fresh
  <1>4. /\ status' = [status EXCEPT ![n][m] = Delivered] /\ UNCHANGED seen
        /\ Delivered \in MessageStatus /\ Delivered >= status[n][m]
    BY <1>3 DEF store_message, Delivered, MessageStatus, Queued, Read, NoMessage
  <1>5. /\ call'[n] = [pc |-> "receipt", msg |-> m, status |-> call[n].status]
        /\ \A c \in Callers : c # n => call'[c] = call[c]
    BY <1>1, <1>2, ContinueEffect DEF store_message, DeliveryInv
  <1>6. ~At(n, {"put", "put_read", "put_emit", "in_open", "in_store"})'
    BY <1>5 DEF At
  <1>7. \A u \in AppThreads : Home[u] = n /\ At(u, {"put", "put_read", "put_emit"}) /\ u # n
               => call[u].msg # m
    BY <1>3 DEF ForwardInv, Ahead
  <1>. QED
    <2>1. Writes(n, n, m, Delivered)
      BY <1>1, <1>2, <1>3, <1>4, <1>5, <1>6, <1>7 DEF Writes
    <2>. QED
      BY <1>1, <1>2, <2>1, ForwardWrites

\* A sequence without repetitions is no longer than the set it is from.
LEMMA NoRepetition ==
    ASSUME NEW S, IsFiniteSet(S), NEW s \in Seq(S),
           \A i, j \in DOMAIN s : s[i] = s[j] => i = j
    PROVE  Len(s) =< Cardinality(S)
  <1>1. PICK k \in Nat : k = Len(s)
    OBVIOUS
  <1>2. s \in [1 .. k -> S]
    BY <1>1
  <1>3. s \in Injection(1 .. k, S)
    BY <1>2 DEF Injection, IsInjective
  <1>4. 1 \in Int /\ k \in Int
    OBVIOUS
  <1>5. IsFiniteSet(1 .. k) /\ Cardinality(1 .. k) = IF 1 > k THEN 0 ELSE k - 1 + 1
    BY <1>4, FS_Interval
  <1>6. Cardinality(1 .. k) = k
    BY <1>5
  <1>7. Cardinality(1 .. k) =< Cardinality(S)
    BY <1>3, FS_Injection
  <1>. QED
    BY <1>1, <1>6, <1>7

\* A message that the dedupe cache does not know is marked and taken on.
LEMMA ForwardReceive ==
    ASSUME DeliveryInv, ForwardInv, CacheSuffices, NEW n \in Nodes, NEW s \in Sector,
           ReceiveDm(n, s)
    PROVE  ForwardInv' /\ Forward
  <1>. PICK m : m = s.msg
    OBVIOUS
  <1>1. m \in Msgs /\ Author[m] = Peer[n]
    BY TakeEffect DEF ReceiveDm
  <1>2. CASE ignore_inbound_dm(n, m)
    BY <1>2, ForwardStutters DEF ignore_inbound_dm, dmVars
  <1>3. CASE process_inbound_dm(n, m)
    <2>1. n \in Callers /\ n \notin AppThreads
      BY NodeOfLoop
    <2>2. ~SeenBefore(n, m) /\ status[n][m] = NoMessage
      BY <1>1, <1>3 DEF process_inbound_dm, ForwardInv, KnowsReceived
    <2>3. PICK q : q = seen[n]
      OBVIOUS
    <2>4. /\ q \in Seq(Msgs) /\ \A i, j \in DOMAIN q : q[i] = q[j] => i = j
          /\ \A i \in DOMAIN q : q[i] # m
      BY <2>2, <2>3 DEF DeliveryInv, TypeOK, DmTypeOK, ForwardInv, SeenOnce, SeenBefore
    <2>5. PICK marked : marked = Append(q, m)
      OBVIOUS
    <2>6. /\ marked \in Seq(Msgs)
          /\ \A i, j \in DOMAIN marked : marked[i] = marked[j] => i = j
          /\ \A i \in DOMAIN q : i \in DOMAIN marked /\ marked[i] = q[i]
          /\ \E i \in DOMAIN marked : marked[i] = m
      <3>1. PICK k \in Nat : k = Len(q)
        BY <2>4
      <3>2. /\ marked \in Seq(Msgs) /\ DOMAIN marked = 1 .. k + 1 /\ DOMAIN q = 1 .. k
            /\ marked[k + 1] = m /\ \A i \in 1 .. k : marked[i] = q[i]
        BY <1>1, <2>4, <2>5, <3>1
      <3>3. \A i \in 1 .. k + 1 : i \in 1 .. k \/ i = k + 1
        BY <3>1
      <3>4. \A i, j \in 1 .. k + 1 : marked[i] = marked[j] => i = j
        BY <2>4, <3>2, <3>3
      <3>5. \A i \in 1 .. k : i \in 1 .. k + 1
        BY <3>1
      <3>6. k + 1 \in 1 .. k + 1
        BY <3>1
      <3>. QED
        BY <3>2, <3>4, <3>5, <3>6
    <2>7. Len(marked) =< DEDUPE_CAPACITY
      <3>1. Len(marked) =< Cardinality(Msgs)
        BY <2>6, DmConstants, NoRepetition
      <3>2. Len(marked) \in Nat /\ Cardinality(Msgs) \in Nat /\ DEDUPE_CAPACITY \in Nat
        BY <2>6, DmConstants, FS_CardinalityType
      <3>. QED
        BY <3>1, <3>2 DEF CacheSuffices
    <2>8. seen' = [seen EXCEPT ![n] = marked]
      <3>1. Len(marked) \in Nat /\ DEDUPE_CAPACITY \in Nat
        BY <2>6, DmConstants
      <3>2. ~(Len(marked) > DEDUPE_CAPACITY)
        BY <2>7, <3>1
      <3>. QED
        BY <1>3, <2>3, <2>5, <3>2 DEF process_inbound_dm, mark
    <2>9. seen'[n] = marked /\ \A x \in Nodes : x # n => seen'[x] = seen[x]
      BY <2>8 DEF DeliveryInv, TypeOK, DmTypeOK
    <2>10. \A x \in Nodes, y \in Msgs : SeenBefore(x, y) => SeenBefore(x, y)'
      BY <2>3, <2>6, <2>9 DEF SeenBefore
    <2>11. SeenBefore(n, m)'
      BY <2>6, <2>9 DEF SeenBefore
    <2>12. SeenOnce'
      BY <2>6, <2>9 DEF SeenOnce, ForwardInv
    <2>13. UNCHANGED status
      BY <1>3 DEF process_inbound_dm
    <2>14. KnowsReceived'
      BY <2>10, <2>13 DEF ForwardInv, KnowsReceived
    <2>15. /\ call'[n].msg = m
           /\ \A c \in Callers : c # n => call'[c] = call[c]
      BY <1>3, <2>1 DEF process_inbound_dm, Begin, DeliveryInv, TypeOK, DmTypeOK
    <2>16. \A t \in AppThreads : Ahead(t)'
      BY <2>1, <2>13, <2>15, NodeOfApp DEF ForwardInv, Ahead, At
    <2>17. ASSUME NEW x \in Nodes PROVE Fresh(x)'
      <3>1. CASE x = n
        BY <3>1, <2>2, <2>11, <2>13, <2>15 DEF Fresh
      <3>2. CASE x # n
        <4>1. x \in Callers /\ call'[x] = call[x]
          BY <3>2, <2>15, NodeOfLoop
        <4>2. At(x, {"in_open", "in_store"}) => call[x].msg \in Msgs
          BY <4>1 DEF At, DeliveryInv, CallsOK, CallOK
        <4>. QED
          BY <4>1, <4>2, <2>10, <2>13 DEF ForwardInv, Fresh, At
      <3>. QED
        BY <3>1, <3>2
    <2>18. Forward
      <3>1. \A x \in Nodes, y \in Msgs : status[x][y] \in Nat
        BY StatusNumbers
      <3>. QED
        BY <3>1, <2>13 DEF Forward
    <2>. QED
      BY <2>12, <2>14, <2>16, <2>17, <2>18 DEF ForwardInv
  <1>. QED
    BY <1>2, <1>3 DEF ReceiveDm

\* A process that stops forgets what it has seen; it was nobody's recipient.
LEMMA ForwardCrash ==
    ASSUME DeliveryInv, ForwardInv, RecipientsStay, NEW n \in Restartable, Crash(n)
    PROVE  ForwardInv' /\ Forward
  <1>1. n \in Nodes /\ \A m \in Msgs : Author[m] # Peer[n]
    BY DeliveryConstants, TwoNodes DEF RecipientsStay, Recipient
  <1>2. /\ UNCHANGED status /\ seen'[n] = <<>>
        /\ \A x \in Nodes : x # n => seen'[x] = seen[x]
        /\ \A c \in Callers : call'[c] = IF NodeOf[c] = n THEN NoCall ELSE call[c]
    BY <1>1 DEF Crash, Restart, DeliveryInv, TypeOK, DmTypeOK
  <1>3. \A t \in AppThreads : Ahead(t)'
    BY <1>2, NodeOfApp DEF ForwardInv, Ahead, At
  <1>4. \A x \in Nodes : Fresh(x)'
    BY <1>2, NodeOfLoop DEF ForwardInv, Fresh, At, SeenBefore
  <1>5. KnowsReceived'
    BY <1>1, <1>2 DEF ForwardInv, KnowsReceived, SeenBefore
  <1>6. SeenOnce'
    BY <1>1, <1>2 DEF ForwardInv, SeenOnce
  <1>7. Forward
    <2>1. \A x \in Nodes, y \in Msgs : status[x][y] \in Nat
      BY StatusNumbers
    <2>. QED
      BY <2>1, <1>2 DEF Forward
  <1>. QED
    BY <1>3, <1>4, <1>5, <1>6, <1>7 DEF ForwardInv

\* A thread that has begun an update_status is ahead of what is stored.
LEMMA ForwardUpdate ==
    ASSUME DeliveryInv, ForwardInv, NEW t \in AppThreads, NEW m \in Msgs, NEW st,
           NEW pc, update_status(t, m, st, pc)
    PROVE  ForwardInv' /\ Forward
  <1>1. t \in Callers /\ t \notin Nodes /\ Home[t] \in Nodes
    BY NodeOfApp
  <1>2. /\ call'[t] = [pc |-> pc, msg |-> m, status |-> st]
        /\ \A c \in Callers : c # t => call'[c] = call[c]
        /\ UNCHANGED <<status, seen>>
    BY <1>1 DEF update_status, Begin, DeliveryInv, TypeOK, DmTypeOK
  <1>3. status[Home[t]][m] # NoMessage /\ status[Home[t]][m] < st
    BY DEF update_status, Accepts, is_valid_transition
  <1>4. Ahead(t)'
    BY <1>2, <1>3 DEF Ahead
  <1>. QED
    BY <1>1, <1>2, <1>4, NodeOfApp, NodeOfLoop, ForwardStutters

\* The other steps of a call go on to places where nothing is promised, or, in
\* the loop, from one such place to the next.
LEMMA ForwardCalls ==
    ASSUME DeliveryInv, ForwardInv, NEW c \in Callers,
           \/ c \in AppThreads /\ (open_conversation(c) \/ enqueue(c) \/ save_conversation(c))
           \/ put_conversation(c)
           \/ enqueue_receipt(c)
    PROVE  ForwardInv' /\ Forward
  <1>1. UNCHANGED <<status, seen>>
    BY DEF open_conversation, enqueue, save_conversation, put_conversation, enqueue_receipt
  <1>2. /\ \A d \in Callers : d # c => call'[d] = call[d]
        /\ \/ ~At(c, {"put", "put_read", "put_emit", "in_open", "in_store"})'
           \/ /\ c \in Nodes /\ At(c, {"in_open"}) /\ call'[c].msg = call[c].msg
    <2>1. CASE c \in AppThreads /\ open_conversation(c)
      <3>1. /\ call'[c] = [pc |-> "open", msg |-> NoSector, status |-> Queued]
            /\ \A d \in Callers : d # c => call'[d] = call[d]
        BY <2>1 DEF open_conversation, Begin, DeliveryInv, TypeOK, DmTypeOK
      <3>. QED
        BY <3>1 DEF At
    <2>2. CASE Return(c)
      BY <2>2, ReturnEffect DEF DeliveryInv, At
    <2>3. CASE Continue(c, "save") /\ call[c] # NoCall
      <3>1. /\ call'[c] = [pc |-> "save", msg |-> call[c].msg, status |-> call[c].status]
            /\ \A d \in Callers : d # c => call'[d] = call[d]
        BY <2>3, ContinueEffect DEF DeliveryInv
      <3>. QED
        BY <3>1 DEF At
    <2>4. CASE c \in Nodes /\ Continue(c, "in_store") /\ At(c, {"open", "in_open"})
      <3>1. At(c, {"in_open"})
        BY <2>4 DEF At, DeliveryInv, CallsOK, CallOK
      <3>2. /\ call'[c] = [pc |-> "in_store", msg |-> call[c].msg, status |-> call[c].status]
            /\ \A d \in Callers : d # c => call'[d] = call[d]
        BY <2>4, <3>1, ContinueEffect DEF DeliveryInv, At
      <3>. QED
        BY <2>4, <3>1, <3>2
    <2>. QED
      BY <2>1, <2>2, <2>3, <2>4
         DEF enqueue, save_conversation, put_conversation, enqueue_receipt, At
  <1>3. ASSUME NEW t \in AppThreads PROVE call'[t] = call[t] \/ Ahead(t)'
    BY <1>2, NodeOfApp DEF Ahead, At
  <1>4. ASSUME NEW n \in Nodes PROVE call'[n] = call[n] \/ Fresh(n)'
    <2>1. CASE n # c
      BY <2>1, <1>2, NodeOfLoop
    <2>2. CASE n = c /\ ~At(c, {"put", "put_read", "put_emit", "in_open", "in_store"})'
      BY <2>2 DEF Fresh, At
    <2>3. CASE n = c /\ At(c, {"in_open"}) /\ call'[c].msg = call[c].msg
      BY <2>3, <1>1 DEF ForwardInv, Fresh, At, SeenBefore
    <2>. QED
      BY <1>2, <2>1, <2>2, <2>3
  <1>. QED
    BY <1>1, <1>3, <1>4, ForwardStutters

\* Every step keeps ForwardInv and takes no status back.
LEMMA ForwardNext ==
    ASSUME DeliveryInv, ForwardInv, [Next]_vars, OneThread, CacheSuffices, RecipientsStay
    PROVE  ForwardInv' /\ Forward
  <1>. DEFINE Goal == ForwardInv' /\ Forward
  <1>1. ASSUME NEW t \in AppThreads, AppCall(t) PROVE Goal
    <2>1. ASSUME NEW m \in Msgs, mark_read(t, m) PROVE Goal
      <3>1. PICK pc \in {"put_read", "put_emit"} : update_status(t, m, Read, pc)
        BY <2>1 DEF mark_read
      <3>. QED
        BY <3>1, ForwardUpdate
    <2>. QED
      BY <1>1, <2>1, NodeOfApp, ForwardCalls, ForwardSend DEF AppCall
  <1>2. ASSUME NEW t \in AppThreads, AppStep(t) PROVE Goal
    BY <1>2, NodeOfApp, ForwardCalls, ForwardPut DEF AppStep
  <1>3. ASSUME NEW n \in Nodes, LoopStep(n) PROVE Goal
    <2>1. CASE start_receive_loop(n)
      BY <2>1, ForwardStutters DEF start_receive_loop
    <2>. QED
      BY <1>3, <2>1, NodeOfLoop, ForwardCalls, ForwardStore DEF LoopStep
  <1>4. ASSUME NEW n \in Nodes, NEW s \in Sector, Publish(n, s) \/ Abandon(n, s) PROVE Goal
    <2>1. UNCHANGED <<status, seen, call>>
      BY <1>4 DEF Publish, Abandon, dmVars
    <2>. QED
      BY <2>1, ForwardStutters
  <1>5. ASSUME NEW n \in Nodes, RemovePublished(n) \/ Unsubscribed(n) PROVE Goal
    <2>1. UNCHANGED <<status, seen, call>>
      BY <1>5 DEF RemovePublished, Unsubscribed, StreamEnds
    <2>. QED
      BY <2>1, ForwardStutters
  <1>6. ASSUME NEW n \in Nodes, NEW s \in Sector, ReceiveDm(n, s) PROVE Goal
    BY <1>6, ForwardReceive
  <1>7. ASSUME NEW n \in Restartable, Crash(n) PROVE Goal
    BY <1>7, ForwardCrash
  <1>8. ASSUME NEW t \in AppThreads, Glue(t) PROVE Goal
    <2>1. CASE UNCHANGED dmVars
      BY <2>1, ForwardStutters DEF dmVars
    <2>2. ASSUME NEW s \in Sector, process_receipt(t, s), ~UNCHANGED dmVars PROVE Goal
      <3>1. s.msg \in Msgs
        BY DEF Sector
      <3>. QED
        BY <2>2, <3>1, ForwardUpdate DEF process_receipt
    <2>3. ASSUME NEW m \in Msgs, acknowledge_sent(t, m), ~UNCHANGED dmVars PROVE Goal
      BY <2>3, ForwardUpdate DEF acknowledge_sent
    <2>4. CASE pass_receipt(t)
      BY <2>4, ForwardPut DEF pass_receipt
    <2>. QED
      BY <1>8, <2>1, <2>2, <2>3, <2>4 DEF Glue
  <1>9. CASE UNCHANGED vars
    BY <1>9, ForwardStutters DEF vars, dmVars
  <1>. QED
    BY <1>1, <1>2, <1>3, <1>4, <1>5, <1>6, <1>7, <1>8, <1>9 DEF Next, Local

\* "Monotonic message delivery status": with one application thread per node, a
\* dedupe cache that holds every message and recipients that do not restart,
\* no step of update_status or process_inbound_dm takes a status back, for any
\* messages, duplicates, reorderings and restarts of senders.
THEOREM StatusesMonotonic ==
    OneThread /\ CacheSuffices /\ RecipientsStay => (Spec => Monotonic)
  <1>. SUFFICES ASSUME OneThread, CacheSuffices, RecipientsStay PROVE Spec => Monotonic
    OBVIOUS
  <1>1. Init => ForwardInv
    BY ForwardInit
  <1>2. DeliveryInv /\ ForwardInv /\ [Next]_vars => ForwardInv'
    BY ForwardNext
  <1>3. DeliveryInv /\ ForwardInv /\ [Next]_vars => [Forward]_vars
    BY ForwardNext
  <1>. QED
    BY <1>1, <1>2, <1>3, DeliveryInvariant, PTL DEF Spec, Monotonic, Forward
====
