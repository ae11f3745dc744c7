---- MODULE GridClientProofs ----
(***************************************************************************)
(* Safety of GridClient for any callers, topics, peers and channel         *)
(* capacity, and whatever the service refuses.                             *)
(*                                                                         *)
(* A message is dropped when the service is subscribed to a topic whose    *)
(* sender is gone.  The two are changed by different tasks, the loop and   *)
(* the callers; the invariant says what each may conclude about the other  *)
(* while no unsubscribe of the topic overlapped another call or failed.    *)
(***************************************************************************)
EXTENDS GridClient, TLAPS

Busy(p) == call[p] # NoCall

\* What waits in the command channel is what its caller waits for, and a
\* caller waits for one thing.
Waiting ==
    /\ \A i \in DOMAIN commands :
          LET c == commands[i]
          IN  /\ call[c.caller] # NoCall /\ call[c.caller].pc = "reply"
              /\ call[c.caller].kind = c.kind /\ call[c.caller].topic = c.topic
    /\ \A i, j \in DOMAIN commands :
          commands[i].caller = commands[j].caller => i = j

\* Calls of one topic of which one is an unsubscribe.
OverlapSeen ==
    \A p, q \in Callers :
        (/\ p # q /\ Busy(p) /\ Busy(q)
         /\ call[p].kind = "Unsubscribe" /\ call[q].topic = call[p].topic) =>
            call[p].topic \in unsettled

\* A subscriber finds its sender registered until it has its answer.
SenderKept ==
    \A p \in Callers :
        (Busy(p) /\ call[p].kind = "Subscribe") =>
            /\ call[p].rx # 0
            /\ topics[call[p].topic] # 0 \/ call[p].topic \in unsettled

\* An unsubscriber that has its answer finds the service unsubscribed.
Unheard ==
    \A p \in Callers :
        (Busy(p) /\ call[p].kind = "Unsubscribe" /\ call[p].pc \in {"Ok", "Err"}) =>
            call[p].topic \notin gossip \/ call[p].topic \in unsettled

GossipHeard == \A tp \in gossip : topics[tp] # 0 \/ tp \in unsettled

ClientInv ==
    /\ TypeOK
    /\ phase # "running" => gossip = {}
    /\ ConnectedToTarget
    /\ Waiting
    /\ OverlapSeen
    /\ SenderKept
    /\ Unheard
    /\ GossipHeard
    /\ NothingDropped

----------------------------------------------------------------------------

\* A client that is not connected, with no caller under way, satisfies ClientInv.
LEMMA ClientInit == Init => ClientInv
  BY ClientConstants
     DEF Init, ClientInv, TypeOK, ConnectedToTarget, Connected, Waiting, OverlapSeen, SenderKept,
         Unheard, GossipHeard, NothingDropped, Phases, Channels, Busy

\* Begin: a call starts, and an overlap with an unsubscribe is noted.
LEMMA BeginEffect ==
    ASSUME ClientInv, NEW p \in Callers, NEW kind \in Kind, NEW tp \in Topics,
           NEW rx \in Channels, Begin(p, kind, tp, rx)
    PROVE  /\ call' \in [Callers -> Call \cup {NoCall}]
           /\ call[p] = NoCall
           /\ call'[p].pc = "send" /\ call'[p].kind = kind
           /\ call'[p].topic = tp /\ call'[p].rx = rx
           /\ call'[p] # NoCall
           /\ \A q \in Callers : q # p => call'[q] = call[q]
           /\ unsettled \subseteq unsettled' /\ unsettled' \subseteq Topics
           /\ OverlapSeen'
  <1>1. [pc |-> "send", kind |-> kind, topic |-> tp, rx |-> rx] \in Call
    BY DEF Call
  <1>2. /\ call' \in [Callers -> Call \cup {NoCall}]
        /\ call[p] = NoCall
        /\ call'[p] = [pc |-> "send", kind |-> kind, topic |-> tp, rx |-> rx]
        /\ call'[p] # NoCall
        /\ \A q \in Callers : q # p => call'[q] = call[q]
        /\ unsettled \subseteq unsettled' /\ unsettled' \subseteq Topics
    BY <1>1, NoCallIsNone DEF Begin, ClientInv, TypeOK
  <1>3. ASSUME NEW q \in Callers, q # p, Busy(q), call[q].topic = tp,
               kind = "Unsubscribe" \/ call[q].kind = "Unsubscribe"
        PROVE  tp \in unsettled'
    BY <1>3 DEF Begin, Busy
  <1>4. OverlapSeen'
    <2>. SUFFICES ASSUME NEW q \in Callers, NEW r \in Callers, q # r,
                         Busy(q)', Busy(r)', call'[q].kind = "Unsubscribe",
                         call'[r].topic = call'[q].topic
                  PROVE  call'[q].topic \in unsettled'
      BY DEF OverlapSeen
    <2>1. CASE q # p /\ r # p
      BY <2>1, <1>2 DEF ClientInv, OverlapSeen, Busy
    <2>2. CASE q = p
      BY <2>2, <1>2, <1>3 DEF Busy
    <2>3. CASE r = p
      BY <2>3, <1>2, <1>3 DEF Busy
    <2>. QED
      BY <2>1, <2>2, <2>3
  <1>. QED
    BY <1>2, <1>4

\* A waiting caller's call moves on and stays the same call otherwise.
LEMMA AnswerEffect ==
    ASSUME ClientInv, NEW p \in Callers, NEW pc \in {"reply", "Ok", "Err"}, Busy(p),
           call' = [call EXCEPT ![p].pc = pc]
    PROVE  /\ call' \in [Callers -> Call \cup {NoCall}]
           /\ call'[p].pc = pc /\ call'[p].kind = call[p].kind
           /\ call'[p].topic = call[p].topic /\ call'[p].rx = call[p].rx
           /\ call'[p] # NoCall
           /\ \A q \in Callers : q # p => call'[q] = call[q]
  <1>. DEFINE new == [call[p] EXCEPT !.pc = pc]
  <1>1. call[p] \in Call
    BY DEF ClientInv, TypeOK, Busy
  <1>2. /\ new \in Call
        /\ new = [pc |-> pc, kind |-> call[p].kind, topic |-> call[p].topic,
                  rx |-> call[p].rx]
    BY <1>1 DEF Call
  <1>3. call' = [call EXCEPT ![p] = new]
    OBVIOUS
  <1>. HIDE DEF new
  <1>. QED
    BY <1>2, <1>3, NoCallIsNone DEF ClientInv, TypeOK

\* What is left of the invariant when the command channel is not touched and
\* p's call moves.
LEMMA WaitingStable ==
    ASSUME ClientInv, UNCHANGED commands, NEW p \in Callers,
           call[p] = NoCall \/ call[p].pc # "reply",
           \A q \in Callers : q # p => call'[q] = call[q]
    PROVE  Waiting'
  <1>. SUFFICES ASSUME NEW i \in DOMAIN commands
                PROVE  commands[i].caller \in Callers /\ commands[i].caller # p
    BY DEF ClientInv, Waiting, Busy
  <1>1. commands[i] \in Command
    BY DEF ClientInv, TypeOK
  <1>. QED
    BY <1>1 DEF ClientInv, Waiting, Busy, Command

\* A call begins: publish, subscribe (with the sender it found or made) and
\* unsubscribe.
LEMMA StepBegin ==
    ASSUME ClientInv, NEW p \in Callers, NEW kind \in Kind, NEW tp \in Topics,
           NEW rx \in Channels, Begin(p, kind, tp, rx),
           UNCHANGED <<phase, linked, gossip, commands, streams, dropped>>,
           topics' \in [Topics -> Channels], made' \in Channels,
           \A x \in Topics : topics[x] # 0 => topics'[x] # 0,
           kind = "Subscribe" => rx # 0 /\ topics'[tp] # 0
    PROVE  ClientInv'
  <1>1. TypeOK'
    BY BeginEffect DEF ClientInv, TypeOK
  <1>2. (phase # "running" => gossip = {})' /\ ConnectedToTarget'
    BY DEF ClientInv, ConnectedToTarget, Connected
  <1>3. Waiting'
    BY BeginEffect, WaitingStable
  <1>4. SenderKept'
    <2>. SUFFICES ASSUME NEW q \in Callers, Busy(q)', call'[q].kind = "Subscribe"
                  PROVE  /\ call'[q].rx # 0
                         /\ topics'[call'[q].topic] # 0 \/ call'[q].topic \in unsettled'
      BY DEF SenderKept
    <2>1. CASE q = p
      BY <2>1, BeginEffect
    <2>2. CASE q # p
      <3>1. call'[q] = call[q] /\ Busy(q) /\ call[q].topic \in Topics
        BY <2>2, BeginEffect DEF Busy, ClientInv, TypeOK, Call
      <3>. QED
        BY <3>1, BeginEffect DEF ClientInv, SenderKept
    <2>. QED
      BY <2>1, <2>2
  <1>5. Unheard'
    <2>. SUFFICES ASSUME NEW q \in Callers, Busy(q)', call'[q].kind = "Unsubscribe",
                         call'[q].pc \in {"Ok", "Err"}
                  PROVE  call'[q].topic \notin gossip \/ call'[q].topic \in unsettled'
      BY DEF Unheard
    <2>1. q # p
      BY BeginEffect
    <2>. QED
      BY <2>1, BeginEffect DEF ClientInv, Unheard, Busy
  <1>6. GossipHeard' /\ NothingDropped'
    BY BeginEffect DEF ClientInv, GossipHeard, NothingDropped, TypeOK
  <1>. QED
    BY <1>1, <1>2, <1>3, <1>4, <1>5, <1>6, BeginEffect DEF ClientInv

\* subscribe: the stream is put into the map before the command goes out.
LEMMA StepSubscribe ==
    ASSUME ClientInv, NEW p \in Callers, NEW tp \in Topics, subscribe(p, tp)
    PROVE  ClientInv'
  <1>1. /\ topics' \in [Topics -> Channels] /\ made' \in Channels
        /\ \A x \in Topics : topics[x] # 0 => topics'[x] # 0
        /\ topics'[tp] # 0
    <2>1. CASE topics[tp] # 0 /\ UNCHANGED <<topics, made>>
      BY <2>1 DEF ClientInv, TypeOK
    <2>2. CASE /\ made < MaxChannels /\ made' = made + 1
               /\ topics' = [topics EXCEPT ![tp] = made']
      <3>1. made' \in Channels /\ made' # 0
        BY <2>2, ClientConstants DEF ClientInv, TypeOK, Channels
      <3>. QED
        BY <2>2, <3>1 DEF ClientInv, TypeOK
    <2>. QED
      BY <2>1, <2>2 DEF subscribe
  <1>. PICK rx \in Channels : rx = topics'[tp]
    BY <1>1
  <1>2. Begin(p, "Subscribe", tp, rx)
    BY DEF subscribe, Begin
  <1>. QED
    BY <1>1, <1>2, StepBegin DEF subscribe, Kind

\* publish and unsubscribe: a command is handed to the event loop.
LEMMA StepPublishUnsubscribe ==
    ASSUME ClientInv, NEW p \in Callers, NEW tp \in Topics,
           publish(p, tp) \/ unsubscribe(p, tp)
    PROVE  ClientInv'
  <1>1. PICK kind \in Kind \ {"Subscribe"} :
            /\ Begin(p, kind, tp, 0)
            /\ UNCHANGED <<phase, linked, topics, made, gossip, commands, streams, dropped>>
    BY DEF publish, unsubscribe, Kind
  <1>2. 0 \in Channels /\ topics \in [Topics -> Channels] /\ made \in Channels
    BY ClientConstants DEF Channels, ClientInv, TypeOK
  <1>. QED
    BY <1>1, <1>2, StepBegin

\* send_command: the command joins the channel, or the loop is gone.
LEMMA StepSendCommand ==
    ASSUME ClientInv, NEW p \in Callers, send_command(p)
    PROVE  ClientInv'
  <1>0. Busy(p) /\ call[p].pc = "send" /\ call[p] \in Call
    BY DEF send_command, Busy, ClientInv, TypeOK
  <1>. PICK cmd \in Command :
            cmd = [kind |-> call[p].kind, topic |-> call[p].topic, caller |-> p]
    BY <1>0 DEF Call, Command
  <1>1. PICK pc \in {"reply", "Err"} :
            /\ call' = [call EXCEPT ![p].pc = pc]
            /\ pc = "reply" => /\ Len(commands) < Capacity /\ commands' = Append(commands, cmd)
                               /\ phase = "running"
            /\ pc = "Err" => phase = "ended" /\ UNCHANGED commands
    BY DEF send_command
  <1>2. UNCHANGED <<phase, linked, topics, made, gossip, streams, dropped, unsettled>>
    BY DEF send_command
  <1>3. /\ call' \in [Callers -> Call \cup {NoCall}]
        /\ call'[p].pc = pc /\ call'[p].kind = call[p].kind
        /\ call'[p].topic = call[p].topic /\ call'[p].rx = call[p].rx
        /\ call'[p] # NoCall
        /\ \A q \in Callers : q # p => call'[q] = call[q]
    BY <1>0, <1>1, AnswerEffect
  <1>4. TypeOK'
    <2>1. commands \in Seq(Command) /\ Len(commands) =< Capacity /\ Capacity \in Nat
      BY ClientConstants DEF ClientInv, TypeOK
    <2>2. commands' \in Seq(Command) /\ Len(commands') =< Capacity
      BY <1>1, <2>1
    <2>. QED
      BY <1>2, <1>3, <2>2 DEF ClientInv, TypeOK
  <1>5. (phase # "running" => gossip = {})' /\ ConnectedToTarget'
    BY <1>2 DEF ClientInv, ConnectedToTarget, Connected
  <1>6. Waiting'
    <2>1. CASE pc = "Err"
      BY <1>0, <1>1, <1>3, <2>1, WaitingStable
    <2>2. CASE pc = "reply"
      <3>. DEFINE n == Len(commands) + 1
      <3>1. /\ commands \in Seq(Command)
            /\ DOMAIN commands' = DOMAIN commands \cup {n} /\ n \notin DOMAIN commands
            /\ commands'[n] = cmd /\ \A i \in DOMAIN commands : commands'[i] = commands[i]
        <4>1. commands \in Seq(Command) /\ commands' = Append(commands, cmd)
          BY <1>1, <2>2 DEF ClientInv, TypeOK
        <4>. QED
          BY <4>1
      <3>2. \A i \in DOMAIN commands : commands[i].caller \in Callers /\ commands[i].caller # p
        <4>. SUFFICES ASSUME NEW i \in DOMAIN commands
                      PROVE  commands[i].caller \in Callers /\ commands[i].caller # p
          OBVIOUS
        <4>1. commands[i] \in Command
          BY <3>1
        <4>. QED
          BY <1>0, <4>1 DEF ClientInv, Waiting, Command
      <3>3. cmd.caller = p /\ cmd.kind = call[p].kind /\ cmd.topic = call[p].topic
        OBVIOUS
      <3>4. /\ Busy(p)' /\ call'[p].pc = "reply"
            /\ call'[p].kind = cmd.kind /\ call'[p].topic = cmd.topic
        BY <1>3, <2>2 DEF Busy
      <3>. HIDE DEF n
      <3>5. ASSUME NEW i \in DOMAIN commands'
            PROVE  LET c == commands'[i]
                   IN  /\ call'[c.caller] # NoCall /\ call'[c.caller].pc = "reply"
                       /\ call'[c.caller].kind = c.kind /\ call'[c.caller].topic = c.topic
        <4>1. CASE i = n
          BY <4>1, <3>1, <3>3, <3>4 DEF Busy
        <4>2. CASE i \in DOMAIN commands
          BY <4>2, <1>3, <3>1, <3>2 DEF ClientInv, Waiting, Busy
        <4>. QED
          BY <3>1, <4>1, <4>2
      <3>6. \A i, j \in DOMAIN commands' :
                commands'[i].caller = commands'[j].caller => i = j
        BY <3>1, <3>2, <3>3 DEF ClientInv, Waiting
      <3>. QED
        BY <3>5, <3>6 DEF Waiting, Busy
    <2>. QED
      BY <2>1, <2>2
  <1>7. \A q \in Callers : /\ Busy(q)' <=> Busy(q)
                           /\ Busy(q) => /\ call'[q].kind = call[q].kind
                                         /\ call'[q].topic = call[q].topic
                                         /\ call'[q].rx = call[q].rx
    BY <1>0, <1>3 DEF Busy
  <1>8. OverlapSeen' /\ SenderKept'
    BY <1>2, <1>7 DEF ClientInv, OverlapSeen, SenderKept
  <1>9. Unheard'
    <2>. SUFFICES ASSUME NEW q \in Callers, Busy(q)', call'[q].kind = "Unsubscribe",
                         call'[q].pc \in {"Ok", "Err"}
                  PROVE  call'[q].topic \notin gossip \/ call'[q].topic \in unsettled
      BY <1>2 DEF Unheard
    <2>1. CASE q = p
      BY <1>1, <1>3, <2>1 DEF ClientInv
    <2>2. CASE q # p
      BY <1>3, <2>2 DEF ClientInv, Unheard, Busy
    <2>. QED
      BY <2>1, <2>2
  <1>10. GossipHeard' /\ NothingDropped'
    BY <1>2 DEF ClientInv, GossipHeard, NothingDropped
  <1>. QED
    BY <1>4, <1>5, <1>6, <1>8, <1>9, <1>10 DEF ClientInv

\* finish: subscribe hands out its stream, unsubscribe forgets the sender.
LEMMA StepFinish ==
    ASSUME ClientInv, NEW p \in Callers, finish(p)
    PROVE  ClientInv'
  <1>0. Busy(p) /\ call[p].pc \in {"Ok", "Err"} /\ call[p] \in Call
    BY DEF finish, Busy, ClientInv, TypeOK
  <1>. PICK tp \in Topics : tp = call[p].topic
    BY <1>0 DEF Call
  <1>1. /\ call' \in [Callers -> Call \cup {NoCall}] /\ call'[p] = NoCall
        /\ \A q \in Callers : q # p => call'[q] = call[q]
        /\ UNCHANGED <<phase, linked, made, gossip, commands, dropped, unsettled>>
    BY DEF finish, ClientInv, TypeOK
  <1>2. /\ topics' \in [Topics -> Channels]
        /\ \A x \in Topics :
              topics'[x] = IF x = tp /\ call[p].kind = "Unsubscribe" THEN 0 ELSE topics[x]
    BY ClientConstants DEF finish, ClientInv, TypeOK, Channels
  <1>3. streams' \subseteq [topic : Topics, rx : Channels \ {0}]
    <2>1. call[p].kind = "Subscribe" =>
              [topic |-> call[p].topic, rx |-> call[p].rx] \in [topic : Topics, rx : Channels \ {0}]
      BY <1>0 DEF Call, ClientInv, SenderKept
    <2>. QED
      BY <2>1 DEF finish, ClientInv, TypeOK
  <1>4. TypeOK'
    BY <1>1, <1>2, <1>3 DEF ClientInv, TypeOK
  <1>5. (phase # "running" => gossip = {})' /\ ConnectedToTarget'
    BY <1>1 DEF ClientInv, ConnectedToTarget, Connected
  <1>6. Waiting'
    BY <1>0, <1>1, WaitingStable
  <1>7. OverlapSeen' /\ Unheard'
    BY <1>1 DEF ClientInv, OverlapSeen, Unheard, Busy
  <1>8. SenderKept'
    <2>. SUFFICES ASSUME NEW q \in Callers, Busy(q)', call'[q].kind = "Subscribe"
                  PROVE  /\ call'[q].rx # 0
                         /\ topics'[call'[q].topic] # 0 \/ call'[q].topic \in unsettled
      BY <1>1 DEF SenderKept
    <2>1. q # p /\ call'[q] = call[q] /\ Busy(q) /\ call[q].topic \in Topics
      BY <1>1 DEF Busy, ClientInv, TypeOK, Call
    <2>2. call[p].kind = "Unsubscribe" /\ call[q].topic = tp => tp \in unsettled
      BY <1>0, <2>1 DEF ClientInv, OverlapSeen
    <2>. QED
      BY <1>2, <2>1, <2>2 DEF ClientInv, SenderKept
  <1>9. GossipHeard'
    <2>1. call[p].kind = "Unsubscribe" => tp \notin gossip \/ tp \in unsettled
      BY <1>0 DEF ClientInv, Unheard
    <2>. QED
      BY <1>1, <1>2, <2>1 DEF ClientInv, GossipHeard, TypeOK
  <1>10. NothingDropped'
    BY <1>1 DEF ClientInv, NothingDropped
  <1>. QED
    BY <1>4, <1>5, <1>6, <1>7, <1>8, <1>9, <1>10 DEF ClientInv

\* handle_command: the head of the channel is served and answered.
LEMMA StepHandleCommand ==
    ASSUME ClientInv, handle_command
    PROVE  ClientInv'
  <1>0. commands \in Seq(Command) /\ commands # <<>> /\ phase = "running"
    BY DEF ClientInv, TypeOK, handle_command
  <1>. PICK c \in Command : c = Head(commands)
    BY <1>0
  <1>. PICK p \in Callers : p = c.caller
    BY DEF Command
  <1>. PICK tp \in Topics : tp = c.topic
    BY DEF Command
  <1>1. 1 \in DOMAIN commands /\ commands[1] = c
    BY <1>0
  <1>2. Busy(p) /\ call[p].pc = "reply" /\ call[p].kind = c.kind /\ call[p].topic = tp
    BY <1>1 DEF ClientInv, Waiting, Busy
  <1>3. PICK answer \in {"Ok", "Err"} :
            /\ call' = [call EXCEPT ![p].pc = answer]
            /\ answer = "Ok" =>
                  /\ gossip' = CASE c.kind = "Subscribe"   -> gossip \cup {tp}
                                 [] c.kind = "Unsubscribe" -> gossip \ {tp}
                                 [] OTHER                  -> gossip
                  /\ UNCHANGED unsettled
            /\ answer = "Err" =>
                  /\ UNCHANGED gossip
                  /\ unsettled' = IF c.kind = "Unsubscribe" THEN unsettled \cup {tp}
                                  ELSE unsettled
    BY DEF handle_command, Reply
  <1>4. /\ commands' = Tail(commands)
        /\ UNCHANGED <<phase, linked, topics, made, streams, dropped>>
    BY DEF handle_command
  <1>5. /\ call' \in [Callers -> Call \cup {NoCall}]
        /\ call'[p].pc = answer /\ call'[p].kind = call[p].kind
        /\ call'[p].topic = call[p].topic /\ call'[p].rx = call[p].rx
        /\ call'[p] # NoCall
        /\ \A q \in Callers : q # p => call'[q] = call[q]
    BY <1>2, <1>3, AnswerEffect
  <1>6. \A q \in Callers : /\ Busy(q)' <=> Busy(q)
                           /\ Busy(q) => /\ call'[q].kind = call[q].kind
                                         /\ call'[q].topic = call[q].topic
                                         /\ call'[q].rx = call[q].rx
    BY <1>2, <1>5 DEF Busy
  <1>7. /\ unsettled \subseteq unsettled' /\ unsettled' \subseteq Topics
        /\ gossip' \subseteq gossip \cup {tp}
        /\ c.kind # "Subscribe" => gossip' \subseteq gossip
        /\ c.kind = "Unsubscribe" => tp \notin gossip' \/ tp \in unsettled'
    BY <1>3 DEF ClientInv, TypeOK
  <1>8. TypeOK'
    <2>1. commands' \in Seq(Command) /\ Len(commands') =< Capacity
      BY <1>0, <1>4, ClientConstants DEF ClientInv, TypeOK
    <2>. QED
      BY <1>4, <1>5, <1>7, <2>1 DEF ClientInv, TypeOK
  <1>9. (phase # "running" => gossip = {})' /\ ConnectedToTarget'
    BY <1>0, <1>4 DEF ClientInv, ConnectedToTarget, Connected
  <1>10. Waiting'
    <2>1. \A i \in DOMAIN commands' :
              /\ i + 1 \in DOMAIN commands /\ commands'[i] = commands[i + 1] /\ i \in Nat \ {0}
      BY <1>0, <1>4
    <2>2. \A i \in DOMAIN commands' : commands'[i].caller \in Callers /\ commands'[i].caller # p
      <3>. SUFFICES ASSUME NEW i \in DOMAIN commands'
                    PROVE  commands'[i].caller \in Callers /\ commands'[i].caller # p
        OBVIOUS
      <3>1. commands'[i] = commands[i + 1] /\ i + 1 \in DOMAIN commands /\ i + 1 # 1
        BY <2>1
      <3>2. commands[i + 1] \in Command
        BY <1>0, <3>1
      <3>. QED
        BY <1>1, <3>1, <3>2 DEF ClientInv, Waiting, Command
    <2>3. ASSUME NEW i \in DOMAIN commands'
          PROVE  LET d == commands'[i]
                 IN  /\ call'[d.caller] # NoCall /\ call'[d.caller].pc = "reply"
                     /\ call'[d.caller].kind = d.kind /\ call'[d.caller].topic = d.topic
      BY <1>5, <2>1, <2>2 DEF ClientInv, Waiting
    <2>4. ASSUME NEW i \in DOMAIN commands', NEW j \in DOMAIN commands',
                 commands'[i].caller = commands'[j].caller
          PROVE  i = j
      <3>1. i + 1 = j + 1
        BY <2>1, <2>4 DEF ClientInv, Waiting
      <3>. QED
        BY <2>1, <3>1
    <2>. QED
      BY <2>3, <2>4 DEF Waiting
  <1>11. OverlapSeen'
    BY <1>6, <1>7 DEF ClientInv, OverlapSeen
  <1>12. SenderKept'
    BY <1>4, <1>6, <1>7 DEF ClientInv, SenderKept
  <1>13. Unheard'
    <2>. SUFFICES ASSUME NEW q \in Callers, Busy(q)', call'[q].kind = "Unsubscribe",
                         call'[q].pc \in {"Ok", "Err"}
                  PROVE  call'[q].topic \notin gossip' \/ call'[q].topic \in unsettled'
      BY DEF Unheard
    <2>1. CASE q = p
      BY <1>2, <1>5, <1>7, <2>1
    <2>2. CASE q # p
      <3>1. call'[q] = call[q] /\ Busy(q)
        BY <1>5, <2>2 DEF Busy
      <3>2. call[q].topic \notin gossip \/ call[q].topic \in unsettled
        BY <3>1 DEF ClientInv, Unheard
      <3>3. call[q].topic = tp => tp \in unsettled
        BY <1>2, <2>2, <3>1 DEF ClientInv, OverlapSeen
      <3>. QED
        BY <1>7, <3>1, <3>2, <3>3
    <2>. QED
      BY <2>1, <2>2
  <1>14. GossipHeard'
    <2>1. c.kind = "Subscribe" => topics[tp] # 0 \/ tp \in unsettled
      BY <1>2 DEF ClientInv, SenderKept
    <2>. QED
      BY <1>4, <1>7, <2>1 DEF ClientInv, GossipHeard
  <1>15. NothingDropped'
    BY <1>4, <1>7 DEF ClientInv, NothingDropped
  <1>. QED
    BY <1>8, <1>9, <1>10, <1>11, <1>12, <1>13, <1>14, <1>15 DEF ClientInv

\* A message of the network is handed to the sender of its topic.
LEMMA StepGossip ==
    ASSUME ClientInv, NEW tp \in Topics, GossipMessage(tp)
    PROVE  ClientInv'
  <1>1. dropped' \subseteq dropped \cup {tp} /\ dropped' \subseteq unsettled
    BY DEF GossipMessage, ClientInv, GossipHeard, NothingDropped
  <1>. QED
    BY <1>1 DEF GossipMessage, ClientInv, TypeOK, ConnectedToTarget, Connected, Waiting,
                OverlapSeen, SenderKept, Unheard, GossipHeard, NothingDropped, Busy

\* A subscriber drops its stream.
LEMMA StepDropStream ==
    ASSUME ClientInv, NEW s \in streams, DropStream(s)
    PROVE  ClientInv'
  BY DEF DropStream, ClientInv, TypeOK, ConnectedToTarget, Connected, Waiting,
         OverlapSeen, SenderKept, Unheard, GossipHeard, NothingDropped, Busy

\* The loop ends: whoever waits for an answer gets an error.
LEMMA StepBreak ==
    ASSUME ClientInv, Break
    PROVE  ClientInv'
  <1>1. /\ commands' = <<>> /\ gossip' = {} /\ phase' = "ended" /\ phase = "running"
        /\ UNCHANGED <<linked, topics, made, streams, dropped, unsettled>>
    BY DEF Break
  <1>2. ASSUME NEW q \in Callers
        PROVE  /\ call'[q] \in Call \cup {NoCall}
               /\ Busy(q)' <=> Busy(q)
               /\ Busy(q) => /\ call'[q].kind = call[q].kind
                             /\ call'[q].topic = call[q].topic
                             /\ call'[q].rx = call[q].rx
    <2>1. CASE Busy(q) /\ call[q].pc = "reply"
      <3>. DEFINE new == [call[q] EXCEPT !.pc = "Err"]
      <3>1. call[q] \in Call
        BY <2>1 DEF ClientInv, TypeOK, Busy
      <3>2. /\ new \in Call /\ new.kind = call[q].kind
            /\ new.topic = call[q].topic /\ new.rx = call[q].rx
        BY <3>1 DEF Call
      <3>3. call'[q] = new
        BY <2>1 DEF Break, Busy
      <3>. HIDE DEF new
      <3>. QED
        BY <2>1, <3>2, <3>3, NoCallIsNone DEF Busy
    <2>2. CASE ~(Busy(q) /\ call[q].pc = "reply")
      BY <2>2 DEF Break, Busy, ClientInv, TypeOK
    <2>. QED
      BY <2>1, <2>2
  <1>3. TypeOK'
    <2>1. call' \in [Callers -> Call \cup {NoCall}]
      BY <1>2 DEF Break
    <2>. QED
      BY <1>1, <2>1, ClientConstants DEF ClientInv, TypeOK, Phases
  <1>4. ConnectedToTarget' /\ Waiting' /\ Unheard' /\ GossipHeard' /\ NothingDropped'
    BY <1>1 DEF ClientInv, ConnectedToTarget, Connected, Waiting, Unheard, GossipHeard,
                NothingDropped
  <1>5. OverlapSeen' /\ SenderKept'
    BY <1>1, <1>2 DEF ClientInv, OverlapSeen, SenderKept
  <1>. QED
    BY <1>1, <1>3, <1>4, <1>5 DEF ClientInv

\* connect: what it meets while it waits for the peer it dialled.
LEMMA StepDial ==
    ASSUME ClientInv, Dial
    PROVE  ClientInv'
  <1>. USE DEF AfterDial
  <1>1. /\ phase = "dialling" /\ phase' \in Phases
        /\ UNCHANGED <<topics, made, gossip, commands, call, streams, dropped, unsettled>>
    BY DEF Dial, PeerConnected, ConnectionFailed, DialStreamEnded, DialTimeout, Phases
  <1>2. linked' \subseteq Peers /\ ConnectedToTarget'
    BY <1>1 DEF Dial, PeerConnected, ConnectionFailed, DialStreamEnded, DialTimeout,
                ClientInv, TypeOK, ConnectedToTarget, Connected
  <1>. QED
    BY <1>1, <1>2 DEF ClientInv, TypeOK, Waiting, OverlapSeen, SenderKept, Unheard, GossipHeard,
                      NothingDropped, Busy

\* Every step of the callers, the event loop and the network keeps ClientInv.
LEMMA ClientNext == ClientInv /\ [Next]_vars => ClientInv'
  <1>. SUFFICES ASSUME ClientInv, [Next]_vars
                PROVE  ClientInv'
    OBVIOUS
  <1>1. ASSUME NEW p \in Callers, Caller(p)
        PROVE  ClientInv'
    BY <1>1, StepSubscribe, StepPublishUnsubscribe, StepSendCommand, StepFinish DEF Caller
  <1>2. CASE UNCHANGED vars
    BY <1>2 DEF vars, ClientInv, TypeOK, ConnectedToTarget, Connected, Waiting,
                OverlapSeen, SenderKept, Unheard, GossipHeard, NothingDropped, Busy
  <1>. QED
    BY <1>1, <1>2, StepDial, StepDropStream, StepHandleCommand, StepGossip, StepBreak DEF Next

\* In every state of the GRID client, whatever the callers and the event loop of
\* real.rs do in which order, ClientInv holds.
THEOREM ClientInvariant == Spec => []ClientInv
  <1>. QED
    BY ClientInit, ClientNext, PTL DEF Spec

\* Types, the command channel never above its capacity, and every stream on a
\* channel that was made.
THEOREM ClientTypes == Spec => []TypeOK
  <1>1. ClientInv => TypeOK
    BY DEF ClientInv
  <1>. QED
    BY <1>1, ClientInvariant, PTL

\* await_dial_completion: a client that came up has reached the peer its
\* address names, through however many relays.
THEOREM TargetReached == Spec => []ConnectedToTarget
  <1>1. ClientInv => ConnectedToTarget
    BY DEF ClientInv
  <1>. QED
    BY <1>1, ClientInvariant, PTL

\* subscribe registers the sender before the service is asked, unsubscribe
\* forgets it after: no message is dropped for want of a sender unless an
\* unsubscribe of its topic overlapped another call or was refused.
THEOREM MessagesHeard == Spec => []NothingDropped
  <1>1. ClientInv => NothingDropped
    BY DEF ClientInv
  <1>. QED
    BY <1>1, ClientInvariant, PTL

\* subscribe never puts a new sender in the place of one that has subscribers.
THEOREM StreamsKept == Spec => SubscribersKept
  <1>1. ClientInv /\ [Next]_vars =>
            [\A s \in streams : topics[s.topic] = s.rx => topics'[s.topic] \in {s.rx, 0}]_vars
    <2>. SUFFICES ASSUME ClientInv, Next, NEW s \in streams, topics[s.topic] = s.rx
                  PROVE  topics'[s.topic] \in {s.rx, 0}
      BY DEF vars
    <2>1. s.topic \in Topics /\ s.rx # 0 /\ topics \in [Topics -> Channels]
      BY DEF ClientInv, TypeOK
    <2>2. ASSUME NEW p \in Callers, NEW tp \in Topics, subscribe(p, tp)
          PROVE  topics'[s.topic] = s.rx
      BY <2>1, <2>2 DEF subscribe
    <2>3. ASSUME NEW p \in Callers, finish(p)
          PROVE  topics'[s.topic] \in {s.rx, 0}
      BY <2>1, <2>3 DEF finish
    <2>4. CASE Dial \/ handle_command \/ Break
      BY <2>4 DEF Dial, PeerConnected, ConnectionFailed, DialStreamEnded, DialTimeout, AfterDial,
                  handle_command, Break
    <2>. QED
      BY <2>2, <2>3, <2>4
         DEF Next, Caller, publish, unsubscribe, send_command, DropStream, GossipMessage
  <1>. QED
    BY <1>1, ClientInvariant, PTL DEF Spec, SubscribersKept
====
