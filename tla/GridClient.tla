---- MODULE GridClient ----
(***************************************************************************)
(* RealGridClient (zero-network/src/real.rs): connecting to a node, the    *)
(* event-loop task that owns the NetworkService, the bounded command       *)
(* channel between callers and the loop, and the map from topics to        *)
(* broadcast senders that both share.                                      *)
(*                                                                         *)
(* A caller is a task inside publish, subscribe or unsubscribe; its steps  *)
(* are the places where it may be suspended or where the topics lock is    *)
(* taken.  NetworkService and the tokio channels are external: the service *)
(* may refuse a command, may deliver a message of any topic it is          *)
(* subscribed to, and its event stream may end.  Payloads are left out.    *)
(***************************************************************************)
EXTENDS Integers, Sequences, FiniteSets

CONSTANTS
    Callers,        \* tasks that use the client
    Topics,
    Peers,          \* the peers that connection events name
    Target,         \* target_peer: a peer, or NoPeer without a /p2p/ tail
    NoPeer,         \* None
    Capacity,       \* COMMAND_CHANNEL_CAPACITY
    MaxChannels,    \* bound on the broadcast channels that are ever made
    Refusals,       \* the commands the service may answer with an error
    NoCall          \* the caller is between calls

ASSUME ClientConstants ==
    /\ NoPeer \notin Peers /\ Target \in Peers \cup {NoPeer}
    /\ Capacity \in Nat \ {0} /\ MaxChannels \in Nat
    /\ Refusals \subseteq {"Publish", "Subscribe", "Unsubscribe"}

VARIABLES
    phase,      \* the client's life, from dialling to the end of the loop
    linked,     \* the peers a connection was ever established to
    topics,     \* topics[tp]: the registered sender's channel, or 0
    made,       \* the number of broadcast channels made so far
    gossip,     \* the topics the NetworkService is subscribed to
    commands,   \* the mpsc channel
    call,       \* call[p]: what caller p is in the middle of
    streams,    \* the streams handed out: their topic and the channel they read
    dropped,    \* the topics a message was dropped for, unheard
    unsettled   \* history: the topics of which an unsubscribe overlapped
                \* another call or was refused

vars == <<phase, linked, topics, made, gossip, commands, call, streams, dropped,
          unsettled>>

Kind == {"Publish", "Subscribe", "Unsubscribe"}
Command == [kind : Kind, topic : Topics, caller : Callers]
Channels == 0 .. MaxChannels

\* "send": the command is not yet in the channel; "reply": the answer is
\* awaited; "Ok" and "Err": the answer has arrived.
Call == [pc : {"send", "reply", "Ok", "Err"}, kind : Kind, topic : Topics,
         rx : Channels]

ASSUME NoCallIsNone == NoCall \notin Call

Phases == {"dialling", "running", "ended", "DialFailed", "Timeout"}

\* Every variable has its type, and the command channel keeps its capacity.
TypeOK ==
    /\ phase \in Phases
    /\ linked \subseteq Peers
    /\ topics \in [Topics -> Channels]
    /\ made \in Channels
    /\ gossip \subseteq Topics
    /\ commands \in Seq(Command) /\ Len(commands) =< Capacity
    /\ call \in [Callers -> Call \cup {NoCall}]
    /\ streams \subseteq [topic : Topics, rx : Channels \ {0}]
    /\ dropped \subseteq Topics
    /\ unsettled \subseteq Topics

Init ==
    /\ phase = "dialling"
    /\ linked = {}
    /\ topics = [tp \in Topics |-> 0]
    /\ made = 0
    /\ gossip = {}
    /\ commands = <<>>
    /\ call = [p \in Callers |-> NoCall]
    /\ streams = {}
    /\ dropped = {}
    /\ unsettled = {}

----------------------------------------------------------------------------
(* connect_with_timeout and await_dial_completion *)

AfterDial == <<topics, made, gossip, commands, call, streams, dropped, unsettled>>

\* Mutant: the first connection completes the dial, the relay's too.
PeerConnected_M(peer) ==
    /\ phase = "dialling"
    /\ linked' = linked \cup {peer}
    /\ phase' = "running"
    /\ UNCHANGED AfterDial

\* NetworkEvent::PeerConnected: only the target's completes the dial.
PeerConnected(peer) ==
    /\ phase = "dialling"
    /\ linked' = linked \cup {peer}
    /\ phase' = IF Target \in {NoPeer, peer} THEN "running" ELSE phase
    /\ UNCHANGED AfterDial

\* NetworkEvent::ConnectionFailed: of the target, or of any peer without one.
ConnectionFailed(peer) ==
    /\ phase = "dialling"
    /\ Target = NoPeer \/ peer = Target
    /\ phase' = "DialFailed"
    /\ UNCHANGED <<linked, AfterDial>>

\* The event stream ends during the dial.
DialStreamEnded ==
    /\ phase = "dialling"
    /\ phase' = "DialFailed"
    /\ UNCHANGED <<linked, AfterDial>>

\* tokio::time::timeout around the dial.
DialTimeout ==
    /\ phase = "dialling"
    /\ phase' = "Timeout"
    /\ UNCHANGED <<linked, AfterDial>>

----------------------------------------------------------------------------
(* The callers *)

Connected == phase \in {"running", "ended"}

Begin(p, kind, tp, rx) ==
    /\ Connected /\ call[p] = NoCall
    /\ call' = [call EXCEPT ![p] = [pc |-> "send", kind |-> kind, topic |-> tp,
                                    rx |-> rx]]
    /\ unsettled' = IF \E q \in Callers : /\ call[q] # NoCall /\ call[q].topic = tp
                                          /\ "Unsubscribe" \in {kind, call[q].kind}
                    THEN unsettled \cup {tp} ELSE unsettled

publish(p, tp) ==
    /\ Begin(p, "Publish", tp, 0)
    /\ UNCHANGED <<phase, linked, topics, made, gossip, commands, streams, dropped>>

\* Mutant: a new sender takes the place of the one that is registered.
subscribe_M(p, tp) ==
    /\ made < MaxChannels
    /\ made' = made + 1
    /\ topics' = [topics EXCEPT ![tp] = made']
    /\ Begin(p, "Subscribe", tp, made')
    /\ UNCHANGED <<phase, linked, gossip, commands, streams, dropped>>

\* subscribe: under the topics lock, the registered sender or a new one, and a
\* receiver of it.
subscribe(p, tp) ==
    /\ \/ topics[tp] # 0 /\ UNCHANGED <<topics, made>>
       \/ /\ topics[tp] = 0 /\ made < MaxChannels
          /\ made' = made + 1
          /\ topics' = [topics EXCEPT ![tp] = made']
    /\ Begin(p, "Subscribe", tp, topics'[tp])
    /\ UNCHANGED <<phase, linked, gossip, commands, streams, dropped>>

\* Mutant: the sender is forgotten before the command is sent.
unsubscribe_M(p, tp) ==
    /\ Begin(p, "Unsubscribe", tp, 0)
    /\ topics' = [topics EXCEPT ![tp] = 0]
    /\ UNCHANGED <<phase, linked, made, gossip, commands, streams, dropped>>

unsubscribe(p, tp) ==
    /\ Begin(p, "Unsubscribe", tp, 0)
    /\ UNCHANGED <<phase, linked, topics, made, gossip, commands, streams, dropped>>

\* send_command: waits for room in the channel, and fails once the loop has
\* dropped the receiving end.
send_command(p) ==
    /\ call[p] # NoCall /\ call[p].pc = "send"
    /\ \/ /\ phase = "running" /\ Len(commands) < Capacity
          /\ commands' = Append(commands, [kind |-> call[p].kind,
                                           topic |-> call[p].topic, caller |-> p])
          /\ call' = [call EXCEPT ![p].pc = "reply"]
       \/ /\ phase = "ended"
          /\ call' = [call EXCEPT ![p].pc = "Err"]
          /\ UNCHANGED commands
    /\ UNCHANGED <<phase, linked, topics, made, gossip, streams, dropped, unsettled>>

\* What publish, subscribe and unsubscribe do with the answer: subscribe hands
\* out its stream or drops the receiver and leaves the sender registered;
\* unsubscribe forgets the sender whatever the answer.
finish(p) ==
    /\ call[p] # NoCall /\ call[p].pc \in {"Ok", "Err"}
    /\ streams' = IF call[p].kind = "Subscribe" /\ call[p].pc = "Ok"
                  THEN streams \cup {[topic |-> call[p].topic, rx |-> call[p].rx]}
                  ELSE streams
    /\ topics' = IF call[p].kind = "Unsubscribe"
                 THEN [topics EXCEPT ![call[p].topic] = 0]
                 ELSE topics
    /\ call' = [call EXCEPT ![p] = NoCall]
    /\ UNCHANGED <<phase, linked, made, gossip, commands, dropped, unsettled>>

\* A subscriber drops a stream, perhaps because it met its end.
DropStream(s) ==
    /\ streams' = streams \ {s}
    /\ UNCHANGED <<phase, linked, topics, made, gossip, commands, call, dropped, unsettled>>

----------------------------------------------------------------------------
(* event_loop *)

Reply(p, answer) == call' = [call EXCEPT ![p].pc = answer]

\* A command is taken from the channel, given to the service and answered.
handle_command ==
    /\ phase = "running" /\ commands # <<>>
    /\ LET c == Head(commands) IN
        \/ /\ Reply(c.caller, "Ok")
           /\ gossip' = CASE c.kind = "Subscribe"   -> gossip \cup {c.topic}
                          [] c.kind = "Unsubscribe" -> gossip \ {c.topic}
                          [] OTHER                  -> gossip
           /\ UNCHANGED unsettled
        \/ /\ c.kind \in Refusals
           /\ Reply(c.caller, "Err")
           /\ unsettled' = IF c.kind = "Unsubscribe" THEN unsettled \cup {c.topic}
                           ELSE unsettled
           /\ UNCHANGED gossip
    /\ commands' = Tail(commands)
    /\ UNCHANGED <<phase, linked, topics, made, streams, dropped>>

\* NetworkEvent::GossipMessage: given to the topic's sender if there is one.
GossipMessage(tp) ==
    /\ phase = "running" /\ tp \in gossip
    /\ dropped' = IF topics[tp] = 0 THEN dropped \cup {tp} ELSE dropped
    /\ UNCHANGED <<phase, linked, topics, made, gossip, commands, call, streams, unsettled>>

\* Mutant: when the event stream ends, the loop closes the channel and waits
\* for the shutdown signal: what is in the channel is neither handled nor
\* dropped.
Break_M ==
    /\ phase = "running"
    /\ phase' = "ended"
    /\ gossip' = {}
    /\ UNCHANGED <<linked, topics, made, commands, call, streams, dropped, unsettled>>

\* The loop ends, because the event stream did or because the client was
\* dropped.  The channel closes: commands in it are dropped and with them
\* the senders of their replies.
Break ==
    /\ phase = "running"
    /\ phase' = "ended"
    /\ commands' = <<>>
    /\ call' = [p \in Callers |->
                    IF call[p] # NoCall /\ call[p].pc = "reply"
                    THEN [call[p] EXCEPT !.pc = "Err"] ELSE call[p]]
    /\ gossip' = {}
    /\ UNCHANGED <<linked, topics, made, streams, dropped, unsettled>>

Dial ==
    \/ \E peer \in Peers : PeerConnected(peer) \/ ConnectionFailed(peer)
    \/ DialStreamEnded
    \/ DialTimeout

Caller(p) ==
    \/ \E tp \in Topics : publish(p, tp) \/ subscribe(p, tp) \/ unsubscribe(p, tp)
    \/ send_command(p)
    \/ finish(p)

Next ==
    \/ Dial
    \/ \E p \in Callers : Caller(p)
    \/ \E s \in streams : DropStream(s)
    \/ handle_command
    \/ \E tp \in Topics : GossipMessage(tp)
    \/ Break

Spec == Init /\ [][Next]_vars

\* The runtime polls every task that can move, and select! picks among its
\* ready branches at random, so that a command that waits is taken in the end.
\* A sender that waits for room is served in turn (the mpsc semaphore is first
\* come, first served): strong fairness.
Fairness ==
    /\ WF_vars(handle_command)
    /\ \A p \in Callers : SF_vars(send_command(p)) /\ WF_vars(finish(p))

FairSpec == Spec /\ Fairness

----------------------------------------------------------------------------
(* Properties *)

\* "connecting to <relay> alone is not sufficient": a client that came up has
\* had a connection to the peer its address names.
ConnectedToTarget ==
    Connected => IF Target = NoPeer THEN linked # {} ELSE Target \in linked

\* "Insert the broadcast sender BEFORE asking gossipsub to subscribe so the
\* very first inbound message after subscription cannot race past the topic
\* registration", and "so subsequent `subscribe` calls re-register cleanly": no
\* message of a topic that the service is subscribed to is dropped for want of a
\* sender, unless an unsubscribe of it overlapped another call or failed.
NothingDropped == dropped \subseteq unsettled

\* A stream stays attached to the sender that messages of its topic go to until
\* somebody unsubscribes the topic: subscribing again shares the sender.
SubscribersKept ==
    [][\A s \in streams :
          topics[s.topic] = s.rx => topics'[s.topic] \in {s.rx, 0}]_vars

\* Every publish, subscribe and unsubscribe returns, also when the channel was
\* full, the service refused or the loop ended under way.
CallsReturn == \A p \in Callers : (call[p] # NoCall) ~> (call[p] = NoCall)
====
