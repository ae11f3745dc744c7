---- MODULE RetryPumpProofs ----
(***************************************************************************)
(* Safety of RetryPump for any payloads, topics, retry constants and       *)
(* number of replaced pumps.                                               *)
(*                                                                         *)
(* The pump works on a snapshot, `due`, of an outbox that producers go on  *)
(* changing.  The invariants say what an entry of the snapshot still means *)
(* when its turn comes.                                                    *)
(***************************************************************************)
EXTENDS RetryPump, TLAPS

\* What the pump has taken from the outbox and not settled.
Taken == due \cup ({cur} \ {NoEntry})

\* The outbox has payload p.
Holds(topic, p) == outbox[topic] # NoEntry /\ outbox[topic].payload = p

\* TypeOK but for the sign of a delay, which rests on powers: the provers know
\* nothing of them.
Stored == [payload : Payloads, attempts : Nat, wait : Int]

Shape ==
    /\ outbox \in [Topics -> Stored \cup {NoEntry}]
    /\ pc \in {"sleep", "batch", "ok", "err", "report"}
    /\ due \subseteq Handle
    /\ cur \in Handle \cup {NoEntry}
    /\ pc \in {"ok", "err", "report"} <=> cur # NoEntry
    /\ handed \subseteq Payloads
    /\ tries \in [Payloads -> Nat]
    /\ restarts \in Nat

\* Everything is where its payload belongs and was handed over.
Placed ==
    /\ \A topic \in Topics : outbox[topic] # NoEntry =>
          topic = TopicOf[outbox[topic].payload] /\ outbox[topic].payload \in handed
    /\ \A e \in Taken : e.topic = TopicOf[e.payload] /\ e.payload \in handed
    /\ \A p \in Payloads : p \notin handed => tries[p] = 0

\* A snapshot holds one handle of a topic, and not the one being published.
OneHandle ==
    /\ \A e, f \in due : e.topic = f.topic => e = f
    /\ cur # NoEntry => \A e \in due : e.topic # cur.topic

\* An entry that changed under the snapshot has counted one more attempt.
Snapshot ==
    \A e \in Taken : Holds(e.topic, e.payload) =>
        /\ outbox[e.topic].attempts >= e.attempts
        /\ outbox[e.topic].attempts = e.attempts => outbox[e.topic].wait = 0

PumpInv == Shape /\ Placed /\ OneHandle /\ Snapshot

----------------------------------------------------------------------------

\* compute_backoff_ms gives a number.
LEMMA BackoffIsInt ==
    ASSUME NEW k, NEW d \in compute_backoff_ms(k)
    PROVE  d \in Int
  BY DEF compute_backoff_ms

\* The least delay is a number within the cap, and no delay is below it.
LEMMA DelayBounds ==
    ASSUME NEW n \in 1 .. RETRY_MAX_ATTEMPTS
    PROVE  /\ LeastDelay(n) \in Nat /\ LeastDelay(n) =< RETRY_CAP
           /\ \A d \in compute_backoff_ms(n) : d >= LeastDelay(n)
  <1>. DEFINE power == RETRY_BACKOFF_MULTIPLIER ^ (n - 1)
              capped == Min2(RETRY_INITIAL_DELAY * power, RETRY_CAP)
  <1>1. power \in Nat
    BY PowersAreNumbers, PumpConstants
  <1>2. Max2(n - 1, 0) = n - 1
    BY PumpConstants DEF Max2
  <1>3. compute_backoff_ms(n) = capped \div 2 .. capped \div 2 + Max2(capped \div 2, 1) - 1
    BY <1>2 DEF compute_backoff_ms
  <1>4. LeastDelay(n) = capped \div 2
    BY DEF LeastDelay
  <1>. HIDE DEF power
  <1>5. RETRY_INITIAL_DELAY * power \in Nat
    BY <1>1, PumpConstants
  <1>6. capped \in Nat /\ capped =< RETRY_CAP
    BY <1>5, PumpConstants DEF Min2
  <1>. HIDE DEF capped
  <1>7. capped \div 2 \in Nat /\ capped \div 2 =< RETRY_CAP
    BY <1>6, PumpConstants
  <1>. QED
    BY <1>3, <1>4, <1>7 DEF Max2

\* What a handle of the snapshot says of the outbox it was taken from.
LEMMA DueEntries ==
    ASSUME Shape
    PROVE  /\ due_entries \subseteq Handle
           /\ \A e \in due_entries :
                 /\ Holds(e.topic, e.payload)
                 /\ outbox[e.topic].attempts = e.attempts /\ outbox[e.topic].wait = 0
           /\ \A e, f \in due_entries : e.topic = f.topic => e = f
  BY DEF due_entries, Handle, Holds, Shape, Stored

\* What record_failure, ack and remove leave of the outbox.
LEMMA FailureEffect ==
    ASSUME Shape, NEW topic \in Topics, NEW delay \in Int,
           outbox' = FailureRecorded(topic, delay)
    PROVE  /\ outbox' \in [Topics -> Stored \cup {NoEntry}]
           /\ \A x \in Topics : x # topic => outbox'[x] = outbox[x]
           /\ outbox[topic] = NoEntry => outbox'[topic] = NoEntry
           /\ outbox[topic] # NoEntry =>
                 outbox'[topic] = [payload |-> outbox[topic].payload,
                                   attempts |-> outbox[topic].attempts + 1,
                                   wait |-> delay]
  <1>1. CASE outbox[topic] = NoEntry
    BY <1>1 DEF FailureRecorded, Shape
  <1>2. CASE outbox[topic] # NoEntry
    <2>. DEFINE new == [outbox[topic] EXCEPT !.attempts = @ + 1, !.wait = delay]
    <2>1. outbox[topic] \in Stored
      BY <1>2 DEF Shape
    <2>2. /\ new = [payload |-> outbox[topic].payload,
                    attempts |-> outbox[topic].attempts + 1, wait |-> delay]
          /\ new \in Stored
      <3>. DEFINE counted == [outbox[topic] EXCEPT !.attempts = @ + 1]
      <3>1. /\ counted = [payload |-> outbox[topic].payload,
                          attempts |-> outbox[topic].attempts + 1,
                          wait |-> outbox[topic].wait]
            /\ counted \in Stored
        BY <2>1 DEF Stored
      <3>2. new = [counted EXCEPT !.wait = delay]
        BY <2>1 DEF Stored
      <3>. HIDE DEF counted, new
      <3>. QED
        BY <2>1, <3>1, <3>2 DEF Stored
    <2>3. outbox' = [outbox EXCEPT ![topic] = new]
      BY <1>2 DEF FailureRecorded
    <2>. QED
      BY <1>2, <2>2, <2>3 DEF Shape
  <1>. QED
    BY <1>1, <1>2

\* What removing the entries of a topic leaves.
LEMMA RemovedEffect ==
    ASSUME Shape, NEW topic \in Topics, outbox' = Removed(topic)
    PROVE  /\ outbox' \in [Topics -> Stored \cup {NoEntry}]
           /\ outbox'[topic] = NoEntry
           /\ \A x \in Topics : x # topic => outbox'[x] = outbox[x]
  BY DEF Removed, Shape

\* What a passing moment leaves of an entry.
LEMMA TickEffect ==
    ASSUME Shape, Tick
    PROVE  /\ outbox' \in [Topics -> Stored \cup {NoEntry}]
           /\ \A x \in Topics :
                 /\ outbox'[x] = NoEntry <=> outbox[x] = NoEntry
                 /\ outbox[x] # NoEntry =>
                       /\ outbox'[x].payload = outbox[x].payload
                       /\ outbox'[x].attempts = outbox[x].attempts
                       /\ outbox'[x].wait = Max2(outbox[x].wait - 1, 0)
                       /\ outbox[x].wait = 0 => outbox'[x].wait = 0
  <1>. SUFFICES ASSUME NEW x \in Topics, outbox[x] # NoEntry
                PROVE  /\ outbox'[x] \in Stored /\ outbox'[x] # NoEntry
                       /\ outbox'[x].payload = outbox[x].payload
                       /\ outbox'[x].attempts = outbox[x].attempts
                       /\ outbox'[x].wait = Max2(outbox[x].wait - 1, 0)
                       /\ outbox[x].wait = 0 => outbox'[x].wait = 0
    BY DEF Shape, Tick
  <1>1. outbox[x] \in Stored
    BY DEF Shape
  <1>2. outbox'[x] = [outbox[x] EXCEPT !.wait = Max2(@ - 1, 0)]
    BY DEF Tick
  <1>3. Max2(outbox[x].wait - 1, 0) \in Nat
    BY <1>1 DEF Stored, Max2
  <1>4. outbox'[x] \in Entry
    BY <1>1, <1>2, <1>3 DEF Stored, Entry
  <1>. QED
    BY <1>1, <1>2, <1>3, <1>4, NoEntryIsNone DEF Stored, Entry, Max2

\* An empty outbox and an idle pump satisfy PumpInv.
LEMMA PumpInit == Init => PumpInv
  BY DEF Init, PumpInv, Shape, Placed, OneHandle, Snapshot, Taken

\* Every step of the pump and its callers keeps PumpInv.
LEMMA PumpNext == PumpInv /\ [Next]_vars => PumpInv'
  <1>. SUFFICES ASSUME PumpInv, [Next]_vars
                PROVE  PumpInv'
    OBVIOUS
  <1>. USE DEF PumpInv
  <1>1. ASSUME NEW p \in Payloads, Enqueue(p)
        PROVE  PumpInv'
    <2>. DEFINE new == [payload |-> p, attempts |-> 0, wait |-> 0]
    <2>1. /\ TopicOf[p] \in Topics /\ new \in Stored /\ new # NoEntry
          /\ outbox'[TopicOf[p]] = new
          /\ \A x \in Topics : x # TopicOf[p] => outbox'[x] = outbox[x]
          /\ UNCHANGED Taken
      BY <1>1, PumpConstants, NoEntryIsNone DEF Enqueue, Shape, Stored, Entry, Taken
    <2>2. Shape'
      BY <1>1, <2>1 DEF Enqueue, Shape
    <2>3. Placed'
      BY <1>1, <2>1 DEF Enqueue, Placed, Shape
    <2>4. OneHandle'
      BY <1>1 DEF Enqueue, OneHandle
    <2>5. Snapshot'
      <3>. SUFFICES ASSUME NEW e \in Taken, Holds(e.topic, e.payload)'
                    PROVE  Holds(e.topic, e.payload) /\ outbox'[e.topic] = outbox[e.topic]
        BY <2>1 DEF Snapshot
      <3>1. e.topic \in Topics /\ e.payload # p
        BY <1>1 DEF Taken, Shape, Handle, Placed, Enqueue
      <3>. QED
        BY <2>1, <3>1 DEF Holds
    <2>. QED
      BY <2>2, <2>3, <2>4, <2>5
  <1>2. CASE Tick
    <2>1. UNCHANGED <<pc, due, cur, handed, tries, restarts, Taken>>
      BY <1>2 DEF Tick, Taken
    <2>2. Shape'
      BY <1>2, <2>1, TickEffect DEF Shape
    <2>3. Placed'
      BY <1>2, <2>1, TickEffect DEF Placed
    <2>4. OneHandle'
      BY <2>1 DEF OneHandle
    <2>5. Snapshot'
      <3>. SUFFICES ASSUME NEW e \in Taken, Holds(e.topic, e.payload)'
                    PROVE  /\ outbox'[e.topic].attempts >= e.attempts
                           /\ outbox'[e.topic].attempts = e.attempts =>
                                 outbox'[e.topic].wait = 0
        BY <2>1 DEF Snapshot
      <3>1. e.topic \in Topics
        BY DEF Taken, Shape, Handle
      <3>. QED
        BY <1>2, <3>1, TickEffect DEF Holds, Snapshot
    <2>. QED
      BY <2>2, <2>3, <2>4, <2>5
  <1>3. CASE Poll
    <2>1. UNCHANGED <<outbox, cur, handed, tries, restarts>> /\ cur = NoEntry
          /\ due' = due_entries /\ pc' = "batch"
      BY <1>3 DEF Poll, log, Shape
    <2>2. Taken' = due_entries
      BY <2>1 DEF Taken
    <2>3. Shape'
      BY <2>1, DueEntries DEF Shape
    <2>4. Placed'
      <3>1. \A e \in due_entries : e.topic = TopicOf[e.payload] /\ e.payload \in handed
        BY DueEntries DEF Placed, Holds, Handle
      <3>. QED
        BY <2>1, <2>2, <3>1 DEF Placed
    <2>5. OneHandle'
      BY <2>1, DueEntries DEF OneHandle
    <2>6. Snapshot'
      <3>1. \A e \in due_entries : e.topic \in Topics /\ outbox[e.topic].attempts >= e.attempts
        BY DueEntries DEF Handle
      <3>. QED
        BY <2>1, <2>2, <3>1, DueEntries DEF Snapshot
    <2>. QED
      BY <2>3, <2>4, <2>5, <2>6
  <1>4. CASE Publish
    <2>1. PICK e \in due : /\ cur' = e /\ due' = due \ {e}
                           /\ tries' = [tries EXCEPT ![e.payload] = @ + 1]
                           /\ pc' \in {"ok", "err"}
      BY <1>4 DEF Publish
    <2>2. UNCHANGED <<outbox, handed, restarts>> /\ cur = NoEntry
      BY <1>4 DEF Publish, Shape
    <2>3. e \in Handle /\ e # NoEntry /\ e \in Taken
      BY NoEntryIsNone DEF Shape, Taken
    <2>4. Taken' = Taken
      BY <2>1, <2>2, <2>3 DEF Taken
    <2>5. Shape'
      BY <2>1, <2>2, <2>3 DEF Shape, Handle
    <2>6. Placed'
      <3>1. \A p \in Payloads : p # e.payload => tries'[p] = tries[p]
        BY <2>1, <2>3 DEF Shape, Handle
      <3>. QED
        BY <2>2, <2>3, <2>4, <3>1 DEF Placed
    <2>7. OneHandle'
      BY <2>1, <2>3 DEF OneHandle
    <2>8. Snapshot'
      BY <2>2, <2>4 DEF Snapshot, Holds
    <2>. QED
      BY <2>5, <2>6, <2>7, <2>8
  <1>5. CASE Ack \/ Fail \/ Abandon
    <2>1. /\ cur \in Handle /\ cur # NoEntry /\ cur \in Taken
          /\ \/ pc' = "batch" /\ cur' = NoEntry
             \/ pc' = "report" /\ cur' = cur /\ outbox' = Removed(cur.topic)
          /\ UNCHANGED <<due, handed, tries, restarts>>
      BY <1>5 DEF Ack, Fail, Abandon, log, Shape, Taken
    <2>2. /\ cur.topic \in Topics /\ Taken' \subseteq Taken
          /\ \A e \in Taken' : e = cur \/ e.topic # cur.topic
          /\ \A e \in due : e.topic # cur.topic
      BY <2>1, NoEntryIsNone DEF Handle, Taken, OneHandle, Shape
    <2>. PICK topic \in Topics : topic = cur.topic
      BY <2>2
    <2>a. \/ outbox' = Removed(topic)
          \/ \E d \in Int : outbox' = FailureRecorded(topic, d)
      BY <1>5, BackoffIsInt DEF Ack, Fail, Abandon
    <2>3. /\ outbox' \in [Topics -> Stored \cup {NoEntry}]
          /\ \A x \in Topics : x # cur.topic => outbox'[x] = outbox[x]
          /\ outbox'[cur.topic] # NoEntry =>
                /\ outbox[cur.topic] # NoEntry
                /\ outbox'[cur.topic].payload = outbox[cur.topic].payload
      <3>1. CASE outbox' = Removed(topic)
        BY <3>1, RemovedEffect
      <3>2. ASSUME NEW d \in Int, outbox' = FailureRecorded(topic, d)
            PROVE  /\ outbox' \in [Topics -> Stored \cup {NoEntry}]
                   /\ \A x \in Topics : x # topic => outbox'[x] = outbox[x]
                   /\ outbox'[topic] # NoEntry =>
                         /\ outbox[topic] # NoEntry
                         /\ outbox'[topic].payload = outbox[topic].payload
        <4>1. CASE outbox[topic] = NoEntry
          BY <3>2, <4>1, FailureEffect
        <4>2. CASE outbox[topic] # NoEntry
          <5>1. outbox'[topic] = [payload |-> outbox[topic].payload,
                                  attempts |-> outbox[topic].attempts + 1, wait |-> d]
            BY <3>2, <4>2, FailureEffect
          <5>2. /\ outbox' \in [Topics -> Stored \cup {NoEntry}]
                /\ \A x \in Topics : x # topic => outbox'[x] = outbox[x]
            BY <3>2, FailureEffect
          <5>. QED
            BY <4>2, <5>1, <5>2
        <4>. QED
          BY <4>1, <4>2
      <3>. QED
        BY <2>a, <3>1, <3>2
    <2>4. Shape'
      BY <2>1, <2>3 DEF Shape
    <2>5. Placed'
      BY <2>1, <2>2, <2>3 DEF Placed
    <2>6. OneHandle'
      BY <2>1 DEF OneHandle
    <2>7. Snapshot'
      <3>. SUFFICES ASSUME NEW e \in Taken'
                    PROVE  outbox'[e.topic] = outbox[e.topic] \/ outbox'[e.topic] = NoEntry
        BY <2>2 DEF Snapshot, Holds
      <3>1. CASE e.topic # cur.topic
        BY <2>2, <2>3, <3>1 DEF Shape, Handle, Taken
      <3>2. CASE e = cur
        <4>1. e \in Handle /\ e # NoEntry
          BY <2>1, <3>2
        <4>2. cur' = cur
          BY <2>1, <2>2, <3>2, <4>1 DEF Taken
        <4>3. outbox' = Removed(topic)
          BY <2>1, <4>2
        <4>. QED
          BY <3>2, <4>3, RemovedEffect
      <3>. QED
        BY <2>2, <3>1, <3>2
    <2>. QED
      BY <2>4, <2>5, <2>6, <2>7
  <1>5a. CASE Report
    <2>1. /\ Taken' \subseteq Taken /\ cur' = NoEntry /\ pc' = "batch"
          /\ UNCHANGED <<outbox, due, handed, tries, restarts>>
      BY <1>5a DEF Report, Taken
    <2>. QED
      BY <2>1 DEF Shape, Placed, OneHandle, Snapshot, Holds
  <1>6. CASE Sleep
    BY <1>6 DEF Sleep, log, Shape, Placed, OneHandle, Snapshot, Taken, Holds
  <1>7. CASE Restart
    BY <1>7 DEF Restart, Shape, Placed, OneHandle, Snapshot, Taken, Holds
  <1>8. CASE UNCHANGED vars
    BY <1>8 DEF vars, log, Shape, Placed, OneHandle, Snapshot, Taken, Holds
  <1>. QED
    BY <1>1, <1>2, <1>3, <1>4, <1>5, <1>5a, <1>6, <1>7, <1>8 DEF Next

\* The snapshot the pump works through stays consistent with the outbox that
\* producers change meanwhile.
THEOREM PumpInvariant == Spec => []PumpInv
  <1>. QED
    BY PumpInit, PumpNext, PTL DEF Spec

----------------------------------------------------------------------------
(* What was published is not tried again. *)

\* While no pump was replaced, a published payload has left the snapshot, and
\* the outbox too once its ack is done.
PublishedInv ==
    /\ published \subseteq handed
    /\ pc = "ok" => cur.payload \in published
    /\ restarts = 0 => \A p \in published :
          /\ \A e \in due : e.payload # p
          /\ \A x \in Topics : Holds(x, p) => pc = "ok" /\ cur.payload = p

\* Every step keeps PublishedInv.
LEMMA PublishedNext == PumpInv /\ PublishedInv /\ [Next]_vars => PublishedInv'
  <1>. SUFFICES ASSUME PumpInv, PublishedInv, [Next]_vars
                PROVE  PublishedInv'
    OBVIOUS
  <1>. USE DEF PumpInv, PublishedInv
  <1>1. ASSUME NEW p \in Payloads, Enqueue(p)
        PROVE  PublishedInv'
    <2>1. /\ \A x \in Topics : \/ outbox'[x] = outbox[x]
                               \/ outbox'[x] = [payload |-> p, attempts |-> 0, wait |-> 0]
          /\ p \notin published /\ handed' = handed \cup {p}
          /\ UNCHANGED <<pc, cur, due, published, restarts>>
      BY <1>1 DEF Enqueue, Shape
    <2>2. \A q \in published, x \in Topics : Holds(x, q)' => Holds(x, q)
      BY <2>1 DEF Holds
    <2>. QED
      BY <2>1, <2>2
  <1>2. CASE Tick
    <2>1. \A q, x : x \in Topics => (Holds(x, q)' <=> Holds(x, q))
      BY <1>2, TickEffect DEF Holds
    <2>. QED
      BY <1>2, <2>1 DEF Tick
  <1>3. CASE Poll
    <2>1. /\ pc = "sleep" /\ due' = due_entries /\ pc' = "batch"
          /\ UNCHANGED <<outbox, cur, handed, published, restarts>>
      BY <1>3 DEF Poll, log
    <2>2. \A e \in due_entries : e.topic \in Topics /\ Holds(e.topic, e.payload)
      BY DueEntries DEF Handle
    <2>. QED
      BY <2>1, <2>2 DEF Holds
  <1>4. CASE Publish
    <2>1. PICK e \in due : /\ cur' = e /\ due' = due \ {e}
                           /\ \/ pc' = "ok"  /\ published' = published \cup {e.payload}
                              \/ pc' = "err" /\ UNCHANGED published
      BY <1>4 DEF Publish
    <2>2. pc = "batch" /\ UNCHANGED <<outbox, handed, restarts>>
      BY <1>4 DEF Publish
    <2>3. e.payload \in handed /\ \A f \in due : f.payload = e.payload => f = e
      BY DEF Placed, Taken, OneHandle, Shape, Handle
    <2>4. ASSUME NEW x \in Topics, NEW p, Holds(x, p)', restarts = 0, p \in published
          PROVE  FALSE
      BY <2>2, <2>4 DEF Holds
    <2>. QED
      BY <2>1, <2>2, <2>3, <2>4
  <1>5. CASE Ack
    <2>1. /\ pc = "ok" /\ cur \in Taken /\ cur.topic \in Topics /\ outbox' = Removed(cur.topic)
          /\ pc' = "batch" /\ UNCHANGED <<due, handed, published, restarts>>
      BY <1>5 DEF Ack, log, Shape, Taken, Handle
    <2>2. ASSUME NEW x \in Topics, NEW p, Holds(x, p)', restarts = 0, p \in published
          PROVE  FALSE
      <3>1. outbox'[cur.topic] = NoEntry /\ \A y \in Topics : y # cur.topic => outbox'[y] = outbox[y]
        BY <2>1 DEF Removed, Shape
      <3>2. x # cur.topic /\ Holds(x, p)
        BY <2>2, <3>1 DEF Holds
      <3>3. cur.payload = p
        BY <2>2, <3>2
      <3>. QED
        BY <2>1, <3>2, <3>3 DEF Placed, Holds
    <2>. QED
      BY <2>1, <2>2
  <1>6. CASE Fail \/ Abandon
    <2>1. /\ pc = "err" /\ cur \in Taken /\ cur.topic \in Topics
          /\ pc' \in {"batch", "report"} /\ UNCHANGED <<due, handed, published, restarts>>
      BY <1>6 DEF Fail, Abandon, log, Shape, Taken, Handle
    <2>. PICK topic \in Topics : topic = cur.topic
      BY <2>1
    <2>2. \A x \in Topics : \A p : Holds(x, p)' => Holds(x, p)
      <3>1. CASE outbox' = Removed(topic)
        BY <3>1, RemovedEffect DEF Holds
      <3>2. ASSUME NEW d \in Int, outbox' = FailureRecorded(topic, d),
                   NEW x \in Topics, NEW p, Holds(x, p)'
            PROVE  Holds(x, p)
        <4>1. CASE x # topic \/ outbox[topic] = NoEntry
          BY <3>2, <4>1, FailureEffect DEF Holds
        <4>2. CASE x = topic /\ outbox[topic] # NoEntry
          <5>1. outbox'[topic] = [payload |-> outbox[topic].payload,
                                  attempts |-> outbox[topic].attempts + 1, wait |-> d]
            BY <3>2, <4>2, FailureEffect
          <5>. QED
            BY <3>2, <4>2, <5>1 DEF Holds
        <4>. QED
          BY <4>1, <4>2
      <3>. QED
        BY <1>6, <3>1, <3>2, BackoffIsInt DEF Fail, Abandon
    <2>. QED
      BY <2>1, <2>2
  <1>6a. CASE Report
    BY <1>6a DEF Report, Holds
  <1>7. CASE Sleep
    BY <1>7 DEF Sleep, log, Holds
  <1>8. CASE Restart
    BY <1>8 DEF Restart, Shape
  <1>9. CASE UNCHANGED vars
    BY <1>9 DEF vars, log, Holds
  <1>. QED
    BY <1>1, <1>2, <1>3, <1>4, <1>5, <1>6, <1>6a, <1>7, <1>8, <1>9 DEF Next

\* Once published a payload is not published again, on shared topics too, as
\* long as no pump died between a publish and its ack.
THEOREM NoSecondPublish == Spec => PublishedOnce
  <1>1. Init => PublishedInv
    BY DEF Init, PublishedInv, Holds
  <1>2. PumpInv /\ PublishedInv /\ [Next]_vars =>
            [\A p \in Payloads : (restarts = 0 /\ p \in published) => tries'[p] = tries[p]]_vars
    <2>. SUFFICES ASSUME PumpInv, PublishedInv, Next, NEW p \in Payloads,
                         restarts = 0, p \in published
                  PROVE  tries'[p] = tries[p]
      BY DEF vars, log
    <2>1. CASE Publish
      <3>1. PICK e \in due : tries' = [tries EXCEPT ![e.payload] = @ + 1]
        BY <2>1 DEF Publish
      <3>2. e.payload # p
        BY DEF PublishedInv
      <3>. QED
        BY <3>1, <3>2 DEF PumpInv, Shape
    <2>2. CASE ~Publish
      BY <2>2 DEF Next, Enqueue, Tick, Poll, Ack, Fail, Abandon, Report, Sleep, Restart, log
    <2>. QED
      BY <2>1, <2>2
  <1>. QED
    BY <1>1, <1>2, PublishedNext, PumpInvariant, PTL DEF Spec, PublishedOnce

----------------------------------------------------------------------------
(* The attempts of a payload that shares its topic with no other. *)

OwnTopics == \A p, q \in Payloads : TopicOf[p] = TopicOf[q] => p = q

\* The publish of p whose outcome is not recorded yet.
Pending(p) == IF cur # NoEntry /\ cur.payload = p THEN 1 ELSE 0

\* Nothing but the pump touches an entry once it is in the outbox, so that its
\* attempts count the publish calls, but for the one under way and those whose
\* record a replaced pump did not write.
Counted(p) ==
    LET entry == outbox[TopicOf[p]]
    IN  entry # NoEntry =>
            /\ entry.attempts < RETRY_MAX_ATTEMPTS
            /\ entry.attempts + Pending(p) =< tries[p]
            /\ tries[p] =< entry.attempts + Pending(p) + restarts

\* What the pump has not settled yet is in the outbox as it was taken.
StillThere ==
    \A e \in Taken : pc # "report" \/ e # cur =>
        Holds(e.topic, e.payload) /\ outbox[e.topic].attempts = e.attempts

\* An entry is removed without success only with its budget used up, and
\* nothing is queued again for its payload.
UsedUp ==
    pc = "report" =>
        tries[cur.payload] >= RETRY_MAX_ATTEMPTS /\ outbox[TopicOf[cur.payload]] = NoEntry

BudgetInv ==
    /\ StillThere
    /\ UsedUp
    /\ \A p \in Payloads : Counted(p)
    /\ AttemptBudget

\* With nothing queued BudgetInv holds.
LEMMA BudgetInit == Init => BudgetInv
  BY PumpConstants
     DEF Init, BudgetInv, StillThere, UsedUp, Taken, Counted, AttemptBudget

\* With a topic for each payload every step keeps BudgetInv.
LEMMA BudgetNext ==
    ASSUME OwnTopics, PumpInv, BudgetInv, [Next]_vars
    PROVE  BudgetInv'
  <1>. USE PumpConstants DEF PumpInv
  <1>t. /\ RETRY_MAX_ATTEMPTS \in Nat /\ restarts \in Nat
        /\ \A p \in Payloads : tries[p] \in Nat /\ TopicOf[p] \in Topics
        /\ \A x \in Topics : outbox[x] # NoEntry => outbox[x].attempts \in Nat
        /\ \A e \in Taken : e.topic \in Topics /\ e.payload \in Payloads
        /\ pc = "report" => cur \in Taken
    BY DEF Shape, Stored, Taken, Handle
  <1>1. ASSUME NEW p \in Payloads, Enqueue(p)
        PROVE  BudgetInv'
    <2>. DEFINE new == [payload |-> p, attempts |-> 0, wait |-> 0]
    <2>1. /\ outbox'[TopicOf[p]] = new
          /\ \A x \in Topics : x # TopicOf[p] => outbox'[x] = outbox[x]
          /\ UNCHANGED <<Taken, pc, cur, tries, restarts, exhausted, unreported>>
      BY <1>1, <1>t DEF Enqueue, Shape, Taken
    <2>2. \A e \in Taken : e.topic \in Topics /\ e.topic # TopicOf[p]
      BY <1>1 DEF Enqueue, Taken, Shape, Handle, Placed, OwnTopics
    <2>3. StillThere' /\ UsedUp'
      BY <1>t, <2>1, <2>2 DEF BudgetInv, StillThere, Holds, UsedUp, Placed
    <2>4. tries[p] = 0 /\ Pending(p) = 0
      BY <1>1 DEF Enqueue, Placed, Taken, Pending
    <2>5. ASSUME NEW q \in Payloads
          PROVE  Counted(q)'
      <3>1. CASE q = p
        BY <1>t, <2>1, <2>4, <3>1 DEF Counted, Pending
      <3>2. CASE q # p
        BY <1>t, <2>1, <3>2 DEF BudgetInv, Counted, Pending, OwnTopics
      <3>. QED
        BY <3>1, <3>2
    <2>6. AttemptBudget'
      BY <2>1 DEF BudgetInv, AttemptBudget
    <2>. QED
      BY <2>3, <2>5, <2>6 DEF BudgetInv
  <1>2. CASE Tick
    <2>1. UNCHANGED <<Taken, pc, cur, tries, restarts, exhausted, unreported>>
      BY <1>2 DEF Tick, Taken
    <2>2. StillThere' /\ UsedUp'
      BY <1>2, <1>t, <2>1, TickEffect DEF BudgetInv, StillThere, Holds, UsedUp
    <2>3. \A p \in Payloads : Counted(p)'
      BY <1>2, <1>t, <2>1, TickEffect DEF BudgetInv, Counted, Pending
    <2>4. AttemptBudget'
      BY <2>1 DEF BudgetInv, AttemptBudget
    <2>. QED
      BY <2>2, <2>3, <2>4 DEF BudgetInv
  <1>3. CASE Poll
    <2>1. /\ UNCHANGED <<outbox, cur, tries, restarts, exhausted, unreported>>
          /\ Taken' = due_entries /\ pc' = "batch"
      BY <1>3 DEF Poll, log, Taken, Shape
    <2>2. StillThere' /\ UsedUp'
      BY <2>1, DueEntries DEF StillThere, Holds, UsedUp
    <2>3. \A p \in Payloads : Counted(p)'
      BY <2>1 DEF BudgetInv, Counted, Pending
    <2>4. AttemptBudget'
      BY <2>1 DEF BudgetInv, AttemptBudget
    <2>. QED
      BY <2>2, <2>3, <2>4 DEF BudgetInv
  <1>4. CASE Publish
    <2>1. PICK e \in due : /\ cur' = e /\ due' = due \ {e} /\ pc' \in {"ok", "err"}
                           /\ tries' = [tries EXCEPT ![e.payload] = @ + 1]
      BY <1>4 DEF Publish
    <2>2. /\ UNCHANGED <<outbox, restarts, exhausted, unreported>>
          /\ cur = NoEntry /\ pc = "batch"
      BY <1>4 DEF Publish, Shape
    <2>3. /\ e \in Handle /\ e # NoEntry /\ e \in Taken
          /\ e.payload \in Payloads /\ e.topic = TopicOf[e.payload]
          /\ Taken' = Taken
      BY <2>1, <2>2, NoEntryIsNone DEF Shape, Taken, Placed, Handle
    <2>4. \A p \in Payloads : tries'[p] = IF p = e.payload THEN tries[p] + 1 ELSE tries[p]
      BY <2>1 DEF Shape
    <2>5. StillThere' /\ UsedUp'
      BY <2>1, <2>2, <2>3 DEF BudgetInv, StillThere, Holds, UsedUp
    <2>6. \A p \in Payloads : Pending(p) = 0 /\ Pending(p)' = IF p = e.payload THEN 1 ELSE 0
      BY <2>1, <2>2, <2>3 DEF Pending
    <2>7. \A p \in Payloads : Counted(p)'
      BY <1>t, <2>2, <2>4, <2>6 DEF BudgetInv, Counted
    <2>8. AttemptBudget'
      <3>1. outbox[TopicOf[e.payload]] # NoEntry
        BY <2>2, <2>3 DEF BudgetInv, StillThere, Holds
      <3>2. Counted(e.payload)
        BY <2>3 DEF BudgetInv
      <3>3. tries[e.payload] + 1 =< RETRY_MAX_ATTEMPTS + restarts
        BY <1>t, <2>3, <2>6, <3>1, <3>2 DEF Counted
      <3>. QED
        BY <1>t, <2>2, <2>3, <2>4, <3>3 DEF BudgetInv, AttemptBudget
    <2>. QED
      BY <2>5, <2>7, <2>8 DEF BudgetInv
  <1>5. CASE Ack \/ Fail \/ Abandon
    <2>1. /\ cur \in Taken /\ cur \in Handle /\ cur # NoEntry /\ pc \in {"ok", "err"}
          /\ UNCHANGED <<due, tries, restarts, exhausted, unreported>>
          /\ \A e \in due : e \in Taken /\ e.topic # cur.topic /\ e.topic \in Topics
      BY <1>5, NoEntryIsNone
         DEF Ack, Fail, Abandon, log, Shape, Taken, OneHandle, Handle
    <2>. PICK topic \in Topics : topic = cur.topic
      BY <2>1 DEF Handle
    <2>. PICK p0 \in Payloads : p0 = cur.payload
      BY <2>1 DEF Handle
    <2>2. /\ topic = TopicOf[p0] /\ outbox[topic] # NoEntry
          /\ outbox[topic].attempts = cur.attempts
      BY <2>1 DEF BudgetInv, StillThere, Holds, Placed
    <2>3. Counted(p0) /\ Pending(p0) = 1
      BY <2>1 DEF BudgetInv, Pending
    <2>4. \A p \in Payloads : p # p0 => Pending(p) = 0 /\ TopicOf[p] # topic
      BY <2>2 DEF Pending, OwnTopics
    <2>5. AttemptBudget'
      BY <2>1 DEF BudgetInv, AttemptBudget
    <2>6. ASSUME \A x \in Topics : x # topic => outbox'[x] = outbox[x],
                 \/ cur' = NoEntry
                 \/ cur' = cur /\ pc' = "report"
          PROVE  StillThere' /\ \A p \in Payloads : p # p0 => Counted(p)'
      <3>1. StillThere'
        <4>. SUFFICES ASSUME NEW e \in Taken', (pc # "report" \/ e # cur)'
                      PROVE  (Holds(e.topic, e.payload) /\ outbox[e.topic].attempts = e.attempts)'
          BY DEF StillThere
        <4>1. e \in due /\ e # cur
          BY <2>1, <2>6 DEF Taken
        <4>2. Holds(e.topic, e.payload) /\ outbox[e.topic].attempts = e.attempts
          BY <2>1, <4>1 DEF BudgetInv, StillThere
        <4>. QED
          BY <2>1, <2>6, <4>1, <4>2 DEF Holds
      <3>2. \A p \in Payloads : p # p0 => Counted(p)'
        <4>1. \A p \in Payloads : p # p0 => Pending(p)' = 0
          BY <2>6 DEF Pending
        <4>. QED
          BY <1>t, <2>1, <2>4, <2>6, <4>1 DEF BudgetInv, Counted
      <3>. QED
        BY <3>1, <3>2
    <2>7. CASE Ack
      <3>1. outbox' = Removed(topic) /\ cur' = NoEntry /\ pc' = "batch"
        BY <2>7 DEF Ack
      <3>2. Counted(p0)' /\ UsedUp'
        BY <2>2, <3>1, RemovedEffect DEF Counted, UsedUp
      <3>. QED
        BY <2>5, <2>6, <3>1, <3>2, RemovedEffect DEF BudgetInv
    <2>8. CASE Abandon
      <3>1. /\ outbox' = Removed(topic) /\ cur' = cur /\ pc' = "report"
            /\ cur.attempts + 1 >= RETRY_MAX_ATTEMPTS
        BY <2>8 DEF Abandon
      <3>2. Counted(p0)'
        BY <2>2, <3>1, RemovedEffect DEF Counted
      <3>3. UsedUp'
        BY <1>t, <2>1, <2>2, <2>3, <3>1, RemovedEffect DEF Counted, UsedUp
      <3>. QED
        BY <2>5, <2>6, <3>1, <3>2, <3>3, RemovedEffect DEF BudgetInv
    <2>9. CASE Fail
      <3>1. PICK d \in Int : outbox' = FailureRecorded(topic, d)
        BY <2>9, BackoffIsInt DEF Fail
      <3>2. cur' = NoEntry /\ pc' = "batch" /\ cur.attempts + 1 < RETRY_MAX_ATTEMPTS
        BY <2>9 DEF Fail
      <3>3. outbox'[topic] = [payload |-> outbox[topic].payload,
                              attempts |-> outbox[topic].attempts + 1, wait |-> d]
        BY <2>2, <3>1, FailureEffect
      <3>4. outbox'[topic].attempts = outbox[topic].attempts + 1
        BY <3>3
      <3>5. Pending(p0)' = 0
        BY <3>2 DEF Pending
      <3>6. Counted(p0)' /\ UsedUp'
        BY <1>t, <2>1, <2>2, <2>3, <3>2, <3>4, <3>5 DEF Counted, UsedUp
      <3>. QED
        BY <2>5, <2>6, <3>1, <3>2, <3>6, FailureEffect DEF BudgetInv
    <2>. QED
      BY <1>5, <2>7, <2>8, <2>9
  <1>6. CASE Report \/ Restart
    <2>1. /\ cur' = NoEntry /\ pc' # "report" /\ Taken' \subseteq Taken \ {cur}
          /\ restarts' \in Nat /\ restarts' >= restarts
          /\ pc # "report" => restarts' = restarts + 1
          /\ exhausted' \cup unreported' \subseteq exhausted \cup unreported
                \cup (IF pc = "report" THEN {cur.payload} ELSE {})
          /\ UNCHANGED <<outbox, tries>>
      <3>1. cur \notin due
        BY NoEntryIsNone DEF OneHandle, Shape
      <3>. QED
        BY <1>6, <1>t, <3>1 DEF Report, Restart, Taken, Shape
    <2>2. \A p \in Payloads : Pending(p)' = 0 /\ Pending(p) \in {0, 1}
      BY <2>1 DEF Pending
    <2>3. \A p \in Payloads : Counted(p)'
      <3>. SUFFICES ASSUME NEW p \in Payloads, outbox[TopicOf[p]] # NoEntry
                    PROVE  Counted(p)'
        BY <2>1 DEF Counted
      <3>1. CASE pc = "report" /\ Pending(p) = 1
        <4>1. cur.payload = p
          BY <3>1 DEF Pending
        <4>. QED
          BY <3>1, <4>1 DEF BudgetInv, UsedUp
      <3>2. CASE ~(pc = "report" /\ Pending(p) = 1)
        <4>1. Pending(p) + restarts =< restarts'
          BY <1>t, <2>1, <2>2, <3>2
        <4>2. /\ Counted(p) /\ Pending(p) \in {0, 1} /\ Pending(p)' = 0
              /\ outbox[TopicOf[p]].attempts \in Nat
          BY <1>t, <2>2 DEF BudgetInv
        <4>. QED
          BY <1>t, <2>1, <4>1, <4>2 DEF Counted
      <3>. QED
        BY <3>1, <3>2
    <2>4. AttemptBudget'
      BY <1>t, <2>1 DEF BudgetInv, AttemptBudget, UsedUp
    <2>5. StillThere' /\ UsedUp'
      BY <2>1 DEF BudgetInv, StillThere, Holds, UsedUp
    <2>. QED
      BY <2>3, <2>4, <2>5 DEF BudgetInv
  <1>7. CASE Sleep \/ UNCHANGED vars
    BY <1>7 DEF Sleep, vars, log, BudgetInv, StillThere, UsedUp, Counted, AttemptBudget,
                Taken, Holds, Pending
  <1>. QED
    BY <1>1, <1>2, <1>3, <1>4, <1>5, <1>6, <1>7 DEF Next

\* pump_loop spends at most RETRY_MAX_ATTEMPTS publish calls on a payload and
\* abandons none before it has used them up, with one more for every replaced
\* pump, when no two payloads share a topic.
THEOREM BudgetKept ==
    ASSUME OwnTopics
    PROVE  Spec => []AttemptBudget
  <1>1. BudgetInv => AttemptBudget
    BY DEF BudgetInv
  <1>2. PumpInv /\ BudgetInv /\ [Next]_vars => BudgetInv'
    BY BudgetNext
  <1>. QED
    BY <1>1, <1>2, BudgetInit, PumpInvariant, PTL DEF Spec

\* The time passed since a payload's last failed publish, and what is left to
\* wait, add up to its delay.
WaitInv ==
    \A p \in Payloads :
        LET entry == outbox[TopicOf[p]]
        IN  (restarts = 0 /\ entry # NoEntry /\ entry.attempts > 0 /\ Pending(p) = 0) =>
                since[p] + entry.wait >= LeastDelay(entry.attempts)

WaitType == since \in [Payloads -> Nat]

\* With a topic for each payload every step keeps WaitInv.
LEMMA WaitNext ==
    ASSUME OwnTopics, PumpInv, BudgetInv, WaitType, WaitInv, [Next]_vars
    PROVE  WaitType' /\ WaitInv'
  <1>. USE PumpConstants DEF PumpInv
  <1>t. /\ \A p \in Payloads : TopicOf[p] \in Topics /\ since[p] \in Nat
        /\ \A x \in Topics : outbox[x] # NoEntry => outbox[x].attempts \in Nat /\ outbox[x].wait \in Int
    BY DEF Shape, Stored, WaitType
  <1>1. ASSUME NEW p \in Payloads, Enqueue(p)
        PROVE  WaitType' /\ WaitInv'
    <2>1. /\ outbox'[TopicOf[p]] = [payload |-> p, attempts |-> 0, wait |-> 0]
          /\ \A x \in Topics : x # TopicOf[p] => outbox'[x] = outbox[x]
          /\ UNCHANGED <<since, cur, restarts>>
      BY <1>1, <1>t DEF Enqueue, Shape
    <2>. QED
      BY <1>t, <2>1 DEF WaitType, WaitInv, Pending, OwnTopics
  <1>2. CASE Tick
    <2>1. /\ UNCHANGED <<cur, restarts>>
          /\ since' = [p \in Payloads |-> Min2(since[p] + 1, RETRY_CAP)]
      BY <1>2 DEF Tick
    <2>2. WaitType'
      BY <1>t, <2>1 DEF WaitType, Min2
    <2>3. ASSUME NEW p \in Payloads, restarts' = 0, outbox'[TopicOf[p]] # NoEntry,
                 outbox'[TopicOf[p]].attempts > 0, Pending(p)' = 0
          PROVE  since'[p] + outbox'[TopicOf[p]].wait >= LeastDelay(outbox'[TopicOf[p]].attempts)
      <3>. PICK x \in Topics : x = TopicOf[p]
        BY <1>t
      <3>1. /\ outbox[x] # NoEntry /\ outbox'[x].attempts = outbox[x].attempts
            /\ outbox'[x].wait = Max2(outbox[x].wait - 1, 0)
        BY <1>2, <2>3, TickEffect
      <3>2. outbox[x].attempts \in 1 .. RETRY_MAX_ATTEMPTS
        BY <1>t, <2>3, <3>1 DEF BudgetInv, Counted
      <3>3. since[p] + outbox[x].wait >= LeastDelay(outbox[x].attempts)
        BY <2>1, <2>3, <3>1 DEF WaitInv, Pending
      <3>4. /\ LeastDelay(outbox[x].attempts) \in Nat
            /\ LeastDelay(outbox[x].attempts) =< RETRY_CAP
        BY <3>2, DelayBounds
      <3>5. since'[p] = Min2(since[p] + 1, RETRY_CAP)
        BY <2>1
      <3>. HIDE DEF LeastDelay
      <3>. QED
        BY <1>t, <3>1, <3>3, <3>4, <3>5 DEF Min2, Max2
    <2>. QED
      BY <2>2, <2>3 DEF WaitInv
  <1>3. CASE Publish
    <2>1. PICK e \in due : cur' = e /\ since' = [since EXCEPT ![e.payload] = 0]
      BY <1>3 DEF Publish
    <2>2. /\ UNCHANGED <<outbox, restarts>> /\ cur = NoEntry
          /\ e \in Handle /\ e # NoEntry
      BY <1>3, NoEntryIsNone DEF Publish, Shape
    <2>. QED
      BY <2>1, <2>2 DEF WaitType, WaitInv, Pending, Handle
  <1>4. CASE Ack \/ Fail \/ Abandon
    <2>1. /\ cur \in Taken /\ cur \in Handle /\ cur # NoEntry /\ pc \in {"ok", "err"}
          /\ UNCHANGED <<restarts, since>>
      BY <1>4, NoEntryIsNone DEF Ack, Fail, Abandon, log, Shape, Taken
    <2>. PICK topic \in Topics : topic = cur.topic
      BY <2>1 DEF Handle
    <2>. PICK p0 \in Payloads : p0 = cur.payload
      BY <2>1 DEF Handle
    <2>2. /\ topic = TopicOf[p0] /\ outbox[topic] # NoEntry
          /\ outbox[topic].attempts = cur.attempts
      BY <2>1 DEF BudgetInv, StillThere, Holds, Placed
    <2>3. \A p \in Payloads : p # p0 => Pending(p) = 0 /\ TopicOf[p] # topic
      BY <2>2 DEF Pending, OwnTopics
    <2>4. CASE Ack \/ Abandon
      <3>1. outbox' = Removed(topic)
        BY <2>4 DEF Ack, Abandon
      <3>2. outbox'[topic] = NoEntry /\ \A x \in Topics : x # topic => outbox'[x] = outbox[x]
        BY <3>1, RemovedEffect
      <3>. QED
        BY <1>t, <2>1, <2>2, <2>3, <3>2 DEF WaitType, WaitInv
    <2>5. CASE Fail
      <3>1. PICK d \in compute_backoff_ms(cur.attempts + 1) : outbox' = FailureRecorded(topic, d)
        BY <2>5 DEF Fail
      <3>2. d \in Int /\ cur.attempts + 1 \in 1 .. RETRY_MAX_ATTEMPTS
        BY <2>1, <2>5, BackoffIsInt DEF Fail, Handle
      <3>3. LeastDelay(cur.attempts + 1) \in Nat /\ d >= LeastDelay(cur.attempts + 1)
        BY <3>2, DelayBounds
      <3>4. /\ outbox'[topic] = [payload |-> outbox[topic].payload,
                                  attempts |-> outbox[topic].attempts + 1, wait |-> d]
            /\ \A x \in Topics : x # topic => outbox'[x] = outbox[x]
        BY <2>2, <3>1, <3>2, FailureEffect
      <3>5. outbox'[topic].attempts = cur.attempts + 1 /\ outbox'[topic].wait = d
        BY <2>2, <3>4
      <3>6. since'[p0] + d >= LeastDelay(cur.attempts + 1)
        BY <1>t, <2>1, <3>2, <3>3
      <3>7. ASSUME NEW p \in Payloads, p # p0, restarts = 0, outbox'[TopicOf[p]] # NoEntry,
                   outbox'[TopicOf[p]].attempts > 0
            PROVE  since'[p] + outbox'[TopicOf[p]].wait >= LeastDelay(outbox'[TopicOf[p]].attempts)
        BY <1>t, <2>1, <2>3, <3>4, <3>7 DEF WaitInv
      <3>. QED
        BY <2>1, <2>2, <3>5, <3>6, <3>7 DEF WaitType, WaitInv
    <2>. QED
      BY <1>4, <2>4, <2>5
  <1>5. CASE Report
    <2>1. /\ cur' = NoEntry /\ UNCHANGED <<outbox, since, restarts>> /\ pc = "report"
      BY <1>5 DEF Report
    <2>2. \A p \in Payloads : outbox[TopicOf[p]] # NoEntry => Pending(p) = 0
      BY <2>1 DEF BudgetInv, UsedUp, Pending
    <2>. QED
      BY <2>1, <2>2 DEF WaitType, WaitInv
  <1>6. CASE Restart
    <2>1. restarts' # 0 /\ UNCHANGED since
      BY <1>6 DEF Restart, Shape
    <2>. QED
      BY <2>1 DEF WaitType, WaitInv
  <1>7. CASE Poll \/ Sleep \/ UNCHANGED vars
    BY <1>7 DEF Poll, Sleep, vars, log, WaitType, WaitInv, Pending
  <1>. QED
    BY <1>1, <1>2, <1>3, <1>4, <1>5, <1>6, <1>7 DEF Next

\* While no pump was replaced, a payload with a topic of its own is not
\* published again before its delay is over: due_entries, record_failure and
\* compute_backoff_ms together, for any retry constants.
THEOREM RetriesWait ==
    ASSUME OwnTopics
    PROVE  Spec => RetryWaits
  <1>1. Init => WaitType /\ WaitInv
    BY PumpConstants DEF Init, WaitType, WaitInv
  <1>2. PumpInv /\ BudgetInv /\ [Next]_vars => BudgetInv'
    BY BudgetNext
  <1>3. PumpInv /\ BudgetInv /\ WaitType /\ WaitInv /\ [Next]_vars => WaitType' /\ WaitInv'
    BY WaitNext
  <1>4. PumpInv /\ BudgetInv /\ WaitType /\ WaitInv /\ [Next]_vars =>
            [\A p \in Payloads :
               (restarts = 0 /\ tries[p] > 0 /\ tries'[p] > tries[p]) =>
                   since[p] >= LeastDelay(tries[p])]_vars
    <2>. SUFFICES ASSUME PumpInv, BudgetInv, WaitType, WaitInv, Next, NEW p \in Payloads,
                         restarts = 0, tries[p] > 0, tries'[p] > tries[p]
                  PROVE  since[p] >= LeastDelay(tries[p])
      BY DEF vars, log
    <2>. USE DEF PumpInv
    <2>1. CASE Publish
      <3>1. PICK e \in due : tries' = [tries EXCEPT ![e.payload] = @ + 1]
        BY <2>1 DEF Publish
      <3>2. pc = "batch" /\ cur = NoEntry /\ e \in Taken /\ e \in Handle
        BY <2>1 DEF Publish, Shape, Taken
      <3>3. e.payload = p /\ e.topic = TopicOf[p] /\ TopicOf[p] \in Topics
        <4>1. tries[p] \in Nat /\ e.payload # p => tries'[p] = tries[p]
          BY <3>1 DEF Shape
        <4>2. e.payload = p
          BY <4>1 DEF Shape
        <4>. QED
          BY <3>2, <4>2, PumpConstants DEF Placed
      <3>. PICK x \in Topics : x = TopicOf[p]
        BY <3>3
      <3>4. Holds(x, p) /\ outbox[x].attempts = e.attempts /\ outbox[x].wait = 0
        BY <3>2, <3>3 DEF BudgetInv, StillThere, Snapshot
      <3>5. Pending(p) = 0
        BY <3>2 DEF Pending
      <3>6. outbox[x] # NoEntry /\ tries[p] = outbox[x].attempts /\ tries[p] \in Nat
        BY <3>3, <3>4, <3>5 DEF BudgetInv, Counted, Holds, Shape, Stored
      <3>7. since[p] + outbox[x].wait >= LeastDelay(outbox[x].attempts)
        BY <3>5, <3>6 DEF WaitInv
      <3>8. since[p] \in Nat
        BY DEF WaitType
      <3>. HIDE DEF LeastDelay
      <3>. QED
        BY <3>4, <3>6, <3>7, <3>8
    <2>2. CASE ~Publish
      <3>1. tries' = tries
        BY <2>2 DEF Next, Enqueue, Tick, Poll, Ack, Fail, Abandon, Report, Sleep, Restart, log
      <3>. QED
        BY <3>1 DEF Shape
    <2>. QED
      BY <2>1, <2>2
  <1>. QED
    BY <1>1, <1>2, <1>3, <1>4, BudgetInit, PumpInvariant, PTL DEF Spec, RetryWaits

\* With topics of their own, the entry that leaves the outbox on an ack is the
\* one that was published: what pump_shared_topic refutes needs a shared topic.
THEOREM OwnTopicsAckPublished ==
    ASSUME OwnTopics
    PROVE  Spec => AckRemovesPublished
  <1>1. Init => PublishedInv
    BY DEF Init, PublishedInv, Holds
  <1>2. PumpInv /\ BudgetInv /\ [Next]_vars => BudgetInv'
    BY BudgetNext
  <1>3. PumpInv /\ PublishedInv /\ BudgetInv /\ [Next]_vars =>
            [\A topic \in Topics :
               (pc = "ok" /\ outbox[topic] # NoEntry /\ outbox'[topic] = NoEntry) =>
                   outbox[topic].payload \in published]_vars
    <2>. SUFFICES ASSUME PumpInv, PublishedInv, BudgetInv, Next, NEW topic \in Topics,
                         pc = "ok", outbox[topic] # NoEntry, outbox'[topic] = NoEntry
                  PROVE  outbox[topic].payload \in published
      BY DEF vars, log
    <2>1. cur \in Taken /\ cur.payload \in published /\ cur.topic \in Topics
      BY DEF PumpInv, Shape, PublishedInv, Taken, Handle
    <2>2. CASE Ack
      <3>1. topic = cur.topic
        BY <2>1, <2>2 DEF Ack, Removed, PumpInv, Shape
      <3>. QED
        BY <2>1, <3>1 DEF BudgetInv, StillThere, Holds
    <2>3. CASE ~Ack
      <3>1. ASSUME NEW p \in Payloads, Enqueue(p)
            PROVE  FALSE
        BY <3>1, PumpConstants, NoEntryIsNone DEF Enqueue, PumpInv, Shape, Entry
      <3>2. ~Tick
        BY TickEffect DEF PumpInv
      <3>. QED
        BY <2>3, <3>1, <3>2 DEF Next, Poll, Publish, Fail, Abandon, Report, Sleep, Restart
    <2>. QED
      BY <2>2, <2>3
  <1>. QED
    BY <1>1, <1>2, <1>3, BudgetInit, PublishedNext, PumpInvariant, PTL
       DEF Spec, AckRemovesPublished
====
