---- MODULE RetryPump ----
(***************************************************************************)
(* The retry pump of zero-network (retry.rs): a background task that polls *)
(* an OutboxHandle, publishes what is due, acknowledges what was published *)
(* and reschedules or abandons what was not.                               *)
(*                                                                         *)
(* The OutboxHandle is a trait whose operations name an entry by its topic *)
(* alone; it is modelled from how pump_loop uses it and from the in-memory *)
(* handle of the module's tests, a map from topic to entry.  Each `await`  *)
(* of pump_loop (due_entries, publish, ack / record_failure / remove) is a *)
(* step, and producers enqueue between any two of them.  The event that    *)
(* reports an abandoned entry is sent after the await of remove, if the    *)
(* pump was given a channel at all.                                        *)
(*                                                                         *)
(* Times are relative: `wait` is what is left until next_attempt_ms, and   *)
(* Tick lets one unit of time pass for every entry.                        *)
(***************************************************************************)
EXTENDS Integers, FiniteSets

CONSTANTS
    Payloads,                   \* sectors the producers hand over, once each
    Topics,
    TopicOf,                    \* the topic each payload is published on
    RETRY_INITIAL_DELAY,        \* the RETRY_* constants, delays in ticks
    RETRY_BACKOFF_MULTIPLIER,
    RETRY_MAX_ATTEMPTS,
    RETRY_CAP,
    MaxRestarts,                \* bound: how often the pump task is replaced
    NoEntry

ASSUME PumpConstants ==
    /\ TopicOf \in [Payloads -> Topics]
    /\ RETRY_INITIAL_DELAY \in Nat \ {0}
    /\ RETRY_BACKOFF_MULTIPLIER \in Nat \ {0}
    /\ RETRY_MAX_ATTEMPTS \in Nat \ {0}
    /\ RETRY_CAP \in Nat \ {0}
    /\ MaxRestarts \in Nat

\* Of powers the proofs use no more than that they are natural numbers.
ASSUME PowersAreNumbers ==
    \A k \in 0 .. RETRY_MAX_ATTEMPTS : RETRY_BACKOFF_MULTIPLIER ^ k \in Nat

Entry == [payload : Payloads, attempts : Nat, wait : Nat]
Handle == [topic : Topics, payload : Payloads, attempts : Nat]

ASSUME NoEntryIsNone == NoEntry \notin Entry /\ NoEntry \notin Handle

VARIABLES
    outbox,       \* outbox[topic]: the entry the handle keeps, or NoEntry
    exhausted_tx, \* whether the pumps are given a channel for RetryExhausted
    pc,           \* where pump_loop is
    due,          \* entries of the last due_entries() still to be published
    cur,          \* the entry being published or abandoned, or NoEntry
    handed,       \* history: payloads enqueued so far
    published,    \* history: payloads some publish returned Ok for
    tries,        \* history: publish calls per payload
    since,        \* history: time since the last of them, up to RETRY_CAP
    exhausted,    \* history: payloads a RetryExhausted event was sent for
    unreported,   \* history: payloads removed without one, for want of a channel
                  \* or because the pump ended between the removal and the event
    restarts

log == <<handed, published, tries, since, exhausted, unreported>>
vars == <<outbox, exhausted_tx, pc, due, cur, log, restarts>>

TypeOK ==
    /\ outbox \in [Topics -> Entry \cup {NoEntry}]
    /\ exhausted_tx \in BOOLEAN
    /\ pc \in {"sleep", "batch", "ok", "err", "report"}
    /\ due \subseteq Handle
    /\ cur \in Handle \cup {NoEntry}
    /\ pc \in {"ok", "err", "report"} <=> cur # NoEntry
    /\ handed \subseteq Payloads
    /\ published \subseteq handed
    /\ tries \in [Payloads -> Nat]
    /\ since \in [Payloads -> 0 .. RETRY_CAP]
    /\ exhausted \subseteq handed
    /\ unreported \subseteq handed
    /\ restarts \in 0 .. MaxRestarts

Init ==
    /\ outbox = [topic \in Topics |-> NoEntry]
    /\ exhausted_tx \in BOOLEAN
    /\ pc = "sleep"
    /\ due = {}
    /\ cur = NoEntry
    /\ handed = {}
    /\ published = {}
    /\ tries = [p \in Payloads |-> 0]
    /\ since = [p \in Payloads |-> 0]
    /\ exhausted = {}
    /\ unreported = {}
    /\ restarts = 0

----------------------------------------------------------------------------

Min2(a, b) == IF a < b THEN a ELSE b
Max2(a, b) == IF a < b THEN b ELSE a

\* compute_backoff_ms: the delays the clock-derived jitter can give.
compute_backoff_ms(attempts) ==
    LET exp    == Max2(attempts - 1, 0)
        base   == RETRY_INITIAL_DELAY * RETRY_BACKOFF_MULTIPLIER ^ exp
        capped == Min2(base, RETRY_CAP)
        half   == capped \div 2
    IN  half .. half + Max2(half, 1) - 1

----------------------------------------------------------------------------
(* The outbox handle and its producers *)

\* A producer hands over a payload; a map keyed by topic drops what it held
\* for that topic.
Enqueue(p) ==
    /\ p \notin handed
    /\ outbox' = [outbox EXCEPT ![TopicOf[p]] =
                    [payload |-> p, attempts |-> 0, wait |-> 0]]
    /\ handed' = handed \cup {p}
    /\ UNCHANGED <<exhausted_tx, pc, due, cur, published, tries, since, exhausted,
                   unreported, restarts>>

\* ack and remove both delete the topic's entry.
Removed(topic) == [outbox EXCEPT ![topic] = NoEntry]

\* record_failure does nothing when the topic has no entry.
FailureRecorded(topic, delay) ==
    IF outbox[topic] = NoEntry THEN outbox
    ELSE [outbox EXCEPT ![topic].attempts = @ + 1, ![topic].wait = delay]

\* now_ms() advances.
Tick ==
    /\ \E topic \in Topics : outbox[topic] # NoEntry /\ outbox[topic].wait > 0
    /\ outbox' = [topic \in Topics |->
                    IF outbox[topic] = NoEntry THEN NoEntry
                    ELSE [outbox[topic] EXCEPT !.wait = Max2(@ - 1, 0)]]
    /\ since' = [p \in Payloads |-> Min2(since[p] + 1, RETRY_CAP)]
    /\ UNCHANGED <<exhausted_tx, pc, due, cur, handed, published, tries, exhausted,
                   unreported, restarts>>

----------------------------------------------------------------------------
(* pump_loop *)

due_entries ==
    {[topic |-> topic, payload |-> outbox[topic].payload,
      attempts |-> outbox[topic].attempts] :
        topic \in {x \in Topics : outbox[x] # NoEntry /\ outbox[x].wait = 0}}

\* The sleep is over: a snapshot of what is due now.
Poll ==
    /\ pc = "sleep"
    /\ due' = due_entries
    /\ pc' = "batch"
    /\ UNCHANGED <<outbox, exhausted_tx, cur, log, restarts>>

\* One turn of the `for` loop up to the answer of client.publish; a map has
\* no order, so any entry of the snapshot may be next.
Publish ==
    /\ pc = "batch"
    /\ \E e \in due :
        /\ cur' = e
        /\ due' = due \ {e}
        /\ tries' = [tries EXCEPT ![e.payload] = @ + 1]
        /\ since' = [since EXCEPT ![e.payload] = 0]
        /\ \/ pc' = "ok"  /\ published' = published \cup {e.payload}
           \/ pc' = "err" /\ UNCHANGED published
    /\ UNCHANGED <<outbox, exhausted_tx, handed, exhausted, unreported, restarts>>

\* Mutant: a published entry is left in the outbox.
Ack_M ==
    /\ pc = "ok"
    /\ pc' = "batch"
    /\ cur' = NoEntry
    /\ UNCHANGED <<outbox, exhausted_tx, due, log, restarts>>

\* Ok(()) => outbox.ack(&entry.topic)
Ack ==
    /\ pc = "ok"
    /\ outbox' = Removed(cur.topic)
    /\ pc' = "batch"
    /\ cur' = NoEntry
    /\ UNCHANGED <<exhausted_tx, due, log, restarts>>

\* Mutant: the delay is computed from the attempts before this one.
Fail_Short ==
    /\ pc = "err"
    /\ cur.attempts + 1 < RETRY_MAX_ATTEMPTS
    /\ \E delay \in compute_backoff_ms(cur.attempts) :
          outbox' = FailureRecorded(cur.topic, delay)
    /\ pc' = "batch"
    /\ cur' = NoEntry
    /\ UNCHANGED <<exhausted_tx, due, log, restarts>>

\* Err(_) with attempts left: schedule the next one.
Fail ==
    /\ pc = "err"
    /\ cur.attempts + 1 < RETRY_MAX_ATTEMPTS
    /\ \E delay \in compute_backoff_ms(cur.attempts + 1) :
          outbox' = FailureRecorded(cur.topic, delay)
    /\ pc' = "batch"
    /\ cur' = NoEntry
    /\ UNCHANGED <<exhausted_tx, due, log, restarts>>

\* Mutant: abandons one attempt early.
Abandon_Early ==
    /\ pc = "err"
    /\ cur.attempts + 2 >= RETRY_MAX_ATTEMPTS
    /\ outbox' = Removed(cur.topic)
    /\ pc' = "report"
    /\ UNCHANGED <<exhausted_tx, due, cur, log, restarts>>

\* Err(_) after RETRY_MAX_ATTEMPTS: outbox.remove(&entry.topic)
Abandon ==
    /\ pc = "err"
    /\ cur.attempts + 1 >= RETRY_MAX_ATTEMPTS
    /\ outbox' = Removed(cur.topic)
    /\ pc' = "report"
    /\ UNCHANGED <<exhausted_tx, due, cur, log, restarts>>

\* Mutant: the entry is removed but no event is sent.
Report_Silent ==
    /\ pc = "report"
    /\ UNCHANGED exhausted
    /\ unreported' = IF exhausted_tx THEN unreported ELSE unreported \cup {cur.payload}
    /\ pc' = "batch"
    /\ cur' = NoEntry
    /\ UNCHANGED <<outbox, exhausted_tx, due, handed, published, tries, since, restarts>>

\* The removal is done: RetryExhausted goes to the channel, if there is one.
Report ==
    /\ pc = "report"
    /\ exhausted' = IF exhausted_tx THEN exhausted \cup {cur.payload} ELSE exhausted
    /\ unreported' = IF exhausted_tx THEN unreported ELSE unreported \cup {cur.payload}
    /\ pc' = "batch"
    /\ cur' = NoEntry
    /\ UNCHANGED <<outbox, exhausted_tx, due, handed, published, tries, since, restarts>>

\* The batch is done: sleep for PUMP_POLL_INTERVAL_MS.
Sleep ==
    /\ pc = "batch"
    /\ due = {}
    /\ pc' = "sleep"
    /\ UNCHANGED <<outbox, exhausted_tx, due, cur, log, restarts>>

\* The task is aborted, or the process dies, at any await; a new pump is
\* started over the same outbox.  What was removed and not reported yet never
\* will be.
Restart ==
    /\ restarts < MaxRestarts
    /\ restarts' = restarts + 1
    /\ unreported' = IF pc = "report" THEN unreported \cup {cur.payload} ELSE unreported
    /\ pc' = "sleep"
    /\ due' = {}
    /\ cur' = NoEntry
    /\ UNCHANGED <<outbox, exhausted_tx, handed, published, tries, since, exhausted>>

Pump == Poll \/ Publish \/ Ack \/ Fail \/ Abandon \/ Report \/ Sleep

Next ==
    \/ \E p \in Payloads : Enqueue(p)
    \/ Tick
    \/ Poll
    \/ Publish
    \/ Ack
    \/ Fail
    \/ Abandon
    \/ Report
    \/ Sleep
    \/ Restart

\* The pump task is scheduled and every publish returns, with either answer;
\* time passes.  Nothing is assumed of producers or of the network's answers.
Spec == Init /\ [][Next]_vars /\ WF_vars(Pump) /\ WF_vars(Tick)

----------------------------------------------------------------------------
(* Properties *)

\* RETRY_MAX_ATTEMPTS bounds the publish calls spent on a payload, and none is
\* abandoned, with an event or without, before it has used them up; each
\* replacement of the pump can lose the record of at most one of them.
AttemptBudget ==
    \A p \in Payloads :
        /\ tries[p] =< RETRY_MAX_ATTEMPTS + restarts
        /\ p \in exhausted \cup unreported => tries[p] >= RETRY_MAX_ATTEMPTS

\* Once published a payload is not published again, and so not reported as
\* exhausted, "without success", either: only a pump that died between a
\* publish and its ack leaves a payload to be tried again.
PublishedOnce ==
    [][ \A p \in Payloads :
          (restarts = 0 /\ p \in published) => tries'[p] = tries[p] ]_vars

\* "jitter picks uniformly in [0.5 * delay, 1.0 * delay]": the least of the
\* delays after n publish calls.
LeastDelay(n) ==
    Min2(RETRY_INITIAL_DELAY * RETRY_BACKOFF_MULTIPLIER ^ (n - 1), RETRY_CAP) \div 2

\* Attempts on a payload keep their distance: between the n-th publish and the
\* next one at least LeastDelay(n) has passed, whatever else the batches held;
\* only a replaced pump, which may have lost the record of a failure, comes back
\* sooner.
RetryWaits ==
    [][ \A p \in Payloads :
          (restarts = 0 /\ tries[p] > 0 /\ tries'[p] > tries[p]) =>
              since[p] >= LeastDelay(tries[p]) ]_vars

\* Everything handed over is settled: published, or reported as exhausted, or
\* removed with nobody told, which takes a pump without a channel or one that
\* ends between the removal and the event.
Settles ==
    \A p \in Payloads : p \in handed ~> p \in published \cup exhausted \cup unreported

\* ack: "Mark an entry as successfully delivered; removes it from the outbox."
\* The entry that leaves on an ack is one that was published.
AckRemovesPublished ==
    [][ \A topic \in Topics :
          (pc = "ok" /\ outbox[topic] # NoEntry /\ outbox'[topic] = NoEntry) =>
              outbox[topic].payload \in published ]_vars
====
