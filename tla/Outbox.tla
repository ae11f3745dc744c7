---- MODULE Outbox ----
(***************************************************************************)
(* The persistent outbox of zero-storage (outbox.rs): entries in CF_OUTBOX *)
(* keyed by SectorId, bounded by a capacity.                               *)
(*                                                                         *)
(* An Outbox value only borrows the database, so send_text, the receive    *)
(* loop and the code that drives retries each make their own and call into *)
(* it from their own threads.  Each database access is one step: enqueue   *)
(* is get_raw, count, put_raw; mark_attempted is get_raw, put_raw.         *)
(***************************************************************************)
EXTENDS Integers, FiniteSets

CONSTANTS
    Threads,        \* threads that use the outbox
    Sectors,        \* SectorIds
    Capacity,       \* the outbox's capacity
    MaxAttempt,     \* u8::MAX, where attempt_count saturates
    Times,          \* values of next_attempt_ms and of now_ms
    NoEntry,        \* CF_OUTBOX has no value under the key
    NoCall          \* the thread is between calls

ASSUME OutboxConstants ==
    /\ IsFiniteSet(Threads) /\ Threads # {}
    /\ IsFiniteSet(Sectors)
    /\ Capacity \in Nat \ {0}
    /\ MaxAttempt \in Nat \ {0}
    /\ Times \subseteq Nat /\ Times # {}

OutboxEntry == [attempt_count : 0 .. MaxAttempt, next_attempt : Times]

\* "count": enqueue found no entry and is about to count; "put": the value is
\* about to be written.  The code keeps only `entry`; the properties compare
\* what get_raw returned, `read`, with what the write finds.
Call == [pc : {"count", "put"}, id : Sectors, entry : OutboxEntry,
         read : OutboxEntry \cup {NoEntry}]

ASSUME NoValues == NoEntry \notin OutboxEntry /\ NoCall \notin Call

VARIABLES
    cf,         \* CF_OUTBOX
    call,       \* call[t]: what thread t is in the middle of
    ret         \* ret[t]: what t's last call returned

vars == <<cf, call, ret>>

Result == {"Ok", "OutboxFull", "SectorNotFound"}

TypeOK ==
    /\ cf \in [Sectors -> OutboxEntry \cup {NoEntry}]
    /\ call \in [Threads -> Call \cup {NoCall}]
    /\ ret \in [Threads -> Result]

Present == {id \in Sectors : cf[id] # NoEntry}

Init ==
    /\ cf = [id \in Sectors |-> NoEntry]
    /\ call = [t \in Threads |-> NoCall]
    /\ ret = [t \in Threads |-> "Ok"]

----------------------------------------------------------------------------

Return(t, result) ==
    /\ call' = [call EXCEPT ![t] = NoCall]
    /\ ret' = [ret EXCEPT ![t] = result]

\* Mutant: enqueue does not look for an entry with the same id.
enqueue_M(t, id, when) ==
    /\ call[t] = NoCall
    /\ call' = [call EXCEPT ![t] = [pc |-> "count", id |-> id, read |-> cf[id],
                    entry |-> [attempt_count |-> 0, next_attempt |-> when]]]
    /\ UNCHANGED <<cf, ret>>

\* enqueue, its get_raw: an entry that exists makes it a no-op.
enqueue(t, id, when) ==
    /\ call[t] = NoCall
    /\ UNCHANGED cf
    /\ \/ /\ cf[id] # NoEntry
          /\ Return(t, "Ok")
       \/ /\ cf[id] = NoEntry
          /\ call' = [call EXCEPT ![t] = [pc |-> "count", id |-> id, read |-> cf[id],
                          entry |-> [attempt_count |-> 0, next_attempt |-> when]]]
          /\ UNCHANGED ret

\* Mutant: the comparison with the capacity is off by one.
count_M(t) ==
    /\ call[t] # NoCall /\ call[t].pc = "count"
    /\ UNCHANGED cf
    /\ \/ /\ Cardinality(Present) > Capacity
          /\ Return(t, "OutboxFull")
       \/ /\ Cardinality(Present) =< Capacity
          /\ call' = [call EXCEPT ![t].pc = "put"]
          /\ UNCHANGED ret

\* enqueue, its count(): one iterator, hence one snapshot of the entries.
count(t) ==
    /\ call[t] # NoCall /\ call[t].pc = "count"
    /\ UNCHANGED cf
    /\ \/ /\ Cardinality(Present) >= Capacity
          /\ Return(t, "OutboxFull")
       \/ /\ Cardinality(Present) < Capacity
          /\ call' = [call EXCEPT ![t].pc = "put"]
          /\ UNCHANGED ret

\* mark_attempted, its get_raw and the change of the decoded entry.
mark_attempted(t, id, when) ==
    /\ call[t] = NoCall
    /\ UNCHANGED cf
    /\ \/ /\ cf[id] = NoEntry
          /\ Return(t, "SectorNotFound")
       \/ /\ cf[id] # NoEntry
          /\ call' = [call EXCEPT ![t] = [pc |-> "put", id |-> id, read |-> cf[id],
                entry |-> [attempt_count |-> IF cf[id].attempt_count = MaxAttempt
                                             THEN MaxAttempt
                                             ELSE cf[id].attempt_count + 1,
                           next_attempt  |-> when]]]
          /\ UNCHANGED ret

\* put_raw, the last step of enqueue and of mark_attempted.
put(t) ==
    /\ call[t] # NoCall /\ call[t].pc = "put"
    /\ cf' = [cf EXCEPT ![call[t].id] = call[t].entry]
    /\ Return(t, "Ok")

\* remove: delete_raw, which succeeds whether or not the key exists.
remove(t, id) ==
    /\ call[t] = NoCall
    /\ cf' = [cf EXCEPT ![id] = NoEntry]
    /\ Return(t, "Ok")

\* The process stops; CF_OUTBOX survives.
Crash ==
    /\ \E t \in Threads : call[t] # NoCall
    /\ call' = [t \in Threads |-> NoCall]
    /\ UNCHANGED <<cf, ret>>

ThreadStep(t) ==
    \/ \E id \in Sectors :
        \/ \E when \in Times : enqueue(t, id, when) \/ mark_attempted(t, id, when)
        \/ remove(t, id)
    \/ count(t)
    \/ put(t)

Next == (\E t \in Threads : ThreadStep(t)) \/ Crash

Spec == Init /\ [][Next]_vars

----------------------------------------------------------------------------
(* Properties *)

\* Entries that exist or are about to be written.
Writing == {id \in Sectors :
               \E t \in Threads : call[t] # NoCall /\ call[t].pc = "put" /\ call[t].id = id}

\* The capacity check is made once per call and before the write, so every
\* thread can overshoot by the one entry it has in hand and by no more, also
\* when mark_attempted writes back an entry that was removed meanwhile.
BoundedOvershoot == Cardinality(Present) =< Capacity + Cardinality(Threads) - 1

\* "The queue is bounded; attempts to enqueue beyond capacity return OutboxFull."
WithinCapacity == Cardinality(Present) =< Capacity

\* The step writes to id from a call that read something else there.
StaleWrite(id) ==
    \E t \in Threads :
        /\ call[t] # NoCall /\ call[t].pc = "put" /\ call[t].id = id
        /\ call[t].read # cf[id]
        /\ cf'[id] = call[t].entry

\* Enqueueing a sector again never resets the attempts it has used up, unless
\* the calls of two threads overlap.
AttemptsNeverDecrease ==
    [][ \A id \in Sectors :
          (/\ cf[id] # NoEntry /\ cf'[id] # NoEntry
           /\ cf'[id].attempt_count < cf[id].attempt_count) => StaleWrite(id) ]_vars

\* What remove has acknowledged stays gone: only a new enqueue brings an entry
\* back, which starts from no attempts, or a mark_attempted that read the entry
\* before it was removed.
AppearsOnlyFresh ==
    [][ \A id \in Sectors :
          (/\ cf[id] = NoEntry /\ cf'[id] # NoEntry
           /\ cf'[id].attempt_count # 0) => StaleWrite(id) ]_vars
====
