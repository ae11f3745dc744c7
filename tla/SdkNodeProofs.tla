---- MODULE SdkNodeProofs ----
(***************************************************************************)
(* Theorems about the outbox, by itself and on a device (SdkNode), and     *)
(* about the machine keys, the shares, the sealed sectors and the contacts *)
(* on a device, for every capacity, every number of threads, accounts,     *)
(* keys, scopes and people, and every workload.                            *)
(***************************************************************************)
EXTENDS SdkNode, FiniteSetTheorems, SequenceTheorems, NaturalsInduction,
        WellFoundedInduction, TLAPS

----------------------------------------------------------------------------
(* The types of the outbox *)

\* The outbox starts empty.
LEMMA OutboxInitTypes == Init => TypeOK
  BY DEF Init, TypeOK, Result

\* No call writes anything but entries and results.
LEMMA OutboxTypeStep ==
    ASSUME TypeOK, [Next]_vars
    PROVE  TypeOK'
  <1> USE OutboxConstants, NoValues DEF TypeOK, Return, Result
  <1>1. ASSUME NEW t \in Threads, NEW id \in Sectors, NEW when \in Times,
               enqueue(t, id, when)
        PROVE  TypeOK'
    BY <1>1 DEF enqueue, Call, OutboxEntry
  <1>2. ASSUME NEW t \in Threads, NEW id \in Sectors, NEW when \in Times,
               mark_attempted(t, id, when)
        PROVE  TypeOK'
    <2>1. cf[id] # NoEntry => cf[id].attempt_count \in 0 .. MaxAttempt
      BY DEF OutboxEntry
    <2>2. QED
      BY <1>2, <2>1 DEF mark_attempted, Call, OutboxEntry
  <1>3. ASSUME NEW t \in Threads, NEW id \in Sectors, remove(t, id)
        PROVE  TypeOK'
    BY <1>3 DEF remove
  <1>4. ASSUME NEW t \in Threads, count(t) PROVE TypeOK'
    BY <1>4 DEF count, Call
  <1>5. ASSUME NEW t \in Threads, put(t) PROVE TypeOK'
    BY <1>5 DEF put, Call
  <1>6. CASE Crash
    BY <1>6 DEF Crash
  <1>7. CASE UNCHANGED vars
    BY <1>7 DEF vars
  <1>8. QED
    BY <1>1, <1>2, <1>3, <1>4, <1>5, <1>6, <1>7 DEF Next, ThreadStep

\* The outbox's variables keep their types: attempt_count never leaves the
\* range of a u8.
THEOREM TypeCorrect == Spec => []TypeOK
  BY OutboxInitTypes, OutboxTypeStep, PTL DEF Spec

----------------------------------------------------------------------------
(* The bound on the number of entries *)

\* Threads that each have one sector in hand have at most as many sectors as
\* there are threads.
LEMMA OnePerThread ==
    ASSUME NEW U \in SUBSET Threads, NEW f \in [U -> Sectors],
           NEW T \in SUBSET Sectors, \A id \in T : \E u \in U : f[u] = id
    PROVE  IsFiniteSet(T) /\ Cardinality(T) =< Cardinality(Threads)
  <1>1. IsFiniteSet(T) /\ Cardinality(T) \in Nat
    BY OutboxConstants, FS_Subset, FS_CardinalityType
  <1>2. IsFiniteSet(U) /\ Cardinality(U) =< Cardinality(Threads)
    BY OutboxConstants, FS_Subset
  <1>3. CASE T = {}
    BY <1>1, <1>3, OutboxConstants, FS_EmptySet, FS_CardinalityType
  <1>4. CASE T # {}
    <2>1. PICK id0 \in T : TRUE
      BY <1>4
    <2> DEFINE g == [u \in U |-> IF f[u] \in T THEN f[u] ELSE id0]
    <2>2. g \in Surjection(U, T)
      BY DEF Surjection
    <2>3. Cardinality(T) =< Cardinality(U)
      BY <1>2, <2>2, FS_Surjection
    <2>4. Cardinality(U) \in Nat /\ Cardinality(Threads) \in Nat
      BY <1>2, OutboxConstants, FS_CardinalityType
    <2>5. QED
      BY <1>1, <1>2, <2>3, <2>4
  <1>5. QED
    BY <1>3, <1>4

\* At any time the threads about to write hold at most one sector each.
LEMMA WritingBounded ==
    ASSUME TypeOK
    PROVE  IsFiniteSet(Writing) /\ Cardinality(Writing) =< Cardinality(Threads)
  <1> DEFINE U == {t \in Threads : call[t] # NoCall /\ call[t].pc = "put"}
             f == [t \in U |-> call[t].id]
  <1>1. U \in SUBSET Threads /\ f \in [U -> Sectors]
    BY DEF TypeOK, Call
  <1>2. Writing \in SUBSET Sectors /\ \A id \in Writing : \E u \in U : f[u] = id
    BY DEF Writing
  <1> HIDE DEF U, f
  <1>3. QED
    BY <1>1, <1>2, OnePerThread

\* Inductive: entries that exist or are about to be written.  A passed capacity
\* check adds one sector to Writing; the write itself only moves it; and
\* mark_attempted takes a sector that is already in the union.
BoundInv == Cardinality(Present \cup Writing) =< Capacity + Cardinality(Threads) - 1

\* Any number of threads: the outbox holds at most Capacity + |Threads| - 1
\* entries; with one thread, at most Capacity.
THEOREM OvershootBounded == Spec => []BoundedOvershoot
  <1> DEFINE Sizes == /\ Cardinality(Threads) \in Nat \ {0}
                      /\ \A S \in SUBSET Sectors : IsFiniteSet(S) /\ Cardinality(S) \in Nat
                      /\ \A S, T \in SUBSET Sectors :
                            S \subseteq T => Cardinality(S) =< Cardinality(T)
  <1>1. Sizes
    <2>1. Cardinality(Threads) \in Nat \ {0}
      BY OutboxConstants, FS_CardinalityType, FS_EmptySet
    <2>2. \A S \in SUBSET Sectors : IsFiniteSet(S) /\ Cardinality(S) \in Nat
      BY OutboxConstants, FS_Subset, FS_CardinalityType
    <2>3. \A S, T \in SUBSET Sectors : S \subseteq T => Cardinality(S) =< Cardinality(T)
      BY <2>2, FS_Subset
    <2>4. QED
      BY <2>1, <2>2, <2>3
  <1>2. Present \in SUBSET Sectors /\ Writing \in SUBSET Sectors
    BY DEF Present, Writing
  <1>3. (Present \in SUBSET Sectors /\ Writing \in SUBSET Sectors)'
    BY DEF Present, Writing
  <1>4. Init => BoundInv
    <2> SUFFICES ASSUME Init PROVE BoundInv
      OBVIOUS
    <2>1. Present \cup Writing = {}
      BY DEF Init, Present, Writing
    <2>2. Cardinality(Present \cup Writing) = 0
      BY <2>1, FS_EmptySet
    <2>3. QED
      BY <1>1, <2>2, OutboxConstants DEF BoundInv
  <1>5. TypeOK /\ TypeOK' /\ BoundInv /\ [Next]_vars => BoundInv'
    <2> SUFFICES ASSUME TypeOK, TypeOK', BoundInv, [Next]_vars PROVE BoundInv'
      OBVIOUS
    <2> USE NoValues
    <2>1. ASSUME (Present \cup Writing)' \subseteq Present \cup Writing
          PROVE  BoundInv'
      <3>1. Cardinality((Present \cup Writing)') =< Cardinality(Present \cup Writing)
        BY <1>1, <1>2, <1>3, <2>1
      <3>2. Cardinality((Present \cup Writing)') \in Nat /\ Cardinality(Present \cup Writing) \in Nat
        BY <1>1, <1>2, <1>3
      <3>3. QED
        BY <3>1, <3>2, <1>1, OutboxConstants DEF BoundInv
    <2>2. ASSUME NEW t \in Threads, NEW id \in Sectors, NEW when \in Times,
                 enqueue(t, id, when)
          PROVE  BoundInv'
      <3>1. (Present \cup Writing)' \subseteq Present \cup Writing
        BY <2>2 DEF enqueue, Return, Present, Writing, TypeOK
      <3>2. QED
        BY <2>1, <3>1
    <2>3. ASSUME NEW t \in Threads, NEW id \in Sectors, NEW when \in Times,
                 mark_attempted(t, id, when)
          PROVE  BoundInv'
      <3>1. (Present \cup Writing)' \subseteq Present \cup Writing
        BY <2>3 DEF mark_attempted, Return, Present, Writing, TypeOK
      <3>2. QED
        BY <2>1, <3>1
    <2>4. ASSUME NEW t \in Threads, NEW id \in Sectors, remove(t, id)
          PROVE  BoundInv'
      <3>1. (Present \cup Writing)' \subseteq Present \cup Writing
        BY <2>4 DEF remove, Return, Present, Writing, TypeOK
      <3>2. QED
        BY <2>1, <3>1
    <2>5. ASSUME NEW t \in Threads, count(t) PROVE BoundInv'
      <3>1. CASE Cardinality(Present) >= Capacity /\ Return(t, "OutboxFull")
        <4>1. (Present \cup Writing)' \subseteq Present \cup Writing
          BY <2>5, <3>1 DEF count, Return, Present, Writing, TypeOK
        <4>2. QED
          BY <2>1, <4>1
      <3>2. CASE Cardinality(Present) < Capacity
        <4>1. Present' = Present
          BY <2>5 DEF count, Present
        <4>2. IsFiniteSet(Writing') /\ Cardinality(Writing') =< Cardinality(Threads)
          <5>1. TypeOK' => (IsFiniteSet(Writing) /\ Cardinality(Writing) =< Cardinality(Threads))'
            BY WritingBounded, PTL
          <5>2. QED
            BY <5>1
        <4>3. Cardinality((Present \cup Writing)')
                = Cardinality(Present) + Cardinality(Writing') - Cardinality(Present \cap Writing')
          <5>1. IsFiniteSet(Present)
            BY <1>1, <1>2
          <5>2. QED
            BY <4>1, <4>2, <5>1, FS_Union
        <4>4. /\ Cardinality(Present) \in Nat /\ Cardinality(Writing') \in Nat
              /\ Cardinality(Present \cap Writing') \in Nat
          BY <1>1, <1>2, <1>3
        <4>5. QED
          BY <1>1, <3>2, <4>2, <4>3, <4>4, OutboxConstants DEF BoundInv
      <3>3. QED
        BY <2>5, <3>1, <3>2 DEF count
    <2>6. ASSUME NEW t \in Threads, put(t) PROVE BoundInv'
      <3>1. (Present \cup Writing)' \subseteq Present \cup Writing
        BY <2>6 DEF put, Return, Present, Writing, TypeOK, Call
      <3>2. QED
        BY <2>1, <3>1
    <2>7. CASE Crash
      <3>1. (Present \cup Writing)' \subseteq Present \cup Writing
        BY <2>7 DEF Crash, Present, Writing
      <3>2. QED
        BY <2>1, <3>1
    <2>8. CASE UNCHANGED vars
      <3>1. (Present \cup Writing)' \subseteq Present \cup Writing
        BY <2>8 DEF vars, Present, Writing
      <3>2. QED
        BY <2>1, <3>1
    <2>9. QED
      BY <2>2, <2>3, <2>4, <2>5, <2>6, <2>7, <2>8 DEF Next, ThreadStep
  <1>6. BoundInv => BoundedOvershoot
    <2>1. /\ Cardinality(Present) =< Cardinality(Present \cup Writing)
          /\ Cardinality(Present) \in Nat /\ Cardinality(Present \cup Writing) \in Nat
      BY <1>1, <1>2
    <2>2. QED
      BY <2>1, <1>1, OutboxConstants DEF BoundInv, BoundedOvershoot
  <1>7. QED
    BY <1>4, <1>5, <1>6, TypeCorrect, PTL DEF Spec

----------------------------------------------------------------------------
(* One thread *)

\* With one thread the capacity is never exceeded.
THEOREM SequentialCapacity ==
    ASSUME NEW t0, Threads = {t0}
    PROVE  Spec => []WithinCapacity
  <1>1. Cardinality(Threads) = 1
    BY FS_Singleton
  <1>2. Cardinality(Present) \in Nat
    BY OutboxConstants, FS_Subset, FS_CardinalityType DEF Present
  <1>3. BoundedOvershoot => WithinCapacity
    BY <1>1, <1>2, OutboxConstants DEF BoundedOvershoot, WithinCapacity
  <1>4. QED
    BY <1>3, OvershootBounded, PTL

----------------------------------------------------------------------------
(* What a write makes of an entry *)

\* Inductive: an enqueue has read nothing and writes no attempts, and a
\* mark_attempted writes no fewer attempts than it has read.
ReadInv ==
    \A t \in Threads : call[t] # NoCall =>
        /\ call[t].read = NoEntry => call[t].entry.attempt_count = 0
        /\ call[t].read # NoEntry =>
              call[t].entry.attempt_count >= call[t].read.attempt_count

\* Every call keeps to what it has read.
LEMMA ReadInvariant == Spec => []ReadInv
  <1>1. Init => ReadInv
    BY DEF Init, ReadInv
  <1>2. TypeOK /\ ReadInv /\ [Next]_vars => ReadInv'
    <2> SUFFICES ASSUME TypeOK, ReadInv, [Next]_vars PROVE ReadInv'
      OBVIOUS
    <2> USE NoValues, OutboxConstants DEF ReadInv, TypeOK, Return
    <2>1. ASSUME NEW t \in Threads, NEW id \in Sectors, NEW when \in Times,
                 enqueue(t, id, when)
          PROVE  ReadInv'
      BY <2>1 DEF enqueue
    <2>2. ASSUME NEW t \in Threads, NEW id \in Sectors, NEW when \in Times,
                 mark_attempted(t, id, when)
          PROVE  ReadInv'
      <3>1. cf[id] # NoEntry => cf[id].attempt_count \in 0 .. MaxAttempt
        BY DEF OutboxEntry
      <3>2. QED
        BY <2>2, <3>1 DEF mark_attempted
    <2>3. ASSUME NEW t \in Threads, NEW id \in Sectors, remove(t, id)
          PROVE  ReadInv'
      BY <2>3 DEF remove
    <2>4. ASSUME NEW t \in Threads, count(t) PROVE ReadInv'
      BY <2>4 DEF count, Call
    <2>5. ASSUME NEW t \in Threads, put(t) PROVE ReadInv'
      BY <2>5 DEF put
    <2>6. CASE Crash
      BY <2>6 DEF Crash
    <2>7. CASE UNCHANGED vars
      BY <2>7 DEF vars
    <2>8. QED
      BY <2>1, <2>2, <2>3, <2>4, <2>5, <2>6, <2>7 DEF Next, ThreadStep
  <1>3. QED
    BY <1>1, <1>2, TypeCorrect, PTL DEF Spec

\* The only steps that write an entry are the puts.
LEMMA EntryWrites ==
    ASSUME TypeOK, Next, NEW id \in Sectors, cf'[id] # cf[id], cf'[id] # NoEntry
    PROVE  \E t \in Threads :
              /\ call[t] # NoCall /\ call[t].pc = "put"
              /\ call[t].id = id /\ cf'[id] = call[t].entry
  <1>1. ASSUME NEW t \in Threads, NEW id1 \in Sectors, NEW when \in Times,
               enqueue(t, id1, when) \/ mark_attempted(t, id1, when)
        PROVE  FALSE
    BY <1>1 DEF enqueue, mark_attempted
  <1>2. ASSUME NEW t \in Threads, count(t) PROVE FALSE
    BY <1>2 DEF count
  <1>3. ASSUME NEW t \in Threads, NEW id1 \in Sectors, remove(t, id1) PROVE FALSE
    BY <1>3 DEF remove, TypeOK
  <1>4. ASSUME NEW t \in Threads, put(t)
        PROVE  /\ call[t] # NoCall /\ call[t].pc = "put"
               /\ call[t].id = id /\ cf'[id] = call[t].entry
    BY <1>4 DEF put, TypeOK, Call
  <1>5. CASE Crash
    BY <1>5 DEF Crash
  <1>6. QED
    BY <1>1, <1>2, <1>3, <1>4, <1>5 DEF Next, ThreadStep

\* With any number of threads, only a write that overlaps another one gives
\* back attempts that an entry has used up.
THEOREM AttemptsKept == Spec => AttemptsNeverDecrease
  <1>1. TypeOK /\ ReadInv /\ [Next]_vars =>
          [ \A id \in Sectors :
              (/\ cf[id] # NoEntry /\ cf'[id] # NoEntry
               /\ cf'[id].attempt_count < cf[id].attempt_count) => StaleWrite(id) ]_vars
    <2> SUFFICES ASSUME TypeOK, ReadInv, Next, NEW id \in Sectors,
                        cf[id] # NoEntry, cf'[id] # NoEntry,
                        cf'[id].attempt_count < cf[id].attempt_count
                 PROVE  StaleWrite(id)
      OBVIOUS
    <2>1. cf[id].attempt_count \in Int
      BY OutboxConstants DEF TypeOK, OutboxEntry
    <2>2. cf'[id] # cf[id]
      BY <2>1
    <2>3. PICK t \in Threads : /\ call[t] # NoCall /\ call[t].pc = "put"
                               /\ call[t].id = id /\ cf'[id] = call[t].entry
      BY <2>2, EntryWrites
    <2>4. call[t].entry.attempt_count \in Int
      BY <2>3, OutboxConstants DEF TypeOK, Call, OutboxEntry
    <2>5. call[t].read # cf[id]
      BY <2>1, <2>3, <2>4 DEF ReadInv
    <2>6. QED
      BY <2>3, <2>5 DEF StaleWrite
  <1>2. QED
    BY <1>1, ReadInvariant, TypeCorrect, PTL DEF Spec, AttemptsNeverDecrease

\* With any number of threads, an acknowledged entry comes back with attempts
\* used up only by a mark_attempted that had read it before.
THEOREM AckKept == Spec => AppearsOnlyFresh
  <1>1. TypeOK /\ ReadInv /\ [Next]_vars =>
          [ \A id \in Sectors :
              (/\ cf[id] = NoEntry /\ cf'[id] # NoEntry
               /\ cf'[id].attempt_count # 0) => StaleWrite(id) ]_vars
    <2> SUFFICES ASSUME TypeOK, ReadInv, Next, NEW id \in Sectors,
                        cf[id] = NoEntry, cf'[id] # NoEntry,
                        cf'[id].attempt_count # 0
                 PROVE  StaleWrite(id)
      OBVIOUS
    <2>1. PICK t \in Threads : /\ call[t] # NoCall /\ call[t].pc = "put"
                               /\ call[t].id = id /\ cf'[id] = call[t].entry
      BY EntryWrites
    <2>2. call[t].read # cf[id]
      BY <2>1 DEF ReadInv
    <2>3. QED
      BY <2>1, <2>2 DEF StaleWrite
  <1>2. QED
    BY <1>1, ReadInvariant, TypeCorrect, PTL DEF Spec, AppearsOnlyFresh

----------------------------------------------------------------------------
(* The outbox on a device *)

\* What a device does is, to the outbox, a step of the outbox: a call, or the
\* loss of the calls under way when the process stops, or nothing.
LEMMA NodeOutboxStep ==
    ASSUME TypeOK, [NodeNext]_nodeVars
    PROVE  [Next]_vars
  <1>1. ASSUME NEW k, NEW cfg, SetUp(k, cfg) PROVE [Next]_vars
    BY <1>1 DEF SetUp
  <1>2. ASSUME NEW picked, NEW threshold, Start(picked, threshold) PROVE [Next]_vars
    BY <1>2 DEF Start
  <1>3. CASE Stop
    <2>1. call' = [t \in Threads |-> NoCall] /\ UNCHANGED <<cf, ret>>
      BY <1>3 DEF Stop
    <2>2. CASE \E t \in Threads : call[t] # NoCall
      BY <2>1, <2>2 DEF Next, Crash
    <2>3. CASE \A t \in Threads : call[t] = NoCall
      BY <2>1, <2>3 DEF vars, TypeOK
    <2>. QED
      BY <2>2, <2>3
  <1>4. ASSUME NEW t \in KeyThreads, KeyStep(t) PROVE [Next]_vars
    BY <1>4 DEF KeyStep
  <1>5. CASE ContactStep \/ SectorStep \/ PeerStep
    BY <1>5 DEF ContactStep, SectorStep, PeerStep
  <1>6. ASSUME NEW t \in Threads, OutboxStep(t) PROVE [Next]_vars
    BY <1>6 DEF OutboxStep, Next
  <1>7. CASE UNCHANGED nodeVars
    BY <1>7 DEF nodeVars
  <1>. QED
    BY <1>1, <1>2, <1>3, <1>4, <1>5, <1>6, <1>7 DEF NodeNext

\* A device implements the outbox: whatever holds of the outbox and its threads
\* holds with processes that start and stop, for any accounts and workloads.
THEOREM NodeImplementsOutbox == NodeSpec => Spec
  <1>1. NodeInit => Init /\ TypeOK
    BY OutboxInitTypes DEF NodeInit
  <1>. QED
    BY <1>1, OutboxTypeStep, NodeOutboxStep, PTL DEF NodeSpec, Spec

\* On a device the outbox exceeds its capacity by less than the number of
\* threads, also over restarts (Outbox::enqueue, mark_attempted).
THEOREM NodeOvershootBounded == NodeSpec => []BoundedOvershoot
  BY NodeImplementsOutbox, OvershootBounded, PTL

\* On a device only a write that overlaps another one gives attempts back.
THEOREM NodeAttemptsKept == NodeSpec => AttemptsNeverDecrease
  BY NodeImplementsOutbox, AttemptsKept, PTL

----------------------------------------------------------------------------
(* Machine keys and shares: the inductive invariant *)

IsList(s) == Len(s) \in Nat /\ s = [i \in 1 .. Len(s) |-> s[i]]

Ids(s) == {s[i].machine_id : i \in DOMAIN s}

\* The public keys and the pair of a record come from its seeds.
RecordOK(r) ==
    /\ r.ed25519_pub = <<"Ed25519", r.seeds.sign>> /\ r.pair.seeds.sign = r.seeds.sign
    /\ r.mldsa65_pub = <<"MLDSA", r.seeds.pq_sign>> /\ r.pair.seeds.pq_sign = r.seeds.pq_sign

\* A store whose records were returned to a caller, each at one place; n keys
\* were drawn so far.
KeyStoreOK(s, returned, n) ==
    /\ IsList(s)
    /\ \A i \in DOMAIN s : /\ RecordOK(s[i])
                           /\ MachineKeyRecord(s[i]) \in returned
                           /\ s[i].machine_id \in 1 .. n
    /\ \A i, j \in DOMAIN s : s[i].machine_id = s[j].machine_id => i = j

\* What from_sealed_bytes makes of a blob it can open.
Restored(b) == [i \in DOMAIN b.entries |-> RecordOf(b.entries[i])]

\* A blob sealed for a key, which restores to such a store.
SealedOK(key, b, returned, n) ==
    /\ b.aead = aead_from_neural_key(key) /\ b.version = SEAL_VERSION
    /\ KeyStoreOK(Restored(b), returned, n)

\* A thread that is about to push a record is the only one that has its id.
Pushes(t, b) == b[t] # Idle /\ "push" \in DOMAIN b[t]

BusyOK(b, s, returned, n) ==
    \A t \in KeyThreads :
        /\ Pushes(t, b) =>
              /\ RecordOK(b[t].push)
              /\ b[t].push.machine_id \in (1 .. n) \ Ids(s)
              /\ \A u \in KeyThreads : (Pushes(u, b) /\ u # t) =>
                    b[u].push.machine_id # b[t].push.machine_id
        /\ (b[t] # Idle /\ "write" \in DOMAIN b[t]) =>
              SealedOK(b[t].file, b[t].write, returned, n)

BlobsOK(bl, returned, n) ==
    \A k \in NeuralKey : bl[k] # NoBlob => bl[k] = <<bl[k][1]>> /\ SealedOK(k, bl[k][1], returned, n)

\* The shares of an account are those of one configuration.
ConfigOK(cfg) ==
    /\ cfg.threshold \in Nat \ {0} /\ cfg.total \in Nat
    /\ cfg.threshold =< cfg.total /\ cfg.total =< MAX_SHARES

SharesOK(sh) ==
    \A k \in NeuralKey : sh[k] # NoShares =>
        LET cfg == [threshold |-> sh[k].threshold, total |-> Len(sh[k].shares)]
        IN  /\ ConfigOK(cfg) /\ k # Stranger
            /\ sh[k].shares = [i \in 1 .. cfg.total |-> Share(k, cfg, i)]

KeysInv ==
    /\ busy = [t \in KeyThreads |-> busy[t]] /\ blob = [k \in NeuralKey |-> blob[k]]
    /\ shares = [k \in NeuralKey |-> shares[k]] /\ drawn \in Nat
    /\ using \in Workloads
    /\ sdk = NotRunning => \A t \in KeyThreads : busy[t] = Idle
    /\ held \subseteq Ids(entries)
    /\ KeyStoreOK(entries, issued, drawn)
    /\ BusyOK(busy, entries, issued, drawn)
    /\ BlobsOK(blob, issued, drawn)
    /\ SharesOK(shares)

----------------------------------------------------------------------------
(* Facts about lists of records *)

\* A function on 1 .. n is a list of length n.
LEMMA ListOf ==
    ASSUME NEW n \in Nat, NEW f, f = [i \in 1 .. n |-> f[i]]
    PROVE  IsList(f) /\ Len(f) = n /\ DOMAIN f = 1 .. n
  <1>1. f \in Seq({f[i] : i \in 1 .. n}) /\ DOMAIN f = 1 .. n
    OBVIOUS
  <1>2. Len(f) = n
    BY <1>1
  <1>. QED
    BY <1>1, <1>2 DEF IsList

\* Appending a record to a list leaves the places before it alone.
LEMMA AppendList ==
    ASSUME NEW s, IsList(s), NEW r
    PROVE  /\ IsList(Append(s, r))
           /\ DOMAIN s = 1 .. Len(s) /\ Len(s) \in Nat
           /\ DOMAIN Append(s, r) = 1 .. Len(s) + 1
           /\ Append(s, r)[Len(s) + 1] = r
           /\ \A i \in 1 .. Len(s) : Append(s, r)[i] = s[i]
  <1>. DEFINE S == {s[i] : i \in 1 .. Len(s)} \cup {r}
  <1>1. Len(s) \in Nat /\ s = [i \in 1 .. Len(s) |-> s[i]]
    BY DEF IsList
  <1>2. DOMAIN s = 1 .. Len(s) /\ s \in Seq(S) /\ r \in S
    BY <1>1
  <1>. HIDE DEF S
  <1>3. /\ Append(s, r) \in Seq(S) /\ Len(Append(s, r)) = Len(s) + 1
        /\ Append(s, r)[Len(s) + 1] = r
        /\ \A i \in 1 .. Len(s) : Append(s, r)[i] = s[i]
    BY <1>1, <1>2
  <1>4. DOMAIN Append(s, r) = 1 .. Len(s) + 1
    BY <1>3
  <1>5. IsList(Append(s, r))
    <2>1. PICK a : a = Append(s, r)
      OBVIOUS
    <2>0. a \in Seq(S)
      BY <1>3, <2>1
    <2>2. a \in [1 .. Len(a) -> S] /\ Len(a) \in Nat
      BY <2>0, LenProperties
    <2>3. a = [i \in 1 .. Len(a) |-> a[i]]
      BY <2>2
    <2>. QED
      BY <2>1, <2>2, <2>3 DEF IsList
  <1>. QED
    BY <1>1, <1>2, <1>3, <1>4, <1>5

\* An empty store is well formed.
LEMMA EmptyStore ==
    ASSUME NEW s, s = <<>>, NEW R, NEW n
    PROVE  KeyStoreOK(s, R, n)
  <1>1. DOMAIN s = {} /\ 1 .. 0 = {} /\ Len(s) = 0
    OBVIOUS
  <1>2. s = [i \in 1 .. 0 |-> s[i]]
    BY <1>1
  <1>3. IsList(s)
    BY <1>1, <1>2 DEF IsList
  <1>. QED
    BY <1>1, <1>3 DEF KeyStoreOK

\* More keys drawn and more records returned do not matter to what is stored.
LEMMA StoreKept ==
    ASSUME NEW n \in Nat, NEW n2 \in Nat, n =< n2, NEW R, NEW R2, R \subseteq R2,
           NEW s, KeyStoreOK(s, R, n)
    PROVE  KeyStoreOK(s, R2, n2)
  BY DEF KeyStoreOK

\* A sealed blob stays as it should be when more is drawn and issued.
LEMMA SealedKept ==
    ASSUME NEW n \in Nat, NEW n2 \in Nat, n =< n2, NEW R, NEW R2, R \subseteq R2,
           NEW key, NEW b, SealedOK(key, b, R, n)
    PROVE  SealedOK(key, b, R2, n2)
  BY StoreKept DEF SealedOK

\* So do the blobs of all keys.
LEMMA BlobsKept ==
    ASSUME NEW n \in Nat, NEW n2 \in Nat, n =< n2, NEW R, NEW R2, R \subseteq R2,
           NEW bl, BlobsOK(bl, R, n)
    PROVE  BlobsOK(bl, R2, n2)
  BY SealedKept DEF BlobsOK

\* EntryRecord derives what it should, and keeps the number of the draw as id.
LEMMA NewRecord ==
    ASSUME NEW key, NEW n, NEW bits, NEW ep
    PROVE  /\ RecordOK(EntryRecord(key, n, bits, ep))
           /\ EntryRecord(key, n, bits, ep).machine_id = n
  <1>1. PICK sd : sd = [f \in Seeds |-> <<n, f>>]
    OBVIOUS
  <1>2. PICK r : r = EntryRecord(key, n, bits, ep)
    OBVIOUS
  <1>3. /\ r.machine_id = n /\ r.seeds = sd /\ r.pair.seeds = sd
        /\ r.ed25519_pub = <<"Ed25519", sd.sign>> /\ r.mldsa65_pub = <<"MLDSA", sd.pq_sign>>
    BY <1>1, <1>2 DEF EntryRecord, derive_pair_and_public
  <1>. QED
    BY <1>2, <1>3 DEF RecordOK

\* Sealing and restoring a record gives it back as its caller knows it, with a
\* pair that fits its public keys.
LEMMA SealRoundTrip ==
    ASSUME NEW r
    PROVE  /\ RecordOK(RecordOf(from_record(r)))
           /\ RecordOf(from_record(r)).machine_id = r.machine_id
           /\ RecordOK(r) => MachineKeyRecord(RecordOf(from_record(r))) = MachineKeyRecord(r)
  <1>1. PICK e : e = from_record(r)
    OBVIOUS
  <1>2. /\ e.identity_id = r.identity_id /\ e.machine_id = r.machine_id
        /\ e.capabilities = r.capabilities /\ e.epoch = r.epoch
        /\ e.sign_seed = r.seeds.sign /\ e.pq_sign_seed = r.seeds.pq_sign
    BY <1>1 DEF from_record
  <1>3. PICK sd : sd = SealedSeeds(e)
    OBVIOUS
  <1>4. sd.sign = e.sign_seed /\ sd.pq_sign = e.pq_sign_seed
    BY <1>3 DEF SealedSeeds
  <1>5. PICK x : x = RecordOf(e)
    OBVIOUS
  <1>6. /\ x.identity_id = e.identity_id /\ x.machine_id = e.machine_id
        /\ x.capabilities = e.capabilities /\ x.epoch = e.epoch
        /\ x.seeds = sd /\ x.pair.seeds = sd
        /\ x.ed25519_pub = <<"Ed25519", sd.sign>> /\ x.mldsa65_pub = <<"MLDSA", sd.pq_sign>>
    BY <1>3, <1>5 DEF RecordOf, derive_pair_and_public
  <1>7. RecordOK(x)
    BY <1>6 DEF RecordOK
  <1>8. RecordOK(r) => MachineKeyRecord(x) = MachineKeyRecord(r)
    BY <1>2, <1>4, <1>6 DEF RecordOK, MachineKeyRecord
  <1>. QED
    BY <1>1, <1>2, <1>5, <1>6, <1>7, <1>8

----------------------------------------------------------------------------
(* The calls on the key store *)

\* generate_machine_key_with, up to the lock.
LEMMA DeriveStep ==
    ASSUME KeysInv, NEW t \in KeyThreads, NEW key, NEW request,
           derive_machine_key(t, key, request), sdk # NotRunning,
           UNCHANGED <<using, shares, sdk>>
    PROVE  KeysInv'
  <1>1. /\ drawn \in Nat /\ drawn' = drawn + 1 /\ busy[t] = Idle
        /\ UNCHANGED <<entries, blob, issued, held>>
    BY DEF KeysInv, derive_machine_key
  <1>2. PICK new : new = EntryRecord(key, drawn', request[1], request[2])
    OBVIOUS
  <1>3. RecordOK(new) /\ new.machine_id = drawn + 1
    BY <1>1, <1>2, NewRecord
  <1>5. \/ busy' = [busy EXCEPT ![t] = Idle]
        \/ busy' = [busy EXCEPT ![t] = [push |-> new]]
    <2>1. PICK r \in Derivation(new) :
             busy' = [busy EXCEPT ![t] = IF "ok" \in DOMAIN r THEN [push |-> r.ok] ELSE Idle]
      BY <1>2 DEF derive_machine_key
    <2>2. CASE r = [ok |-> new]
      BY <2>1, <2>2
    <2>3. CASE r = [err |-> "SealError"] \/ r = [err |-> "Zid"]
      BY <2>1, <2>3
    <2>. QED
      BY <2>2, <2>3 DEF Derivation, run_on_big_stack
  <1>6. /\ busy' = [u \in KeyThreads |-> busy'[u]]
        /\ \A u \in KeyThreads \ {t} : busy'[u] = busy[u]
        /\ busy'[t] = Idle \/ busy'[t] = [push |-> new]
    BY <1>5 DEF KeysInv
  <1>7. KeyStoreOK(entries, issued, drawn + 1) /\ BlobsOK(blob, issued, drawn + 1)
    <2>1. KeyStoreOK(entries, issued, drawn) /\ BlobsOK(blob, issued, drawn)
      BY DEF KeysInv
    <2>2. drawn \in Nat /\ drawn + 1 \in Nat /\ drawn =< drawn + 1 /\ issued \subseteq issued
      BY <1>1
    <2>3. KeyStoreOK(entries, issued, drawn + 1)
      BY <2>1, <2>2, StoreKept
    <2>4. BlobsOK(blob, issued, drawn + 1)
      BY <2>1, <2>2, BlobsKept
    <2>. QED
      BY <2>3, <2>4
  <1>8. BusyOK(busy', entries, issued, drawn + 1)
    <2>1. BusyOK(busy, entries, issued, drawn) /\ KeyStoreOK(entries, issued, drawn)
      BY DEF KeysInv
    <2>2. drawn + 1 \notin Ids(entries)
      BY <1>1, <2>1 DEF KeyStoreOK, Ids
    <2>3. ASSUME NEW u \in KeyThreads, Pushes(u, busy'), u # t
          PROVE  /\ RecordOK(busy'[u].push)
                 /\ busy'[u].push.machine_id \in (1 .. drawn) \ Ids(entries)
                 /\ Pushes(u, busy) /\ busy'[u] = busy[u]
      BY <1>6, <2>1, <2>3 DEF BusyOK, Pushes
    <2>4. ASSUME Pushes(t, busy')
          PROVE  busy'[t].push = new
      BY <1>6, <2>4 DEF Pushes
    <2>5. ASSUME NEW u \in KeyThreads, Pushes(u, busy')
          PROVE  /\ RecordOK(busy'[u].push)
                 /\ busy'[u].push.machine_id \in (1 .. drawn + 1) \ Ids(entries)
      BY <1>1, <1>3, <2>2, <2>3, <2>4, <2>5
    <2>6. ASSUME NEW u \in KeyThreads, NEW w \in KeyThreads, u # w,
                 Pushes(u, busy'), Pushes(w, busy')
          PROVE  busy'[w].push.machine_id # busy'[u].push.machine_id
      <3>1. CASE u = t
        BY <1>1, <1>3, <2>3, <2>4, <2>6, <3>1
      <3>2. CASE w = t
        BY <1>1, <1>3, <2>3, <2>4, <2>6, <3>2
      <3>3. CASE u # t /\ w # t
        BY <2>1, <2>3, <2>6, <3>3 DEF BusyOK
      <3>. QED
        BY <3>1, <3>2, <3>3
    <2>7. ASSUME NEW u \in KeyThreads, busy'[u] # Idle, "write" \in DOMAIN busy'[u]
          PROVE  SealedOK(busy'[u].file, busy'[u].write, issued, drawn + 1)
      <3>1. u # t
        BY <1>6, <2>7
      <3>2. SealedOK(busy[u].file, busy[u].write, issued, drawn) /\ busy'[u] = busy[u]
        BY <1>6, <2>1, <2>7, <3>1 DEF BusyOK
      <3>. QED
        BY <1>1, <3>2, SealedKept
    <2>. QED
      BY <2>5, <2>6, <2>7 DEF BusyOK
  <1>. QED
    BY <1>1, <1>6, <1>7, <1>8 DEF KeysInv

\* ... and under it.
LEMMA PushStep ==
    ASSUME KeysInv, NEW t \in KeyThreads, push_machine_key(t), sdk # NotRunning,
           UNCHANGED <<using, shares, sdk>>
    PROVE  KeysInv'
  <1>1. PICK r : r = busy[t].push
    OBVIOUS
  <1>2. PICK new : new = Append(entries, r)
    OBVIOUS
  <1>3. PICK R : R = issued \cup {MachineKeyRecord(r)}
    OBVIOUS
  <1>4. /\ Pushes(t, busy) /\ entries' = new /\ issued' = R
        /\ held' = held \cup {r.machine_id}
        /\ busy' = [busy EXCEPT ![t] = Idle]
        /\ UNCHANGED <<blob, drawn>>
    BY <1>1, <1>2, <1>3 DEF push_machine_key, Pushes
  <1>5. /\ BusyOK(busy, entries, issued, drawn) /\ KeyStoreOK(entries, issued, drawn)
        /\ drawn \in Nat /\ held \subseteq Ids(entries)
    BY DEF KeysInv
  <1>6. /\ RecordOK(r) /\ r.machine_id \in (1 .. drawn) \ Ids(entries)
        /\ \A u \in KeyThreads : (Pushes(u, busy) /\ u # t) =>
              busy[u].push.machine_id # r.machine_id
    BY <1>1, <1>4, <1>5 DEF BusyOK
  <1>7. /\ IsList(new) /\ Len(entries) \in Nat
        /\ DOMAIN entries = 1 .. Len(entries) /\ DOMAIN new = 1 .. Len(entries) + 1
        /\ new[Len(entries) + 1] = r
        /\ \A i \in 1 .. Len(entries) : new[i] = entries[i]
    <2>1. IsList(entries)
      BY <1>5 DEF KeyStoreOK
    <2>. QED
      BY <1>2, <2>1, AppendList
  <1>8. Ids(new) = Ids(entries) \cup {r.machine_id}
    <2>1. \A i \in DOMAIN new : i \in DOMAIN entries \/ i = Len(entries) + 1
      BY <1>7
    <2>2. DOMAIN entries \subseteq DOMAIN new /\ Len(entries) + 1 \in DOMAIN new
      BY <1>7
    <2>. QED
      BY <1>7, <2>1, <2>2 DEF Ids
  <1>9. KeyStoreOK(new, R, drawn)
    <2>1. ASSUME NEW i \in DOMAIN new
          PROVE  /\ RecordOK(new[i]) /\ MachineKeyRecord(new[i]) \in R
                 /\ new[i].machine_id \in 1 .. drawn
      <3>1. CASE i = Len(entries) + 1
        BY <1>3, <1>6, <1>7, <3>1
      <3>2. CASE i \in DOMAIN entries
        BY <1>3, <1>5, <1>7, <3>2 DEF KeyStoreOK
      <3>. QED
        BY <1>7, <3>1, <3>2
    <2>2. ASSUME NEW i \in DOMAIN new, NEW j \in DOMAIN new, new[i].machine_id = new[j].machine_id
          PROVE  i = j
      <3>1. \A x \in DOMAIN entries : new[x].machine_id # r.machine_id
        BY <1>6, <1>7 DEF Ids
      <3>2. CASE i \in DOMAIN entries /\ j \in DOMAIN entries
        BY <1>5, <1>7, <2>2, <3>2 DEF KeyStoreOK
      <3>3. CASE i = Len(entries) + 1 \/ j = Len(entries) + 1
        BY <1>7, <2>2, <3>1, <3>3
      <3>. QED
        BY <1>7, <3>2, <3>3
    <2>. QED
      BY <1>7, <2>1, <2>2 DEF KeyStoreOK
  <1>10. /\ busy' = [u \in KeyThreads |-> busy'[u]] /\ busy'[t] = Idle
         /\ \A u \in KeyThreads \ {t} : busy'[u] = busy[u]
    BY <1>4 DEF KeysInv
  <1>11. BusyOK(busy', new, R, drawn)
    <2>1. ASSUME NEW u \in KeyThreads, Pushes(u, busy')
          PROVE  u # t /\ Pushes(u, busy) /\ busy'[u] = busy[u]
      BY <1>10, <2>1 DEF Pushes
    <2>2. ASSUME NEW u \in KeyThreads, Pushes(u, busy')
          PROVE  /\ RecordOK(busy'[u].push)
                 /\ busy'[u].push.machine_id \in (1 .. drawn) \ Ids(new)
                 /\ \A w \in KeyThreads : (Pushes(w, busy') /\ w # u) =>
                       busy'[w].push.machine_id # busy'[u].push.machine_id
      BY <1>5, <1>6, <1>8, <2>1, <2>2 DEF BusyOK
    <2>3. ASSUME NEW u \in KeyThreads, busy'[u] # Idle, "write" \in DOMAIN busy'[u]
          PROVE  SealedOK(busy'[u].file, busy'[u].write, R, drawn)
      <3>1. SealedOK(busy[u].file, busy[u].write, issued, drawn) /\ busy'[u] = busy[u]
        BY <1>5, <1>10, <2>3 DEF BusyOK
      <3>. QED
        BY <1>3, <1>5, <3>1, SealedKept
    <2>. QED
      BY <2>2, <2>3 DEF BusyOK
  <1>12. BlobsOK(blob, R, drawn)
    BY <1>3, <1>5, BlobsKept DEF KeysInv
  <1>. QED
    BY <1>4, <1>5, <1>8, <1>9, <1>10, <1>11, <1>12 DEF KeysInv

\* to_sealed_bytes, called by the application.
LEMMA SealStep ==
    ASSUME KeysInv, NEW t \in KeyThreads, NEW key, seal(t, key), sdk # NotRunning,
           UNCHANGED <<using, shares, sdk>>
    PROVE  KeysInv'
  <1>1. /\ BusyOK(busy, entries, issued, drawn) /\ KeyStoreOK(entries, issued, drawn)
    BY DEF KeysInv
  <1>2. PICK b : b = to_sealed_bytes(key)
    OBVIOUS
  <1>3. PICK v : v = [write |-> b, file |-> key, returned |-> held, over |-> blob[key]]
    OBVIOUS
  <1>4. busy' = [busy EXCEPT ![t] = v] /\ UNCHANGED <<entries, blob, drawn, issued, held>>
    BY <1>2, <1>3 DEF seal
  <1>5. PICK es : es = [i \in DOMAIN entries |-> from_record(entries[i])]
    OBVIOUS
  <1>6. /\ b.aead = aead_from_neural_key(key) /\ b.version = SEAL_VERSION
        /\ b.entries = es
    BY <1>2, <1>5 DEF to_sealed_bytes
  <1>7. PICK rs : rs = Restored(b)
    OBVIOUS
  <1>8. /\ DOMAIN entries = 1 .. Len(entries) /\ Len(entries) \in Nat
        /\ IsList(rs) /\ DOMAIN rs = 1 .. Len(entries)
        /\ \A i \in DOMAIN entries : rs[i] = RecordOf(from_record(entries[i]))
    <2>1. DOMAIN entries = 1 .. Len(entries) /\ Len(entries) \in Nat
      <3>1. IsList(entries)
        BY <1>1 DEF KeyStoreOK
      <3>. QED
        BY <3>1, AppendList
    <2>2. rs = [i \in DOMAIN entries |-> RecordOf(es[i])]
      BY <1>5, <1>6, <1>7 DEF Restored
    <2>3. rs = [i \in 1 .. Len(entries) |-> rs[i]]
      BY <2>1, <2>2
    <2>4. IsList(rs) /\ DOMAIN rs = 1 .. Len(entries)
      BY <2>1, <2>3, ListOf
    <2>. QED
      BY <1>5, <2>1, <2>2, <2>4
  <1>9. ASSUME NEW i \in DOMAIN rs
        PROVE  /\ i \in DOMAIN entries /\ rs[i].machine_id = entries[i].machine_id
               /\ RecordOK(rs[i]) /\ MachineKeyRecord(rs[i]) \in issued
               /\ rs[i].machine_id \in 1 .. drawn
    <2>1. i \in DOMAIN entries /\ rs[i] = RecordOf(from_record(entries[i]))
      BY <1>8
    <2>2. /\ RecordOK(entries[i]) /\ MachineKeyRecord(entries[i]) \in issued
          /\ entries[i].machine_id \in 1 .. drawn
      BY <1>1, <2>1 DEF KeyStoreOK
    <2>3. /\ RecordOK(rs[i]) /\ rs[i].machine_id = entries[i].machine_id
          /\ MachineKeyRecord(rs[i]) = MachineKeyRecord(entries[i])
      BY <2>1, <2>2, SealRoundTrip
    <2>. QED
      BY <2>1, <2>2, <2>3
  <1>10. KeyStoreOK(rs, issued, drawn)
    BY <1>1, <1>8, <1>9 DEF KeyStoreOK
  <1>12. SealedOK(key, b, issued, drawn)
    BY <1>6, <1>7, <1>10 DEF SealedOK
  <1>13. /\ busy' = [u \in KeyThreads |-> busy'[u]] /\ busy'[t] = v
         /\ \A u \in KeyThreads \ {t} : busy'[u] = busy[u]
    BY <1>4 DEF KeysInv
  <1>14. v.write = b /\ v.file = key /\ ~Pushes(t, busy')
    BY <1>3, <1>13 DEF Pushes
  <1>15. BusyOK(busy', entries, issued, drawn)
    <2>1. ASSUME NEW u \in KeyThreads, Pushes(u, busy')
          PROVE  u # t /\ Pushes(u, busy) /\ busy'[u] = busy[u]
      BY <1>13, <1>14, <2>1 DEF Pushes
    <2>2. ASSUME NEW u \in KeyThreads, Pushes(u, busy')
          PROVE  /\ RecordOK(busy'[u].push)
                 /\ busy'[u].push.machine_id \in (1 .. drawn) \ Ids(entries)
                 /\ \A w \in KeyThreads : (Pushes(w, busy') /\ w # u) =>
                       busy'[w].push.machine_id # busy'[u].push.machine_id
      BY <1>1, <2>1, <2>2 DEF BusyOK
    <2>3. ASSUME NEW u \in KeyThreads, busy'[u] # Idle, "write" \in DOMAIN busy'[u]
          PROVE  SealedOK(busy'[u].file, busy'[u].write, issued, drawn)
      <3>1. CASE u = t
        BY <1>12, <1>13, <1>14, <3>1
      <3>2. CASE u # t
        BY <1>1, <1>13, <2>3, <3>2 DEF BusyOK
      <3>. QED
        BY <3>1, <3>2
    <2>. QED
      BY <2>2, <2>3 DEF BusyOK
  <1>. QED
    BY <1>4, <1>13, <1>15 DEF KeysInv

\* The application writes the file.
LEMMA WriteStep ==
    ASSUME KeysInv, NEW t \in KeyThreads, write_blob(t), sdk # NotRunning,
           UNCHANGED <<using, shares, sdk>>
    PROVE  KeysInv'
  <1>1. BusyOK(busy, entries, issued, drawn) /\ BlobsOK(blob, issued, drawn)
    BY DEF KeysInv
  <1>2. PICK key : key = busy[t].file
    OBVIOUS
  <1>3. PICK b : b = busy[t].write
    OBVIOUS
  <1>4. /\ SealedOK(key, b, issued, drawn)
        /\ blob' = [blob EXCEPT ![key] = <<b>>]
        /\ busy' = [busy EXCEPT ![t] = Idle]
        /\ UNCHANGED <<entries, drawn, issued, held>>
    BY <1>1, <1>2, <1>3 DEF write_blob, BusyOK
  <1>5. /\ busy' = [u \in KeyThreads |-> busy'[u]] /\ busy'[t] = Idle
        /\ \A u \in KeyThreads \ {t} : busy'[u] = busy[u]
        /\ blob' = [k \in NeuralKey |-> blob'[k]]
        /\ \A k \in NeuralKey : blob'[k] = IF k = key THEN <<b>> ELSE blob[k]
    BY <1>4 DEF KeysInv
  <1>6. BusyOK(busy', entries, issued, drawn)
    <2>1. ASSUME NEW u \in KeyThreads, busy'[u] # Idle
          PROVE  u # t /\ busy'[u] = busy[u] /\ busy[u] # Idle
      BY <1>5, <2>1
    <2>. QED
      BY <1>1, <2>1 DEF BusyOK, Pushes
  <1>7. BlobsOK(blob', issued, drawn)
    BY <1>1, <1>4, <1>5 DEF BlobsOK
  <1>. QED
    BY <1>4, <1>5, <1>6, <1>7 DEF KeysInv

----------------------------------------------------------------------------
(* Shares *)

\* The shares of an account, as split_neural_key gave them.
IsSplit(own, k, cfg) == own = [i \in 1 .. cfg.total |-> Share(k, cfg, i)]

\* Some of an account's shares, in their order.
LEMMA FirstShares ==
    ASSUME NEW k \in NeuralKey, NEW cfg, ConfigOK(cfg), NEW own, IsSplit(own, k, cfg),
           NEW n \in 0 .. cfg.total
    PROVE  /\ Len(SubSeq(own, 1, n)) = n
           /\ DOMAIN SubSeq(own, 1, n) = 1 .. n
           /\ \A i \in 1 .. n : SubSeq(own, 1, n)[i] = Share(k, cfg, i)
           /\ Len(own) = cfg.total
  <1>. DEFINE S == {Share(k, cfg, i) : i \in 1 .. cfg.total}
  <1>1. cfg.total \in Nat /\ own \in [1 .. cfg.total -> S]
    BY DEF ConfigOK, IsSplit
  <1>2. \A i \in 1 .. cfg.total : own[i] = Share(k, cfg, i)
    BY DEF IsSplit
  <1>. HIDE DEF S
  <1>3. own \in Seq(S) /\ Len(own) = cfg.total
    BY <1>1
  <1>4. /\ Len(SubSeq(own, 1, n)) = n
        /\ DOMAIN SubSeq(own, 1, n) = 1 .. n
        /\ \A i \in 1 .. n : SubSeq(own, 1, n)[i] = own[i]
    BY <1>1, <1>3
  <1>. QED
    BY <1>1, <1>2, <1>3, <1>4

\* As many shares as the threshold of the split, or more, give the key back,
\* unless the caller names a threshold that they do not reach.
LEMMA EnoughShares ==
    ASSUME NEW k \in NeuralKey, NEW cfg, ConfigOK(cfg), NEW own, IsSplit(own, k, cfg),
           NEW n \in cfg.threshold .. cfg.total, NEW threshold
    PROVE  /\ recover_neural_key(SubSeq(own, 1, n), threshold)
                 \in {{[ok |-> k]}, {[err |-> "InvalidShareConfig"]}}
           /\ threshold = cfg.threshold =>
                 recover_neural_key(SubSeq(own, 1, n), threshold) = {[ok |-> k]}
  <1>1. /\ cfg.threshold \in Nat /\ cfg.threshold # 0 /\ cfg.total \in Nat /\ cfg.total =< MAX_SHARES
        /\ n \in Nat /\ n >= cfg.threshold /\ n =< MAX_SHARES /\ n \in 0 .. cfg.total /\ n # 0
    BY KeyConstants DEF ConfigOK
  <1>2. PICK sh : sh = SubSeq(own, 1, n)
    OBVIOUS
  <1>3. Len(sh) = n /\ DOMAIN sh = 1 .. n /\ \A i \in 1 .. n : sh[i] = Share(k, cfg, i)
    BY <1>1, <1>2, FirstShares
  <1>4. ASSUME NEW i \in 1 .. n
        PROVE  /\ sh[i].of = k /\ sh[i].index = i /\ sh[i].threshold = cfg.threshold
               /\ sh[i] # NotAShare
    <2>1. sh[i] = [of |-> k, threshold |-> cfg.threshold, index |-> i]
      BY <1>3 DEF Share
    <2>2. sh[i] \in [of : NeuralKey, threshold : Nat, index : Nat]
      BY <1>1, <2>1
    <2>. QED
      BY <2>1, <2>2, KeyConstants
  <1>5. {sh[i].index : i \in DOMAIN sh} = 1 .. n
    BY <1>3, <1>4
  <1>6. Cardinality(1 .. n) = n
    BY <1>1, FS_Interval
  <1>7. 1 \in 1 .. n
    BY <1>1
  <1>8. shamir_combine(sh) = {[ok |-> k]}
    <2>1. \A i \in DOMAIN sh : Len(sh) >= sh[i].threshold
      BY <1>1, <1>3, <1>4
    <2>2. Cardinality({sh[i].index : i \in DOMAIN sh}) = Len(sh)
      BY <1>3, <1>5, <1>6
    <2>3. sh[1].of = k
      BY <1>4, <1>7
    <2>. QED
      BY <2>1, <2>2, <2>3 DEF shamir_combine
  <1>9. NotAShare \notin {sh[i] : i \in DOMAIN sh}
    BY <1>3, <1>4
  <1>10. /\ \/ recover_neural_key(sh, threshold) = shamir_combine(sh)
            \/ recover_neural_key(sh, threshold) = {[err |-> "InvalidShareConfig"]}
         /\ threshold = cfg.threshold => recover_neural_key(sh, threshold) = shamir_combine(sh)
    <2>1. ~(cfg.threshold = 0 \/ Len(sh) < cfg.threshold \/ Len(sh) > MAX_SHARES)
      BY <1>1, <1>3, KeyConstants
    <2>. QED
      BY <1>9, <2>1 DEF recover_neural_key
  <1>. QED
    BY <1>2, <1>8, <1>10

\* Fewer give an error or the key of nobody, whatever threshold is named.
LEMMA TooFewShares ==
    ASSUME NEW k \in NeuralKey, NEW cfg, ConfigOK(cfg), NEW own, IsSplit(own, k, cfg),
           NEW n \in 1 .. cfg.total, ~(n >= cfg.threshold), NEW threshold,
           NEW r \in recover_neural_key(SubSeq(own, 1, n), threshold), "ok" \in DOMAIN r
    PROVE  r.ok = Stranger
  <1>1. PICK sh : sh = SubSeq(own, 1, n)
    OBVIOUS
  <1>2. n \in 0 .. cfg.total /\ n \in Nat /\ 1 \in 1 .. n
    BY DEF ConfigOK
  <1>3. Len(sh) = n /\ DOMAIN sh = 1 .. n /\ sh[1] = Share(k, cfg, 1)
    BY <1>1, <1>2, FirstShares
  <1>4. sh[1].threshold = cfg.threshold
    BY <1>3 DEF Share
  <1>5. ~\A i \in DOMAIN sh : Len(sh) >= sh[i].threshold
    BY <1>2, <1>3, <1>4
  <1>6. r \in shamir_combine(sh)
    BY <1>1 DEF recover_neural_key
  <1>7. r \in {[err |-> "ShareRecoveryFailed"], [ok |-> Stranger]}
    BY <1>5, <1>6 DEF shamir_combine
  <1>. QED
    BY <1>7

\* Whatever somebody picks of an account's shares gives some key or an error.
LEMMA RecoversKey ==
    ASSUME SharesOK(shares), NEW k \in NeuralKey, shares[k] # NoShares,
           NEW picked \in Picked(k), NEW threshold,
           NEW r \in recover_neural_key(picked, threshold), "ok" \in DOMAIN r
    PROVE  r.ok \in NeuralKey
  <1>1. PICK own : own = shares[k].shares
    OBVIOUS
  <1>2. PICK cfg : cfg = [threshold |-> shares[k].threshold, total |-> Len(own)]
    OBVIOUS
  <1>3. ConfigOK(cfg) /\ own = [i \in 1 .. cfg.total |-> Share(k, cfg, i)]
    BY <1>1, <1>2 DEF SharesOK
  <1>4. Len(own) = cfg.total /\ cfg.total \in Nat \ {0}
    BY <1>2, <1>3 DEF ConfigOK
  <1>5. own[1].of = k
    BY <1>3, <1>4 DEF Share
  <1>6. picked[1] = own[1]
    <2>1. ASSUME NEW n \in 1 .. Len(own), NEW f, f = [i \in 1 .. n |-> own[i]]
          PROVE  f[1] = own[1] /\ \A x : Append(f, x)[1] = f[1]
      <3>1. n \in Nat /\ 1 \in 1 .. n /\ f = [i \in 1 .. n |-> f[i]]
        BY <1>4, <2>1
      <3>2. IsList(f) /\ Len(f) = n
        BY <3>1, ListOf
      <3>. QED
        BY <2>1, <3>1, <3>2, AppendList
    <2>2. PICK n \in 1 .. Len(own) :
             LET f == [i \in 1 .. n |-> own[i]]
             IN  picked = f \/ picked = Append(f, f[1]) \/ picked = Append(f, NotAShare)
      BY <1>1 DEF Picked
    <2>3. PICK f : f = [i \in 1 .. n |-> own[i]]
      OBVIOUS
    <2>4. picked = f \/ picked = Append(f, f[1]) \/ picked = Append(f, NotAShare)
      BY <2>2, <2>3
    <2>5. f[1] = own[1] /\ \A x : Append(f, x)[1] = f[1]
      BY <2>1, <2>3
    <2>. QED
      BY <2>4, <2>5
  <1>7. r \in shamir_combine(picked)
    BY DEF recover_neural_key
  <1>8. r = [ok |-> picked[1].of] \/ r = [ok |-> Stranger]
    BY <1>7 DEF shamir_combine
  <1>. QED
    BY <1>5, <1>6, <1>8, KeyConstants

----------------------------------------------------------------------------
(* The device *)

\* An account is set up.
LEMMA SetUpStep ==
    ASSUME KeysInv, NEW k \in using.accounts, NEW cfg \in using.configs, SetUp(k, cfg)
    PROVE  KeysInv'
  <1>1. SharesOK(shares) /\ shares = [x \in NeuralKey |-> shares[x]] /\ using \in Workloads
    BY DEF KeysInv
  <1>2. cfg \in [threshold : Nat, total : Nat]
    BY <1>1, StoreConstants
  <1>3. PICK split : split = split_neural_key(k, cfg)
    OBVIOUS
  <1>4. /\ "ok" \in DOMAIN split /\ shares' = [shares EXCEPT ![k] = split.ok]
        /\ UNCHANGED <<keyVars, using, sdk>>
    BY <1>3 DEF SetUp
  <1>5. PICK own : own = [i \in 1 .. cfg.total |-> Share(k, cfg, i)]
    OBVIOUS
  <1>6. /\ ~(cfg.threshold = 0 \/ cfg.total < cfg.threshold \/ cfg.total > MAX_SHARES)
        /\ split = [ok |-> [shares |-> own, threshold |-> cfg.threshold]]
    BY <1>3, <1>4, <1>5 DEF split_neural_key
  <1>7. ConfigOK(cfg)
    BY <1>2, <1>6, KeyConstants DEF ConfigOK
  <1>8. split.ok.shares = own /\ split.ok.threshold = cfg.threshold
    BY <1>6
  <1>9. Len(own) = cfg.total
    <2>1. cfg.total \in Nat /\ own = [i \in 1 .. cfg.total |-> own[i]]
      BY <1>2, <1>5
    <2>. QED
      BY <2>1, ListOf
  <1>10. cfg = [threshold |-> split.ok.threshold, total |-> Len(split.ok.shares)]
    BY <1>2, <1>8, <1>9
  <1>11. SharesOK(shares')
    <2>1. ASSUME NEW x \in NeuralKey, shares'[x] # NoShares
          PROVE  LET c == [threshold |-> shares'[x].threshold, total |-> Len(shares'[x].shares)]
                 IN  /\ ConfigOK(c) /\ x # Stranger
                     /\ shares'[x].shares = [i \in 1 .. c.total |-> Share(x, c, i)]
      <3>1. CASE x = k
        <4>1. shares'[x] = split.ok
          BY <1>1, <1>4, <3>1
        <4>. QED
          BY <1>1, <1>5, <1>7, <1>8, <1>10, <3>1, <4>1, StoreConstants
      <3>2. CASE x # k
        <4>1. shares'[x] = shares[x]
          BY <1>1, <1>4, <3>2
        <4>. QED
          BY <1>1, <2>1, <4>1 DEF SharesOK
      <3>. QED
        BY <3>1, <3>2
    <2>. QED
      BY <2>1 DEF SharesOK
  <1>12. shares' = [x \in NeuralKey |-> shares'[x]]
    BY <1>1, <1>4
  <1>. QED
    BY <1>4, <1>11, <1>12 DEF KeysInv, keyVars

\* The key a blob was sealed for gets a store with its entries, or the error
\* of a derivation.
LEMMA Unsealed ==
    ASSUME NEW key, NEW b, NEW R, NEW n, SealedOK(key, b, R, n),
           NEW r \in from_sealed_bytes(key, b)
    PROVE  IF "ok" \in DOMAIN r THEN r.ok = Restored(b) ELSE r.err \in {"SealError", "Zid"}
  <1>1. PICK e : e = b.entries
    OBVIOUS
  <1>2. PICK bad : bad = {x \in UNION {into_record(e[i]) : i \in DOMAIN e} : "err" \in DOMAIN x}
    OBVIOUS
  <1>3. PICK rs : rs = Restored(b)
    OBVIOUS
  <1>4. from_sealed_bytes(key, b) = {[ok |-> rs]} \cup bad
    BY <1>1, <1>2, <1>3 DEF from_sealed_bytes, SealedOK, Restored
  <1>5. CASE r = [ok |-> rs]
    BY <1>3, <1>5
  <1>6. CASE r \in bad
    <2>1. PICK i \in DOMAIN e : r \in into_record(e[i]) /\ "err" \in DOMAIN r
      BY <1>2, <1>6
    <2>2. r \in {[ok |-> RecordOf(e[i])], [err |-> "SealError"], [err |-> "Zid"]}
      BY <2>1 DEF into_record, Derivation, run_on_big_stack
    <2>3. r # [ok |-> RecordOf(e[i])]
      BY <2>1
    <2>. QED
      BY <2>2, <2>3
  <1>. QED
    BY <1>4, <1>5, <1>6

\* A process starts.
LEMMA StartStep ==
    ASSUME KeysInv, NEW k \in NeuralKey, shares[k] # NoShares,
           NEW picked \in Picked(k), NEW threshold, Start(picked, threshold)
    PROVE  KeysInv'
  <1>1. PICK r \in recover_neural_key(picked, threshold) :
           "ok" \in DOMAIN r /\ LoadKeys(r.ok)
    BY DEF Start
  <1>2. SharesOK(shares) /\ BlobsOK(blob, issued, drawn)
    BY DEF KeysInv
  <1>3. PICK key : key = r.ok
    OBVIOUS
  <1>4. key \in NeuralKey
    BY <1>1, <1>2, <1>3, RecoversKey
  <1>5. /\ held' = Ids(entries')
        /\ blob[key] = NoBlob => entries' = <<>>
        /\ blob[key] # NoBlob => \E x \in from_sealed_bytes(key, blob[key][1]) :
              "ok" \in DOMAIN x /\ entries' = x.ok
        /\ UNCHANGED <<busy, blob, drawn, issued, using, shares>>
    BY <1>1, <1>3 DEF LoadKeys, Start, Ids
  <1>6. \A t \in KeyThreads : busy[t] = Idle
    BY DEF KeysInv, Start
  <1>7. KeyStoreOK(entries', issued, drawn)
    <2>1. CASE blob[key] = NoBlob
      BY <1>5, <2>1, EmptyStore
    <2>2. CASE blob[key] # NoBlob
      <3>1. SealedOK(key, blob[key][1], issued, drawn)
        BY <1>2, <1>4, <2>2 DEF BlobsOK
      <3>3. entries' = Restored(blob[key][1])
        BY <1>5, <2>2, <3>1, Unsealed
      <3>. QED
        BY <3>1, <3>3 DEF SealedOK
    <2>. QED
      BY <2>1, <2>2
  <1>8. BusyOK(busy, entries', issued, drawn)
    BY <1>6 DEF BusyOK, Pushes
  <1>. QED
    BY <1>5, <1>6, <1>7, <1>8 DEF KeysInv

\* A process stops.
LEMMA StopStep ==
    ASSUME KeysInv, Stop
    PROVE  KeysInv'
  <1>1. /\ entries' = <<>> /\ held' = {} /\ busy' = [t \in KeyThreads |-> Idle]
        /\ UNCHANGED <<blob, drawn, issued, using, shares>>
    BY DEF Stop, DropKeys
  <1>2. \A t \in KeyThreads : busy'[t] = Idle
    BY <1>1
  <1>3. busy' = [t \in KeyThreads |-> busy'[t]]
    BY <1>1
  <1>4. KeyStoreOK(entries', issued, drawn)
    BY <1>1, EmptyStore
  <1>5. BusyOK(busy', entries', issued, drawn)
    BY <1>2 DEF BusyOK, Pushes
  <1>. QED
    BY <1>1, <1>2, <1>3, <1>4, <1>5 DEF KeysInv

\* A step that leaves the keys, the shares and the process alone.
LEMMA OtherStep ==
    ASSUME KeysInv, UNCHANGED <<keyVars, using, shares, sdk>>
    PROVE  KeysInv'
  BY DEF KeysInv, keyVars

\* Every step of the node keeps KeysInv.
LEMMA KeysNext ==
    ASSUME KeysInv, [NodeNext]_nodeVars
    PROVE  KeysInv'
  <1>1. using.accounts \subseteq NeuralKey
    BY StoreConstants DEF KeysInv
  <1>2. ASSUME NEW k \in using.accounts, NEW cfg \in using.configs, SetUp(k, cfg)
        PROVE  KeysInv'
    BY <1>2, SetUpStep
  <1>3. ASSUME NEW k \in using.accounts, shares[k] # NoShares, NEW picked \in Picked(k),
               NEW threshold \in 0 .. MAX_SHARES, Start(picked, threshold)
        PROVE  KeysInv'
    BY <1>1, <1>3, StartStep
  <1>4. CASE Stop
    BY <1>4, StopStep
  <1>5. ASSUME NEW t \in KeyThreads, KeyStep(t)
        PROVE  KeysInv'
    <2>1. sdk # NotRunning /\ UNCHANGED <<using, shares, sdk>>
      BY <1>5 DEF KeyStep, Uses
    <2>2. ASSUME NEW k, NEW r, derive_machine_key(t, k, r) PROVE KeysInv'
      BY <2>1, <2>2, DeriveStep
    <2>3. CASE push_machine_key(t)
      BY <2>1, <2>3, PushStep
    <2>4. CASE seal(t, sdk.key)
      BY <2>1, <2>4, SealStep
    <2>5. CASE write_blob(t)
      BY <2>1, <2>5, WriteStep
    <2>. QED
      BY <1>5, <2>2, <2>3, <2>4, <2>5 DEF KeyStep
  <1>6. CASE ContactStep \/ SectorStep \/ PeerStep
    BY <1>6, OtherStep DEF ContactStep, SectorStep, PeerStep
  <1>7. ASSUME NEW t \in Threads, OutboxStep(t)
        PROVE  KeysInv'
    BY <1>7, OtherStep DEF OutboxStep
  <1>8. CASE UNCHANGED nodeVars
    BY <1>8, OtherStep DEF nodeVars
  <1>. QED
    BY <1>2, <1>3, <1>4, <1>5, <1>6, <1>7, <1>8 DEF NodeNext

\* A node before its first start satisfies KeysInv.
LEMMA KeysStart == NodeInit => KeysInv
  <1>1. SUFFICES ASSUME NodeInit PROVE KeysInv
    OBVIOUS
  <1>2. /\ entries = <<>> /\ busy = [t \in KeyThreads |-> Idle]
        /\ blob = [k \in NeuralKey |-> NoBlob] /\ drawn = 0 /\ issued = {} /\ held = {}
        /\ using \in Workloads /\ shares = [k \in NeuralKey |-> NoShares]
    BY <1>1 DEF NodeInit, KeysInit
  <1>3. KeyStoreOK(entries, issued, drawn)
    BY <1>2, EmptyStore
  <1>4. /\ \A t \in KeyThreads : busy[t] = Idle
        /\ \A k \in NeuralKey : blob[k] = NoBlob /\ shares[k] = NoShares
    BY <1>2
  <1>5. BusyOK(busy, entries, issued, drawn) /\ BlobsOK(blob, issued, drawn) /\ SharesOK(shares)
    BY <1>4 DEF BusyOK, BlobsOK, SharesOK, Pushes
  <1>. QED
    BY <1>2, <1>3, <1>4, <1>5 DEF KeysInv

----------------------------------------------------------------------------
(* What the file of an account has *)

Writes(t, b) == b[t] # Idle /\ "write" \in DOMAIN b[t]

\* The machine ids in a file.
FileIds(f) == IF f = NoBlob THEN {} ELSE Ids(Restored(f[1]))

\* A file has what it must.
FilesOK(bl, du) == \A k \in NeuralKey : du[k] \subseteq FileIds(bl[k])

\* A blob about to be written is for the account of the process.  It has what
\* callers had and what the file had when it was sealed, and the store of the
\* process has still more.
WritesOK(b, s, key) ==
    \A t \in KeyThreads : Writes(t, b) =>
        /\ b[t].file = key
        /\ b[t].returned \subseteq Ids(Restored(b[t].write))
        /\ FileIds(b[t].over) \subseteq Ids(Restored(b[t].write))
        /\ Ids(Restored(b[t].write)) \subseteq Ids(s)

DurableInv ==
    /\ durable = [k \in NeuralKey |-> durable[k]]
    /\ FilesOK(blob, durable)
    /\ sdk # NotRunning => /\ sdk.key \in NeuralKey
                           /\ FileIds(blob[sdk.key]) \subseteq Ids(entries)
                           /\ WritesOK(busy, entries, sdk.key)

\* generate_machine_key_with, up to the lock.
LEMMA DeriveKeepsFiles ==
    ASSUME KeysInv, DurableInv, NEW t \in KeyThreads, NEW key, NEW request,
           derive_machine_key(t, key, request), sdk # NotRunning, UNCHANGED sdk
    PROVE  DurableInv'
  <1>1. UNCHANGED <<entries, blob, durable>>
    BY DEF derive_machine_key
  <1>2. \A u \in KeyThreads : Writes(u, busy') => busy'[u] = busy[u]
    <2>1. PICK r \in Derivation(EntryRecord(key, drawn', request[1], request[2])) :
             busy' = [busy EXCEPT ![t] = IF "ok" \in DOMAIN r THEN [push |-> r.ok] ELSE Idle]
      BY DEF derive_machine_key
    <2>2. busy'[t] = Idle \/ busy'[t] = [push |-> r.ok]
      BY <2>1 DEF KeysInv
    <2>3. ~Writes(t, busy')
      BY <2>2 DEF Writes
    <2>. QED
      BY <2>1, <2>3 DEF KeysInv
  <1>3. WritesOK(busy', entries, sdk.key)
    <2>1. \A u \in KeyThreads : Writes(u, busy') => Writes(u, busy)
      BY <1>2 DEF Writes
    <2>. QED
      BY <1>2, <2>1 DEF DurableInv, WritesOK
  <1>. QED
    BY <1>1, <1>3 DEF DurableInv

\* ... and under it: the store grows.
LEMMA PushKeepsFiles ==
    ASSUME KeysInv, DurableInv, NEW t \in KeyThreads, push_machine_key(t),
           sdk # NotRunning, UNCHANGED sdk
    PROVE  DurableInv'
  <1>1. PICK r : r = busy[t].push
    OBVIOUS
  <1>2. entries' = Append(entries, r) /\ busy' = [busy EXCEPT ![t] = Idle] /\ UNCHANGED <<blob, durable>>
    BY <1>1 DEF push_machine_key
  <1>3. Ids(entries) \subseteq Ids(entries')
    <2>1. IsList(entries)
      BY DEF KeysInv, KeyStoreOK
    <2>2. /\ DOMAIN entries = 1 .. Len(entries) /\ Len(entries) \in Nat
          /\ DOMAIN entries' = 1 .. Len(entries) + 1
          /\ \A i \in DOMAIN entries : entries'[i] = entries[i]
      BY <1>2, <2>1, AppendList
    <2>3. DOMAIN entries \subseteq DOMAIN entries'
      BY <2>2
    <2>. QED
      BY <2>2, <2>3 DEF Ids
  <1>4. \A u \in KeyThreads : Writes(u, busy') => Writes(u, busy) /\ busy'[u] = busy[u]
    BY <1>2 DEF KeysInv, Writes
  <1>5. WritesOK(busy', entries', sdk.key)
    BY <1>3, <1>4 DEF DurableInv, WritesOK
  <1>. QED
    BY <1>2, <1>3, <1>5 DEF DurableInv

\* to_sealed_bytes takes the store, which has what the file has.
LEMMA SealKeepsFiles ==
    ASSUME KeysInv, DurableInv, NEW t \in KeyThreads, seal(t, sdk.key),
           sdk # NotRunning, UNCHANGED sdk
    PROVE  DurableInv'
  <1>1. PICK key : key = sdk.key
    OBVIOUS
  <1>2. PICK b : b = to_sealed_bytes(key)
    OBVIOUS
  <1>3. PICK v : v = [write |-> b, file |-> key, returned |-> held, over |-> blob[key]]
    OBVIOUS
  <1>4. busy' = [busy EXCEPT ![t] = v] /\ UNCHANGED <<entries, blob, durable>>
    BY <1>1, <1>2, <1>3 DEF seal
  <1>5. /\ v.write = b /\ v.file = key /\ v.returned = held /\ v.over = blob[key]
        /\ \A u \in KeyThreads \ {t} : busy'[u] = busy[u]
        /\ busy'[t] = v
    BY <1>3, <1>4 DEF KeysInv
  <1>6. Ids(Restored(b)) = Ids(entries)
    <2>1. PICK es : es = [i \in DOMAIN entries |-> from_record(entries[i])]
      OBVIOUS
    <2>2. b.entries = es
      BY <1>2, <2>1 DEF to_sealed_bytes
    <2>3. PICK rs : rs = Restored(b)
      OBVIOUS
    <2>4. rs = [i \in DOMAIN entries |-> RecordOf(es[i])]
      BY <2>1, <2>2, <2>3 DEF Restored
    <2>5. DOMAIN rs = DOMAIN entries /\ \A i \in DOMAIN entries : rs[i] = RecordOf(from_record(entries[i]))
      BY <2>1, <2>4
    <2>6. \A i \in DOMAIN entries : rs[i].machine_id = entries[i].machine_id
      BY <2>5, SealRoundTrip
    <2>. QED
      BY <2>3, <2>5, <2>6 DEF Ids
  <1>7. held \subseteq Ids(entries) /\ FileIds(blob[key]) \subseteq Ids(entries)
    BY <1>1 DEF KeysInv, DurableInv
  <1>9. WritesOK(busy', entries, key)
    <2>1. ASSUME NEW u \in KeyThreads, Writes(u, busy')
          PROVE  /\ busy'[u].file = key
                 /\ busy'[u].returned \subseteq Ids(Restored(busy'[u].write))
                 /\ FileIds(busy'[u].over) \subseteq Ids(Restored(busy'[u].write))
                 /\ Ids(Restored(busy'[u].write)) \subseteq Ids(entries)
      <3>1. CASE u = t
        BY <1>5, <1>6, <1>7, <3>1
      <3>2. CASE u # t
        BY <1>1, <1>5, <2>1, <3>2 DEF DurableInv, WritesOK, Writes
      <3>. QED
        BY <3>1, <3>2
    <2>. QED
      BY <2>1 DEF WritesOK
  <1>. QED
    BY <1>1, <1>4, <1>9 DEF DurableInv

\* The file is replaced: by all it had and more, when it is still the one that
\* the blob was sealed over.
LEMMA WriteKeepsFiles ==
    ASSUME KeysInv, DurableInv, NEW t \in KeyThreads, write_blob(t),
           sdk # NotRunning, UNCHANGED sdk
    PROVE  DurableInv'
  <1>1. PICK key : key = sdk.key
    OBVIOUS
  <1>2. PICK v : v = busy[t]
    OBVIOUS
  <1>3. /\ v.file = key /\ v.returned \subseteq Ids(Restored(v.write))
        /\ FileIds(v.over) \subseteq Ids(Restored(v.write))
        /\ Ids(Restored(v.write)) \subseteq Ids(entries)
    BY <1>1, <1>2 DEF DurableInv, WritesOK, Writes, write_blob
  <1>4. PICK owed : owed = v.returned \cup IF blob[key] = v.over THEN durable[key] ELSE {}
    OBVIOUS
  <1>5. /\ blob' = [blob EXCEPT ![key] = <<v.write>>] /\ busy' = [busy EXCEPT ![t] = Idle]
        /\ durable' = [durable EXCEPT ![key] = owed] /\ UNCHANGED entries
    BY <1>2, <1>3, <1>4 DEF write_blob
  <1>6. key \in NeuralKey /\ durable[key] \subseteq FileIds(blob[key])
    BY <1>1 DEF DurableInv, FilesOK
  <1>7. owed \subseteq Ids(Restored(v.write))
    BY <1>3, <1>4, <1>6
  <1>8. /\ FileIds(<<v.write>>) = Ids(Restored(v.write))
        /\ blob'[key] = <<v.write>> /\ durable'[key] = owed
        /\ durable' = [k \in NeuralKey |-> durable'[k]]
        /\ \A k \in NeuralKey \ {key} : blob'[k] = blob[k] /\ durable'[k] = durable[k]
    BY <1>3, <1>5, <1>6 DEF DurableInv, KeysInv, FileIds, NoBlob
  <1>9. FilesOK(blob', durable')
    BY <1>7, <1>8 DEF DurableInv, FilesOK
  <1>10. \A u \in KeyThreads : Writes(u, busy') => Writes(u, busy) /\ busy'[u] = busy[u]
    BY <1>5 DEF KeysInv, Writes
  <1>11. WritesOK(busy', entries, key)
    BY <1>1, <1>10 DEF DurableInv, WritesOK
  <1>. QED
    BY <1>1, <1>3, <1>5, <1>6, <1>8, <1>9, <1>11 DEF DurableInv

\* A process starts with what the file of its key has.
LEMMA StartKeepsFiles ==
    ASSUME KeysInv, DurableInv, NEW k \in NeuralKey, shares[k] # NoShares,
           NEW picked \in Picked(k), NEW threshold, Start(picked, threshold)
    PROVE  DurableInv'
  <1>1. PICK r \in recover_neural_key(picked, threshold) :
           "ok" \in DOMAIN r /\ LoadKeys(r.ok) /\ sdk' = open(r.ok)
    BY DEF Start
  <1>2. PICK key : key = r.ok
    OBVIOUS
  <1>3. key \in NeuralKey
    BY <1>1, <1>2, RecoversKey DEF KeysInv
  <1>4. sdk'.key = key
    BY <1>1, <1>2 DEF open
  <1>5. /\ blob[key] # NoBlob => \E x \in from_sealed_bytes(key, blob[key][1]) :
              "ok" \in DOMAIN x /\ entries' = x.ok
        /\ UNCHANGED <<busy, blob, durable>>
    BY <1>1, <1>2 DEF LoadKeys
  <1>6. FileIds(blob[key]) \subseteq Ids(entries')
    <2>1. CASE blob[key] = NoBlob
      BY <2>1 DEF FileIds
    <2>2. CASE blob[key] # NoBlob
      <3>1. SealedOK(key, blob[key][1], issued, drawn)
        BY <1>3, <2>2 DEF KeysInv, BlobsOK
      <3>2. entries' = Restored(blob[key][1])
        BY <1>5, <2>2, <3>1, Unsealed
      <3>. QED
        BY <2>2, <3>2 DEF FileIds
    <2>. QED
      BY <2>1, <2>2
  <1>7. \A t \in KeyThreads : ~Writes(t, busy)
    BY DEF KeysInv, Start, Writes
  <1>8. WritesOK(busy, entries', key)
    BY <1>7 DEF WritesOK
  <1>. QED
    BY <1>3, <1>4, <1>5, <1>6, <1>8 DEF DurableInv

\* Every step of the node keeps DurableInv.
LEMMA DurableNext ==
    ASSUME KeysInv, DurableInv, [NodeNext]_nodeVars
    PROVE  DurableInv'
  <1>0. using.accounts \subseteq NeuralKey
    BY StoreConstants DEF KeysInv
  <1>1. ASSUME UNCHANGED <<keyVars, sdk>>
        PROVE  DurableInv'
    BY <1>1 DEF DurableInv, keyVars
  <1>2. ASSUME NEW k \in using.accounts, NEW cfg \in using.configs, SetUp(k, cfg)
        PROVE  DurableInv'
    BY <1>1, <1>2 DEF SetUp
  <1>3. ASSUME NEW k \in using.accounts, shares[k] # NoShares, NEW picked \in Picked(k),
               NEW threshold \in 0 .. MAX_SHARES, Start(picked, threshold)
        PROVE  DurableInv'
    BY <1>0, <1>3, StartKeepsFiles
  <1>4. CASE Stop
    BY <1>4 DEF DurableInv, Stop, DropKeys
  <1>5. ASSUME NEW t \in KeyThreads, KeyStep(t)
        PROVE  DurableInv'
    <2>1. sdk # NotRunning /\ UNCHANGED sdk
      BY <1>5 DEF KeyStep, Uses
    <2>2. ASSUME NEW k, NEW r, derive_machine_key(t, k, r) PROVE DurableInv'
      BY <2>1, <2>2, DeriveKeepsFiles
    <2>3. CASE push_machine_key(t)
      BY <2>1, <2>3, PushKeepsFiles
    <2>4. CASE seal(t, sdk.key)
      BY <2>1, <2>4, SealKeepsFiles
    <2>5. CASE write_blob(t)
      BY <2>1, <2>5, WriteKeepsFiles
    <2>. QED
      BY <1>5, <2>2, <2>3, <2>4, <2>5 DEF KeyStep
  <1>6. CASE ContactStep \/ SectorStep \/ PeerStep
    BY <1>1, <1>6 DEF ContactStep, SectorStep, PeerStep
  <1>7. ASSUME NEW t \in Threads, OutboxStep(t)
        PROVE  DurableInv'
    BY <1>1, <1>7 DEF OutboxStep
  <1>8. CASE UNCHANGED nodeVars
    BY <1>1, <1>8 DEF nodeVars
  <1>. QED
    BY <1>2, <1>3, <1>4, <1>5, <1>6, <1>7, <1>8 DEF NodeNext

\* The inductive invariant of machine keys and shares: the store and every
\* blob, on disk or about to be written, hold records that callers were given,
\* each once; a blob about to be written has what callers and the file had
\* when it was sealed, and a file has what it must.
THEOREM KeysInvariant == NodeSpec => [](KeysInv /\ DurableInv)
  <1>1. NodeInit => KeysInv /\ DurableInv
    <2>1. NodeInit => DurableInv
      <3>1. NodeInit => /\ durable = [k \in NeuralKey |-> {}] /\ sdk = NotRunning
        BY DEF NodeInit, KeysInit
      <3>. QED
        BY <3>1 DEF DurableInv, FilesOK
    <2>. QED
      BY <2>1, KeysStart
  <1>2. KeysInv /\ DurableInv /\ [NodeNext]_nodeVars => (KeysInv /\ DurableInv)'
    BY KeysNext, DurableNext
  <1>. QED
    BY <1>1, <1>2, PTL DEF NodeSpec

\* With enough of its shares an account gets its key back, with too few it
\* never does, whatever threshold is named (recover_neural_key); with its key
\* it gets every machine key that its file must have, or the error of a
\* derivation (from_sealed_bytes); no other key opens the file.
THEOREM NodeSealCovers == NodeSpec => []SealCoversReturned
  <1>1. ASSUME KeysInv, DurableInv, NEW k \in NeuralKey, shares[k] # NoShares
        PROVE  SharesGiveKey(k)
    <2>1. PICK own : own = shares[k].shares
      OBVIOUS
    <2>2. PICK cfg : cfg = [threshold |-> shares[k].threshold, total |-> Len(own)]
      OBVIOUS
    <2>3. /\ ConfigOK(cfg) /\ IsSplit(own, k, cfg)
          /\ cfg.threshold = shares[k].threshold /\ cfg.total = Len(own) /\ k # Stranger
      BY <1>1, <2>1, <2>2 DEF KeysInv, SharesOK, IsSplit
    <2>4. ASSUME NEW n \in 1 .. cfg.total, NEW threshold \in 0 .. MAX_SHARES
          PROVE  LET results == recover_neural_key(SubSeq(own, 1, n), threshold)
                 IN  /\ \A r \in results : "ok" \in DOMAIN r => (r.ok = k <=> n >= cfg.threshold)
                     /\ (n >= threshold /\ threshold = cfg.threshold) => results = {[ok |-> k]}
      <3>1. PICK results : results = recover_neural_key(SubSeq(own, 1, n), threshold)
        OBVIOUS
      <3>2. CASE n >= cfg.threshold
        <4>0. ConfigOK(cfg) /\ IsSplit(own, k, cfg)
          BY <2>3
        <4>1. n \in cfg.threshold .. cfg.total
          <5>1. cfg.threshold \in Nat /\ cfg.total \in Nat
            BY <4>0 DEF ConfigOK
          <5>. QED
            BY <2>4, <3>2, <5>1
        <4>2. /\ recover_neural_key(SubSeq(own, 1, n), threshold)
                    \in {{[ok |-> k]}, {[err |-> "InvalidShareConfig"]}}
              /\ threshold = cfg.threshold =>
                    recover_neural_key(SubSeq(own, 1, n), threshold) = {[ok |-> k]}
          BY <1>1, <4>0, <4>1, EnoughShares
        <4>3. /\ results = {[ok |-> k]} \/ results = {[err |-> "InvalidShareConfig"]}
              /\ threshold = cfg.threshold => results = {[ok |-> k]}
          BY <3>1, <4>2
        <4>. QED
          BY <3>1, <3>2, <4>3
      <3>3. CASE ~(n >= cfg.threshold)
        <4>1. ASSUME NEW r \in results, "ok" \in DOMAIN r
              PROVE  r.ok = Stranger
          BY <2>3, <2>4, <3>1, <3>3, <4>1, TooFewShares
        <4>. QED
          BY <2>3, <3>1, <3>3, <4>1
      <3>. QED
        BY <3>2, <3>3
    <2>. QED
      BY <2>1, <2>3, <2>4 DEF SharesGiveKey
  <1>2. ASSUME KeysInv, DurableInv, NEW k \in NeuralKey, blob[k] # NoBlob
        PROVE  FileGives(k, durable[k])
    <2>1. SealedOK(k, blob[k][1], issued, drawn)
      BY <1>2 DEF KeysInv, BlobsOK
    <2>2. durable[k] \subseteq Ids(Restored(blob[k][1]))
      BY <1>2 DEF DurableInv, FilesOK, FileIds
    <2>3. ASSUME NEW r \in from_sealed_bytes(k, blob[k][1])
          PROVE  IF "ok" \in DOMAIN r
                 THEN durable[k] \subseteq {r.ok[i].machine_id : i \in DOMAIN r.ok}
                 ELSE r.err \in {"SealError", "Zid"}
      <3>1. IF "ok" \in DOMAIN r THEN r.ok = Restored(blob[k][1]) ELSE r.err \in {"SealError", "Zid"}
        BY <1>2, <2>1, <2>3, Unsealed
      <3>. QED
        BY <2>2, <3>1 DEF Ids
    <2>4. ASSUME NEW other \in NeuralKey \ {k}
          PROVE  from_sealed_bytes(other, blob[k][1]) = {[err |-> "UnsealError"]}
      <3>1. keyed_hash[other] # keyed_hash[k]
        BY KeyConstants
      <3>2. blob[k][1].aead # aead_from_neural_key(other)
        BY <2>1, <3>1 DEF SealedOK, aead_from_neural_key, identity_id
      <3>. QED
        BY <3>2 DEF from_sealed_bytes
    <2>. QED
      BY <2>3, <2>4 DEF FileGives
  <1>3. ASSUME KeysInv, DurableInv, NEW k \in NeuralKey, blob[k] = NoBlob
        PROVE  durable[k] = {}
    BY <1>3 DEF DurableInv, FilesOK, FileIds
  <1>4. KeysInv /\ DurableInv => SealCoversReturned
    BY <1>1, <1>2, <1>3 DEF SealCoversReturned
  <1>. QED
    BY <1>4, KeysInvariant, PTL

\* The pair that with_pair finds for a record of a store without duplicates is
\* the pair of that record.
LEMMA PairFound ==
    ASSUME KeyStoreOK(entries, issued, drawn), NEW i \in DOMAIN entries
    PROVE  with_pair(entries[i].machine_id) = [ok |-> entries[i].pair]
  <1>. DEFINE found == {j \in DOMAIN entries : entries[j].machine_id = entries[i].machine_id}
  <1>1. found = {i}
    BY DEF KeyStoreOK
  <1>2. i \in Int
    <2>1. DOMAIN entries = 1 .. Len(entries)
      BY AppendList DEF KeyStoreOK
    <2>. QED
      BY <2>1
  <1>3. (CHOOSE x \in {i} : \A j \in {i} : x =< j) = i
    BY <1>2
  <1>4. (CHOOSE x \in found : \A j \in found : x =< j) = i
    BY <1>1, <1>3
  <1>5. found # {}
    BY <1>1
  <1>. HIDE DEF found
  <1>6. with_pair(entries[i].machine_id)
           = IF found = {} THEN [err |-> "KeyNotFound"]
             ELSE [ok |-> entries[CHOOSE x \in found : \A j \in found : x =< j].pair]
    BY DEF with_pair, found
  <1>. QED
    BY <1>4, <1>5, <1>6

\* Whatever was sealed, restored and sealed again before, and by whichever
\* thread, a machine key is listed as it was returned, once, and signs with the
\* keys it was published with (list_machine_records, sign_with,
\* ml_dsa_sign_with).
THEOREM NodeListsIssued == NodeSpec => []ListedAsIssued
  <1>1. KeysInv => ListedAsIssued
    <2>1. SUFFICES ASSUME KeysInv, NEW k \in NeuralKey,
                          NEW i \in DOMAIN list_machine_records(k)
                   PROVE  LET listed == list_machine_records(k)
                              id == listed[i].machine_id
                          IN  /\ listed[i] \in issued
                              /\ \A j \in DOMAIN listed : listed[j].machine_id = id => j = i
                              /\ Verifies(listed[i].ed25519_pub, "m", sign_with(id, "m"))
                              /\ Verifies(listed[i].mldsa65_pub, "m", ml_dsa_sign_with(id, "m"))
      BY DEF ListedAsIssued
    <2>2. KeyStoreOK(entries, issued, drawn)
      BY <2>1 DEF KeysInv
    <2>3. ASSUME NEW j \in DOMAIN list_machine_records(k)
          PROVE  /\ j \in DOMAIN entries
                 /\ list_machine_records(k)[j] = MachineKeyRecord(entries[j])
      BY <2>3 DEF list_machine_records
    <2>4. \A j \in DOMAIN entries :
             MachineKeyRecord(entries[j]).machine_id = entries[j].machine_id
      BY DEF MachineKeyRecord
    <2>5. PICK r : r = entries[i]
      OBVIOUS
    <2>6. PICK x : x = list_machine_records(k)[i]
      OBVIOUS
    <2>7. /\ i \in DOMAIN entries /\ x = MachineKeyRecord(r) /\ x \in issued /\ RecordOK(r)
          /\ x.machine_id = r.machine_id
          /\ x.ed25519_pub = r.ed25519_pub /\ x.mldsa65_pub = r.mldsa65_pub
      BY <2>1, <2>2, <2>3, <2>5, <2>6 DEF KeyStoreOK, MachineKeyRecord
    <2>8. \A j \in DOMAIN list_machine_records(k) :
             list_machine_records(k)[j].machine_id = x.machine_id => j = i
      BY <2>2, <2>3, <2>4, <2>5, <2>7 DEF KeyStoreOK
    <2>9. with_pair(x.machine_id) = [ok |-> r.pair]
      BY <2>2, <2>5, <2>7, PairFound
    <2>10. /\ sign_with(x.machine_id, "m") = run_on_big_stack(<<"Ed25519", r.pair.seeds.sign, "m">>)
           /\ ml_dsa_sign_with(x.machine_id, "m")
                 = run_on_big_stack(<<"MLDSA", r.pair.seeds.pq_sign, "m">>)
      BY <2>9 DEF sign_with, ml_dsa_sign_with
    <2>11. /\ x.ed25519_pub[1] = "Ed25519" /\ x.ed25519_pub[2] = r.pair.seeds.sign
           /\ x.mldsa65_pub[1] = "MLDSA" /\ x.mldsa65_pub[2] = r.pair.seeds.pq_sign
      BY <2>7 DEF RecordOK
    <2>12. /\ Verifies(x.ed25519_pub, "m", sign_with(x.machine_id, "m"))
           /\ Verifies(x.mldsa65_pub, "m", ml_dsa_sign_with(x.machine_id, "m"))
      BY <2>10, <2>11 DEF Verifies, run_on_big_stack
    <2>. QED
      BY <2>6, <2>7, <2>8, <2>12
  <1>. QED
    BY <1>1, KeysInvariant, PTL

----------------------------------------------------------------------------
(* Envelopes *)

\* decode returns the AAD that encode was given, with or without a predecessor.
LEMMA AadRoundTrip ==
    ASSUME NEW aad, aad = [f \in DOMAIN ReadAs |-> aad[f]]
    PROVE  decode(encode(aad)) = Ok(aad)
  <1>. DEFINE map == encode(aad)
              Entries(f) == {i \in DOMAIN map : map[i][1] = f}
              Value(f) == map[CHOOSE i \in Entries(f) : \A j \in Entries(f) : j =< i][2]
              At == [epoch |-> 1, prev_sector_id |-> 2, schema_tag |-> 3, sector_id |-> 4,
                     sender_identity |-> 5, sender_machine |-> 6]
  <1>d. DOMAIN ReadAs = {"epoch", "prev_sector_id", "schema_tag", "sector_id",
                         "sender_identity", "sender_machine"}
    BY DEF ReadAs
  <1>1. /\ DOMAIN map = 1 .. 6
        /\ map[1] = <<"epoch", Integer(aad.epoch)>>
        /\ map[2] = <<"prev_sector_id", IF aad.prev_sector_id = NoId THEN Null
                          ELSE Bytes(aad.prev_sector_id)>>
        /\ map[3] = <<"schema_tag", Integer(aad.schema_tag)>>
        /\ map[4] = <<"sector_id", Bytes(aad.sector_id)>>
        /\ map[5] = <<"sender_identity", Bytes(aad.sender_identity)>>
        /\ map[6] = <<"sender_machine", Bytes(aad.sender_machine)>>
    BY DEF encode
  <1>. HIDE DEF map
  <1>2. \A f \in DOMAIN ReadAs : Entries(f) = {At[f]}
    BY <1>1, <1>d
  <1>3. \A f \in DOMAIN ReadAs : Value(f) = map[At[f]][2]
    <2>. SUFFICES ASSUME NEW f \in DOMAIN ReadAs PROVE Value(f) = map[At[f]][2]
      OBVIOUS
    <2>1. Entries(f) = {At[f]} /\ At[f] \in Int
      BY <1>2, <1>d
    <2>. QED
      BY <2>1
  <1>4. \A f \in DOMAIN ReadAs :
           /\ map[At[f]][2][1] \in ReadAs[f]
           /\ (IF Value(f) = Null THEN NoId ELSE Value(f)[2]) = aad[f]
    <2>. HIDE DEF Value
    <2>1. \A f \in DOMAIN ReadAs : map[At[f]][2][1] \in ReadAs[f]
      BY <1>1, <1>d DEF ReadAs, Integer, Bytes, Null
    <2>2. \A f \in DOMAIN ReadAs :
             (IF map[At[f]][2] = Null THEN NoId ELSE map[At[f]][2][2]) = aad[f]
      BY <1>1, <1>d DEF Integer, Bytes, Null
    <2>. QED
      BY <1>3, <2>1, <2>2
  <1>5. ~ \E f \in DOMAIN ReadAs : \/ Entries(f) = {}
                                  \/ \E i \in Entries(f) : map[i][2][1] \notin ReadAs[f]
    BY <1>2, <1>4
  <1>6. decode(map) = Ok([f \in DOMAIN ReadAs |-> IF Value(f) = Null THEN NoId ELSE Value(f)[2]])
    BY <1>5 DEF decode
  <1>7. [f \in DOMAIN ReadAs |-> IF Value(f) = Null THEN NoId ELSE Value(f)[2]]
          = [f \in DOMAIN ReadAs |-> aad[f]]
    BY <1>4
  <1>. QED
    BY <1>6, <1>7 DEF map

\* What dual_sign signs, dual_verify accepts under the signer's public keys.
LEMMA SignaturesVerify ==
    ASSUME NEW m, NEW who
    PROVE  LET sig == dual_sign(m, SigningKeys(who))
           IN  IsOk(sig) /\ dual_verify(m, sig.ok, VerifyingKeys(who)) = Ok(TRUE)
  BY DEF dual_sign, dual_verify, SigningKeys, VerifyingKeys, IsOk, Ok,
         generate_ed25519_keypair, generate_mldsa_keypair, signature, Damaged, Truncated

\* hybrid_decrypt gives the plaintext back to the keys it was encrypted for, and
\* an error to any others.
LEMMA CipherOpens ==
    ASSUME NEW p \in Plaintexts, NEW x, NEW y, NEW rng, NEW a
    PROVE  LET ct == hybrid_encrypt(p, make_keypair(x).public, a, rng)
           IN  /\ IsOk(ct)
               /\ hybrid_decrypt(ct.ok, make_keypair(y).private, a) =
                    IF x = y THEN Ok(p) ELSE Err("DecryptionFailed")
  <1>. DEFINE pk == make_keypair(x).public
              sk == make_keypair(y).private
              eph == <<"X25519", rng>>
              kct == <<"ct", <<"MLKEM", x>>, rng>>
              kss == <<"ss", <<"MLKEM", x>>, rng>>
              key == <<{<<"X25519", rng>>, <<"X25519", x>>}, kss>>
              ct == [kem_output |-> <<eph, kct>>, nonce |-> <<"nonce", rng>>,
                     ciphertext |-> <<key, <<"nonce", rng>>, p, a>>]
              dec == decapsulate(<<"mlkem", y>>, kct)
              key2 == <<{<<"X25519", y>>, eph}, dec>>
              opened == {q \in Plaintexts : ct.ciphertext = aead(key2, ct.nonce, q, a)}
  <1>1. hybrid_encrypt(p, pk, a, rng) = Ok(ct)
    BY DEF hybrid_encrypt, make_keypair, generate_x25519_keypair, generate_mlkem_keypair,
           encapsulate, derive_aead_key, diffie_hellman, aead, Truncated
  <1>2. hybrid_decrypt(ct, sk, a) =
          IF opened = {} THEN Err("DecryptionFailed") ELSE Ok(CHOOSE q \in opened : TRUE)
    <2>1. /\ sk.mlkem_decap_key = <<"mlkem", y>> /\ sk.x25519_secret = <<"x25519", y>>
          /\ <<"mlkem", y>>[2] = y /\ <<"x25519", y>>[2] = y
      BY DEF make_keypair, generate_x25519_keypair, generate_mlkem_keypair
    <2>2. ct.kem_output = <<eph, kct>> /\ Len(<<eph, kct>>) = 2
      OBVIOUS
    <2>3. <<eph, kct>>[1] = eph /\ <<eph, kct>>[2] = kct
      OBVIOUS
    <2>4. /\ ~(Len(ct.kem_output) < 2) /\ ~(Len(ct.kem_output) > 2)
          /\ sk.mlkem_decap_key # Truncated
      BY <2>1, <2>2 DEF Truncated
    <2>5. /\ diffie_hellman(sk.x25519_secret, ct.kem_output[1]) = {<<"X25519", y>>, eph}
          /\ decapsulate(sk.mlkem_decap_key, ct.kem_output[2]) = dec
      BY <2>1, <2>2, <2>3 DEF diffie_hellman
    <2>. DEFINE k == derive_aead_key(diffie_hellman(sk.x25519_secret, ct.kem_output[1]),
                                     decapsulate(sk.mlkem_decap_key, ct.kem_output[2]))
                found == {q \in Plaintexts : ct.ciphertext = aead(k, ct.nonce, q, a)}
    <2>6. k = key2
      BY <2>5 DEF derive_aead_key
    <2>7. found = opened
      <3>. HIDE DEF k, key2, ct
      <3>. QED
        BY <2>6
    <2>8. hybrid_decrypt(ct, sk, a) =
            IF found = {} THEN Err("DecryptionFailed") ELSE Ok(CHOOSE q \in found : TRUE)
      <3>. HIDE DEF ct, sk
      <3>. QED
        BY <2>4 DEF hybrid_decrypt
    <2>. HIDE DEF found, opened
    <2>. QED
      BY <2>7, <2>8
  <1>3. CASE x = y
    <2>1. dec = kss
      BY <1>3 DEF decapsulate, Damaged
    <2>2. key2 = key
      BY <2>1, <1>3
    <2>3. opened = {p}
      BY <2>2 DEF aead
    <2>4. hybrid_decrypt(ct, sk, a) = Ok(p)
      <3>. HIDE DEF opened, ct, sk
      <3>1. opened # {} /\ (CHOOSE q \in opened : TRUE) = p
        BY <2>3
      <3>. QED
        BY <1>2, <3>1
    <2>. QED
      BY <1>1, <2>4, <1>3 DEF IsOk, Ok
  <1>4. CASE x # y
    <2>1. dec = <<"reject", <<"mlkem", y>>, kct>>
      <3>1. kct[2] = <<"MLKEM", x>> /\ <<"mlkem", y>>[2] = y /\ <<"MLKEM", x>> # <<"MLKEM", y>>
        BY <1>4
      <3>. HIDE DEF kct
      <3>. QED
        BY <3>1 DEF decapsulate
    <2>2. key2 # key
      BY <2>1
    <2>3. opened = {}
      BY <2>2 DEF aead
    <2>. QED
      BY <1>1, <1>2, <2>3, <1>4 DEF IsOk, Ok
  <1>. QED
    BY <1>3, <1>4

\* What seal_envelope makes for the keys x of a recipient.
SealedFor(p, aad, x, who, rng) ==
    LET bytes == encode(aad)
        ct == hybrid_encrypt(p, make_keypair(x).public, bytes, rng).ok
        m == signing_message(bytes, ct)
    IN  [aad |-> bytes, ciphertext |-> ct, signature |-> dual_sign(m, SigningKeys(who)).ok]

\* Sealing for keys of the right length succeeds.
LEMMA SealMakes ==
    ASSUME NEW p \in Plaintexts, NEW aad, NEW x, NEW who, NEW rng
    PROVE  seal_envelope(p, aad, make_keypair(x).public, SigningKeys(who), rng) =
              Ok(SealedFor(p, aad, x, who, rng))
  <1>. DEFINE bytes == encode(aad)
              ct == hybrid_encrypt(p, make_keypair(x).public, bytes, rng)
              sig == dual_sign(signing_message(bytes, ct.ok), SigningKeys(who))
  <1>1. IsOk(ct)
    BY CipherOpens
  <1>2. IsOk(sig)
    BY SignaturesVerify
  <1>. HIDE DEF ct, sig
  <1>3. seal_envelope(p, aad, make_keypair(x).public, SigningKeys(who), rng) =
          Ok([aad |-> bytes, ciphertext |-> ct.ok, signature |-> sig.ok])
    BY <1>1, <1>2 DEF seal_envelope, ct, sig
  <1>. QED
    BY <1>3 DEF SealedFor, ct, sig

\* Sealing for a key that was cut short fails.
LEMMA SealRefuses ==
    ASSUME NEW p, NEW aad, NEW pk, NEW sk, NEW rng, pk.mlkem_encap_key = Truncated
    PROVE  ~IsOk(seal_envelope(p, aad, pk, sk, rng))
  <1>1. hybrid_encrypt(p, pk, encode(aad), rng) = Err("MlKem")
    BY DEF hybrid_encrypt
  <1>2. ~IsOk(Err("MlKem"))
    BY DEF IsOk, Err
  <1>. QED
    BY <1>1, <1>2 DEF seal_envelope

\* An envelope opens for the keys it was sealed for, to what was sealed, and is
\* refused for any others.
THEOREM EnvelopeOpens ==
    ASSUME NEW p \in Plaintexts, NEW aad, aad = [f \in DOMAIN ReadAs |-> aad[f]],
           NEW x, NEW y, NEW who, NEW rng
    PROVE  open_envelope(SealedFor(p, aad, x, who, rng), make_keypair(y).private,
                         VerifyingKeys(who))
              = IF x = y THEN Ok(<<p, aad>>) ELSE Err("DecryptionFailed")
  <1>. DEFINE bytes == encode(aad)
              ct == hybrid_encrypt(p, make_keypair(x).public, bytes, rng).ok
              m == signing_message(bytes, ct)
              sig == dual_sign(m, SigningKeys(who)).ok
              env == SealedFor(p, aad, x, who, rng)
  <1>1. env.aad = bytes /\ env.ciphertext = ct /\ env.signature = sig
    BY DEF SealedFor
  <1>2. dual_verify(m, sig, VerifyingKeys(who)) = Ok(TRUE)
    BY SignaturesVerify
  <1>3. hybrid_decrypt(ct, make_keypair(y).private, bytes) =
          IF x = y THEN Ok(p) ELSE Err("DecryptionFailed")
    BY CipherOpens
  <1>4. decode(bytes) = Ok(aad)
    BY AadRoundTrip
  <1>. HIDE DEF bytes, ct, sig, env
  <1>5. /\ IsOk(Ok(TRUE)) /\ IsOk(Ok(p)) /\ Ok(p).ok = p /\ IsOk(Ok(aad)) /\ Ok(aad).ok = aad
        /\ ~IsOk(Err("DecryptionFailed"))
    BY DEF IsOk, Ok, Err
  <1>. DEFINE sk == make_keypair(y).private
              verified == dual_verify(signing_message(env.aad, env.ciphertext), env.signature,
                                      VerifyingKeys(who))
              plain == hybrid_decrypt(env.ciphertext, sk, env.aad)
              read == decode(env.aad)
  <1>a. verified = Ok(TRUE) /\ read = Ok(aad)
        /\ plain = IF x = y THEN Ok(p) ELSE Err("DecryptionFailed")
    BY <1>1, <1>2, <1>3, <1>4
  <1>b. open_envelope(env, sk, VerifyingKeys(who)) =
          IF ~IsOk(verified) THEN verified
          ELSE IF ~IsOk(plain) THEN plain
          ELSE IF ~IsOk(read) THEN read
          ELSE Ok(<<plain.ok, read.ok>>)
    BY DEF open_envelope
  <1>. HIDE DEF verified, plain, read, sk
  <1>6. CASE x = y
    BY <1>5, <1>6, <1>a, <1>b DEF sk, env
  <1>7. CASE x # y
    BY <1>5, <1>7, <1>a, <1>b DEF sk, env
  <1>. QED
    BY <1>6, <1>7 DEF env

\* An envelope that opens has the two signatures of its message, and a cipher
\* text made with its AAD, its nonce and the key that its kem_output gives.
LEMMA OpenedParts ==
    ASSUME NEW env, NEW y, NEW who,
           IsOk(open_envelope(env, make_keypair(y).private, VerifyingKeys(who)))
    PROVE  LET ct == env.ciphertext
               m == signing_message(env.aad, ct)
           IN  /\ env.signature.ed25519 = <<"signed", <<"ed25519", who>>, m>>
               /\ env.signature.mldsa = <<"signed", <<"mldsa", who>>, m>>
               /\ ~(Len(ct.kem_output) < 2) /\ ~(Len(ct.kem_output) > 2)
               /\ \E q \in Plaintexts :
                     ct.ciphertext = <<<<{<<"X25519", y>>, ct.kem_output[1]},
                                         decapsulate(<<"mlkem", y>>, ct.kem_output[2])>>,
                                       ct.nonce, q, env.aad>>
  <1>. DEFINE ct == env.ciphertext
              m == signing_message(env.aad, ct)
              sk == make_keypair(y).private
              vk == VerifyingKeys(who)
              verified == dual_verify(m, env.signature, vk)
              plain == hybrid_decrypt(ct, sk, env.aad)
  <1>0. \A e : ~IsOk(Err(e))
    BY DEF IsOk, Err
  <1>1. IsOk(verified) /\ IsOk(plain)
    <2>. HIDE DEF verified, plain
    <2>. QED
      BY DEF open_envelope, verified, plain
  <1>2. vk.ed25519_public[2] = who /\ vk.mldsa_public[2] = who
    BY DEF VerifyingKeys, generate_ed25519_keypair, generate_mldsa_keypair
  <1>3. /\ env.signature.ed25519 = signature(<<"ed25519", who>>, m)
        /\ env.signature.mldsa = signature(<<"mldsa", who>>, m)
    <2>. HIDE DEF m, vk
    <2>. QED
      BY <1>0, <1>1, <1>2 DEF dual_verify
  <1>4. sk.mlkem_decap_key = <<"mlkem", y>> /\ diffie_hellman(sk.x25519_secret, ct.kem_output[1])
                                                  = {<<"X25519", y>>, ct.kem_output[1]}
    BY DEF make_keypair, generate_x25519_keypair, generate_mlkem_keypair, diffie_hellman
  <1>. DEFINE key == derive_aead_key(diffie_hellman(sk.x25519_secret, ct.kem_output[1]),
                                     decapsulate(sk.mlkem_decap_key, ct.kem_output[2]))
              opened == {q \in Plaintexts : ct.ciphertext = aead(key, ct.nonce, q, env.aad)}
  <1>5. ~(Len(ct.kem_output) < 2) /\ ~(Len(ct.kem_output) > 2) /\ opened # {}
    <2>. HIDE DEF sk, ct
    <2>. QED
      BY <1>0, <1>1 DEF hybrid_decrypt
  <1>6. PICK q \in Plaintexts : ct.ciphertext = aead(key, ct.nonce, q, env.aad)
    BY <1>5
  <1>7. ct.ciphertext = <<<<{<<"X25519", y>>, ct.kem_output[1]},
                            decapsulate(<<"mlkem", y>>, ct.kem_output[2])>>,
                          ct.nonce, q, env.aad>>
    <2>. HIDE DEF sk, ct
    <2>. QED
      BY <1>4, <1>6 DEF aead, derive_aead_key
  <1>. QED
    BY <1>3, <1>5, <1>7 DEF signature

\* The parts of an envelope.
LEMMA Parts ==
    ASSUME NEW p \in Plaintexts, NEW aad, NEW x, NEW who, NEW rng
    PROVE  LET e == SealedFor(p, aad, x, who, rng)
               m == signing_message(e.aad, e.ciphertext)
               s == <<"signed", <<"ed25519", who>>, m>>
               t == <<"signed", <<"mldsa", who>>, m>>
           IN  /\ e = [aad |-> encode(aad),
                       ciphertext |-> [kem_output |-> <<<<"X25519", rng>>, <<"ct", <<"MLKEM", x>>, rng>>>>,
                                       nonce |-> <<"nonce", rng>>,
                                       ciphertext |-> e.ciphertext.ciphertext],
                       signature |-> [ed25519 |-> s, mldsa |-> t]]
               /\ \E dh : e.ciphertext.ciphertext =
                     <<<<dh, <<"ss", <<"MLKEM", x>>, rng>>>>, <<"nonce", rng>>, p, encode(aad)>>
  <1>. DEFINE e == SealedFor(p, aad, x, who, rng)
              b == encode(aad)
              kem == <<<<"X25519", rng>>, <<"ct", <<"MLKEM", x>>, rng>>>>
              n == <<"nonce", rng>>
              c == <<<<{<<"X25519", rng>>, <<"X25519", x>>}, <<"ss", <<"MLKEM", x>>, rng>>>>, n, p, b>>
              ct == [kem_output |-> kem, nonce |-> n, ciphertext |-> c]
              m == signing_message(b, ct)
  <1>1. hybrid_encrypt(p, make_keypair(x).public, b, rng) = Ok(ct)
    BY DEF hybrid_encrypt, make_keypair, generate_x25519_keypair, generate_mlkem_keypair,
           encapsulate, derive_aead_key, diffie_hellman, aead, Truncated
  <1>2. dual_sign(m, SigningKeys(who)) = Ok([ed25519 |-> <<"signed", <<"ed25519", who>>, m>>,
                                             mldsa |-> <<"signed", <<"mldsa", who>>, m>>])
    BY DEF dual_sign, SigningKeys, generate_ed25519_keypair, generate_mldsa_keypair,
           signature, Truncated
  <1>. HIDE DEF ct
  <1>3. e = [aad |-> b, ciphertext |-> ct,
             signature |-> [ed25519 |-> <<"signed", <<"ed25519", who>>, m>>,
                            mldsa |-> <<"signed", <<"mldsa", who>>, m>>]]
    BY <1>1, <1>2 DEF SealedFor, Ok
  <1>5. e.aad = b /\ e.ciphertext = ct
    BY <1>3
  <1>6. ct.ciphertext = c /\ ct = [kem_output |-> kem, nonce |-> n, ciphertext |-> c]
    BY DEF ct
  <1>. HIDE DEF e, b, kem, c, n
  <1>7. \E dh : e.ciphertext.ciphertext =
           <<<<dh, <<"ss", <<"MLKEM", x>>, rng>>>>, n, p, b>>
    BY <1>5, <1>6 DEF c
  <1>. QED
    BY <1>3, <1>5, <1>6, <1>7 DEF e, b, kem, n

\* Each envelope's signed message ends in its nonce.
LEMMA MessageEnds ==
    ASSUME NEW p \in Plaintexts, NEW aad, NEW x, NEW who, NEW rng
    PROVE  LET e == SealedFor(p, aad, x, who, rng)
           IN  signing_message(e.aad, e.ciphertext)[9] = <<"nonce", rng>>
  <1>. DEFINE e == SealedFor(p, aad, x, who, rng)
              b == encode(aad)
              kem == <<<<"X25519", rng>>, <<"ct", <<"MLKEM", x>>, rng>>>>
              n == <<"nonce", rng>>
              m == signing_message(e.aad, e.ciphertext)
  <1>1. e.aad = b /\ e.ciphertext.kem_output = kem /\ e.ciphertext.nonce = n
    BY Parts
  <1>2. m[9] = n
    <2>. DEFINE a8 == b \o kem
    <2>1. b = [i \in 1 .. 6 |-> b[i]] /\ Len(b) = 6
      BY DEF encode
    <2>2. kem = [i \in 1 .. 2 |-> kem[i]] /\ Len(kem) = 2
      OBVIOUS
    <2>. HIDE DEF b, kem, n
    <2>. DEFINE U == {b[i] : i \in 1 .. 6} \cup {kem[i] : i \in 1 .. 2} \cup {n}
    <2>3. /\ \A i \in 1 .. 6 : b[i] \in U
          /\ \A i \in 1 .. 2 : kem[i] \in U
          /\ n \in U
      OBVIOUS
    <2>. HIDE DEF U
    <2>4. b \in Seq(U) /\ kem \in Seq(U) /\ <<n>> \in Seq(U) /\ Len(<<n>>) = 1 /\ <<n>>[1] = n
      BY <2>1, <2>2, <2>3
    <2>5. a8 \in Seq(U) /\ Len(a8) = 8
      BY <2>1, <2>2, <2>4, ConcatProperties
    <2>. HIDE DEF a8
    <2>6. (a8 \o <<n>>)[9] = n
      <3>1. \A i \in 1 .. Len(a8) + Len(<<n>>) : (a8 \o <<n>>)[i] =
              IF i <= Len(a8) THEN a8[i] ELSE <<n>>[i - Len(a8)]
        BY <2>4, <2>5, ConcatProperties
      <3>2. 9 \in 1 .. Len(a8) + Len(<<n>>) /\ ~(9 <= Len(a8)) /\ 9 - Len(a8) = 1
        BY <2>4, <2>5
      <3>. QED
        BY <3>1, <3>2, <2>4
    <2>7. m = a8 \o <<n>>
      BY <1>1 DEF signing_message, a8
    <2>. QED
      BY <2>6, <2>7
  <1>. QED
    BY <1>2

\* An envelope of these parts.
Env(aad, kem, nonce, c, ed25519, mldsa) ==
    [aad |-> aad, ciphertext |-> [kem_output |-> kem, nonce |-> nonce, ciphertext |-> c],
     signature |-> [ed25519 |-> ed25519, mldsa |-> mldsa]]

\* An envelope that is put together from two, and is neither, is refused.
LEMMA MixedRefused ==
    ASSUME NEW p1 \in Plaintexts, NEW a1, NEW x1, NEW w1, NEW r1,
           NEW p2 \in Plaintexts, NEW a2, NEW x2, NEW w2, NEW r2, NEW y,
           NEW e1, e1 = SealedFor(p1, a1, x1, w1, r1),
           NEW e2, e2 = SealedFor(p2, a2, x2, w2, r2),
           encode(a1) = encode(a2) => e1 = e2, r1 = r2 => e1 = e2,
           NEW e \in Mixed(e1, e2),
           IsOk(open_envelope(e, make_keypair(y).private, VerifyingKeys(w1)))
    PROVE  e = e1
  <1>. USE DEF Env
  <1>. DEFINE M(env) == signing_message(env.aad, env.ciphertext)
  <1>1. PICK b1, k1, n1, c1, s1, t1, b2, k2, n2, c2, s2, t2 :
          /\ e1 = Env(b1, k1, n1, c1, s1, t1)
          /\ e2 = Env(b2, k2, n2, c2, s2, t2)
          /\ b1 = encode(a1) /\ b2 = encode(a2)
          /\ n1 = <<"nonce", r1>> /\ n2 = <<"nonce", r2>>
          /\ k1 = <<<<"X25519", r1>>, <<"ct", <<"MLKEM", x1>>, r1>>>>
          /\ s1 = <<"signed", <<"ed25519", w1>>, M(e1)>>
          /\ t1 = <<"signed", <<"mldsa", w1>>, M(e1)>>
          /\ s2 = <<"signed", <<"ed25519", w2>>, M(e2)>>
          /\ t2 = <<"signed", <<"mldsa", w2>>, M(e2)>>
    <2>1. e1 = Env(encode(a1), <<<<"X25519", r1>>, <<"ct", <<"MLKEM", x1>>, r1>>>>,
                   <<"nonce", r1>>, e1.ciphertext.ciphertext,
                   <<"signed", <<"ed25519", w1>>, M(e1)>>, <<"signed", <<"mldsa", w1>>, M(e1)>>)
      BY Parts
    <2>2. e2 = Env(encode(a2), <<<<"X25519", r2>>, <<"ct", <<"MLKEM", x2>>, r2>>>>,
                   <<"nonce", r2>>, e2.ciphertext.ciphertext,
                   <<"signed", <<"ed25519", w2>>, M(e2)>>, <<"signed", <<"mldsa", w2>>, M(e2)>>)
      BY Parts
    <2>. HIDE DEF M
    <2>. QED
      BY <2>1, <2>2
  <1>2. PICK h1, h2, ss1, ss2 :
          /\ c1 = <<<<h1, <<"ss", ss1[2], ss1[3]>>>>, n1, p1, b1>>
          /\ c2 = <<<<h2, <<"ss", ss2[2], ss2[3]>>>>, n2, p2, b2>>
    <2>1. \E dh : e1.ciphertext.ciphertext =
             <<<<dh, <<"ss", <<"MLKEM", x1>>, r1>>>>, <<"nonce", r1>>, p1, encode(a1)>>
      BY Parts
    <2>2. \E dh : e2.ciphertext.ciphertext =
             <<<<dh, <<"ss", <<"MLKEM", x2>>, r2>>>>, <<"nonce", r2>>, p2, encode(a2)>>
      BY Parts
    <2>3. PICK g1, g2 :
            /\ c1 = <<<<g1, <<"ss", <<"MLKEM", x1>>, r1>>>>, n1, p1, b1>>
            /\ c2 = <<<<g2, <<"ss", <<"MLKEM", x2>>, r2>>>>, n2, p2, b2>>
      BY <1>1, <2>1, <2>2
    <2>. WITNESS g1, g2, <<"ss", <<"MLKEM", x1>>, r1>>, <<"ss", <<"MLKEM", x2>>, r2>>
    <2>. QED
      BY <2>3
  <1>3. M(e1) = M(e2) => e1 = e2
    <2>1. M(e1)[9] = <<"nonce", r1>>
      <3>1. M(SealedFor(p1, a1, x1, w1, r1))[9] = <<"nonce", r1>>
        BY MessageEnds
      <3>. QED
        BY <3>1
    <2>2. M(e2)[9] = <<"nonce", r2>>
      <3>1. M(SealedFor(p2, a2, x2, w2, r2))[9] = <<"nonce", r2>>
        BY MessageEnds
      <3>. QED
        BY <3>1
    <2>. HIDE DEF M
    <2>. QED
      BY <2>1, <2>2, <1>1
  <1>4. b1 = b2 => e1 = e2
    BY <1>1
  <1>5. n1 = n2 => e1 = e2
    BY <1>1
  <1>6. /\ e.signature.ed25519 = <<"signed", <<"ed25519", w1>>, M(e)>>
        /\ e.signature.mldsa = <<"signed", <<"mldsa", w1>>, M(e)>>
        /\ ~(Len(e.ciphertext.kem_output) < 2) /\ ~(Len(e.ciphertext.kem_output) > 2)
        /\ \E q \in Plaintexts : \E d :
              e.ciphertext.ciphertext =
                <<<<d, decapsulate(<<"mlkem", y>>, e.ciphertext.kem_output[2])>>,
                  e.ciphertext.nonce, q, e.aad>>
    BY OpenedParts
  <1>. HIDE DEF M
  <1>r. /\ e1 = Env(b1, k1, n1, c1, s1, t1)
        /\ e2 = Env(b2, k2, n2, c2, s2, t2)
    BY <1>1
  <1>s. e1 = e2 => b1 = b2 /\ k1 = k2 /\ n1 = n2 /\ c1 = c2 /\ s1 = s2 /\ t1 = t2
    <2>1. /\ e1.aad = b1 /\ e1.ciphertext.kem_output = k1 /\ e1.ciphertext.nonce = n1
          /\ e1.ciphertext.ciphertext = c1 /\ e1.signature.ed25519 = s1 /\ e1.signature.mldsa = t1
      BY <1>r
    <2>2. /\ e2.aad = b2 /\ e2.ciphertext.kem_output = k2 /\ e2.ciphertext.nonce = n2
          /\ e2.ciphertext.ciphertext = c2 /\ e2.signature.ed25519 = s2 /\ e2.signature.mldsa = t2
      BY <1>r
    <2>. QED
      BY <2>1, <2>2
  <1>7. \/ e = Env(b2, k1, n1, c1, s1, t1)
        \/ e = Env(b1, k2, n2, c2, s1, t1)
        \/ e = Env(b1, k1, n1, c1, s2, t2)
        \/ e = Env(b1, k1, n1, c2, s1, t1)
        \/ e = Env(b1, k1, n1, Damaged, s1, t1)
        \/ e = Env(b1, k1, n2, c1, s1, t1)
        \/ e = Env(b1, <<k1[1], Damaged>>, n1, c1, s1, t1)
        \/ e = Env(b1, k1, n1, c1, s1, t2)
        \/ e = Env(b1, k1, n1, c1, s1, Truncated)
        \/ e = Env(b1, k1, n1, c1, s2, t1)
        \/ e.ciphertext.kem_output = Tail(k1)
        \/ e.ciphertext.kem_output = <<Last(b1)>> \o k1
    <2>. DEFINE m1 == [e1 EXCEPT !.aad = e2.aad]
                m2 == [e1 EXCEPT !.ciphertext = e2.ciphertext]
                m3 == [e1 EXCEPT !.signature = e2.signature]
                m4 == [e1 EXCEPT !.ciphertext.ciphertext = e2.ciphertext.ciphertext]
                m5 == [e1 EXCEPT !.ciphertext.ciphertext = Damaged]
                m6 == [e1 EXCEPT !.ciphertext.nonce = e2.ciphertext.nonce]
                m7 == [e1 EXCEPT !.ciphertext.kem_output = <<@[1], Damaged>>]
                m8 == [e1 EXCEPT !.signature.mldsa = e2.signature.mldsa]
                m9 == [e1 EXCEPT !.signature.mldsa = Truncated]
                m10 == [e1 EXCEPT !.signature.ed25519 = e2.signature.ed25519]
                m11 == [e1 EXCEPT !.aad = Append(@, e1.ciphertext.kem_output[1]),
                                  !.ciphertext.kem_output = Tail(@)]
                m12 == [e1 EXCEPT !.aad = SubSeq(@, 1, Len(@) - 1),
                                  !.ciphertext.kem_output = <<Last(e1.aad)>> \o @]
    <2>0. e \in {m1, m2, m3, m4, m5, m6, m7, m8, m9, m10, m11, m12}
      BY DEF Mixed
    <2>1. m1 = Env(b2, k1, n1, c1, s1, t1)
      BY <1>r
    <2>2. m2 = Env(b1, k2, n2, c2, s1, t1)
      BY <1>r
    <2>3. m3 = Env(b1, k1, n1, c1, s2, t2)
      BY <1>r
    <2>4. m4 = Env(b1, k1, n1, c2, s1, t1)
      BY <1>r
    <2>5. m5 = Env(b1, k1, n1, Damaged, s1, t1)
      BY <1>r
    <2>6. m6 = Env(b1, k1, n2, c1, s1, t1)
      BY <1>r
    <2>7. m7 = Env(b1, <<k1[1], Damaged>>, n1, c1, s1, t1)
      BY <1>r
    <2>8. m8 = Env(b1, k1, n1, c1, s1, t2)
      BY <1>r
    <2>9. m9 = Env(b1, k1, n1, c1, s1, Truncated)
      BY <1>r
    <2>10. m10 = Env(b1, k1, n1, c1, s2, t1)
      BY <1>r
    <2>a. e1.aad = b1 /\ e1.ciphertext.kem_output = k1
      BY <1>r
    <2>11. m11.ciphertext.kem_output = Tail(k1)
      <3>. DEFINE X == Append(e1.aad, e1.ciphertext.kem_output[1])
      <3>1. [e1 EXCEPT !.aad = X].ciphertext = e1.ciphertext
        BY <1>r
      <3>. QED
        BY <1>r, <2>a
    <2>12. m12.ciphertext.kem_output = <<Last(b1)>> \o k1
      BY <1>r, <2>a
    <2>. HIDE DEF m1, m2, m3, m4, m5, m6, m7, m8, m9, m10, m11, m12
    <2>. QED
      BY <2>0, <2>1, <2>2, <2>3, <2>4, <2>5, <2>6, <2>7, <2>8, <2>9, <2>10, <2>11, <2>12
  <1>8. CASE e = Env(b2, k1, n1, c1, s1, t1)
    <2>1. c1[4] = b2 /\ c1[4] = b1
      BY <1>2, <1>6, <1>8
    <2>. QED
      BY <2>1, <1>4, <1>r, <1>s, <1>8
  <1>9. CASE e = Env(b1, k2, n2, c2, s1, t1)
    <2>1. c2[4] = b1 /\ c2[4] = b2
      BY <1>2, <1>6, <1>9
    <2>. QED
      BY <2>1, <1>4, <1>r, <1>s, <1>9
  <1>10. CASE e = Env(b1, k1, n1, c1, s2, t2)
    <2>1. M(e) = M(e1)
      BY <1>1, <1>10 DEF M
    <2>2. M(e1) = M(e2)
      BY <2>1, <1>1, <1>6, <1>10
    <2>. QED
      BY <2>2, <1>3, <1>r, <1>s, <1>10
  <1>11. CASE e = Env(b1, k1, n1, c2, s1, t1)
    <2>1. c2[4] = b1 /\ c2[4] = b2
      BY <1>2, <1>6, <1>11
    <2>. QED
      BY <2>1, <1>4, <1>r, <1>s, <1>11
  <1>12. CASE e = Env(b1, k1, n1, Damaged, s1, t1)
    BY <1>6, <1>12 DEF Damaged
  <1>13. CASE e = Env(b1, k1, n2, c1, s1, t1)
    <2>1. c1[2] = n2 /\ c1[2] = n1
      BY <1>2, <1>6, <1>13
    <2>. QED
      BY <2>1, <1>5, <1>r, <1>s, <1>13
  <1>14. CASE e = Env(b1, <<k1[1], Damaged>>, n1, c1, s1, t1)
    <2>1. decapsulate(<<"mlkem", y>>, Damaged) = <<"reject", <<"mlkem", y>>, Damaged>>
      BY DEF decapsulate
    <2>2. <<k1[1], Damaged>>[2] = Damaged
      OBVIOUS
    <2>3. c1[1][2] = <<"reject", <<"mlkem", y>>, Damaged>>
      BY <2>1, <2>2, <1>6, <1>14
    <2>4. c1[1][2] = <<"ss", ss1[2], ss1[3]>>
      BY <1>2
    <2>. QED
      BY <2>3, <2>4
  <1>15. CASE e = Env(b1, k1, n1, c1, s1, t2)
    <2>1. M(e) = M(e1)
      BY <1>1, <1>15 DEF M
    <2>2. M(e1) = M(e2)
      BY <2>1, <1>1, <1>6, <1>15
    <2>. QED
      BY <2>2, <1>3, <1>r, <1>s, <1>15
  <1>16. CASE e = Env(b1, k1, n1, c1, s1, Truncated)
    BY <1>6, <1>16 DEF Truncated
  <1>17. CASE e = Env(b1, k1, n1, c1, s2, t1)
    <2>1. M(e) = M(e1)
      BY <1>1, <1>17 DEF M
    <2>2. M(e1) = M(e2)
      BY <2>1, <1>1, <1>6, <1>17
    <2>. QED
      BY <2>2, <1>3, <1>r, <1>s, <1>17
  <1>18. CASE e.ciphertext.kem_output = Tail(k1)
    <2>1. Len(Tail(k1)) = 1
      BY <1>1
    <2>. QED
      BY <2>1, <1>18, <1>6
  <1>19. CASE e.ciphertext.kem_output = <<Last(b1)>> \o k1
    <2>1. Len(<<Last(b1)>> \o k1) = 3
      BY <1>1
    <2>. QED
      BY <2>1, <1>19, <1>6
  <1>. QED
    BY <1>7, <1>8, <1>9, <1>10, <1>11, <1>12, <1>13, <1>14, <1>15, <1>16, <1>17, <1>18, <1>19

----------------------------------------------------------------------------
(* The keys of the column families, and their order *)

\* A length that fits into a u16 is not changed by the cast.
LEMMA SmallModulo == ASSUME NEW n \in Nat, NEW u \in Nat, n < u PROVE n % u = n
  OBVIOUS

\* A prefix agrees with the whole in every place it has.
LEMMA PrefixPlaces ==
    ASSUME NEW s \in Seq(Nat), NEW t \in Seq(Nat)
    PROVE  IsPrefix(s, t) <=> Len(s) =< Len(t) /\ \A i \in 1 .. Len(s) : s[i] = t[i]
  <1>. DEFINE n == Len(s)
  <1>0. n \in Nat /\ Len(t) \in Nat
    OBVIOUS
  <1>1. ASSUME n =< Len(t)
        PROVE  /\ SubSeq(s, 1, n) = [i \in 1 .. n |-> s[i]]
               /\ SubSeq(t, 1, n) = [i \in 1 .. n |-> t[i]]
    BY <1>0, <1>1
  <1>2. ASSUME n =< Len(t)
        PROVE  SubSeq(s, 1, n) = SubSeq(t, 1, n) <=> \A i \in 1 .. n : s[i] = t[i]
    <2>. DEFINE f == [i \in 1 .. n |-> s[i]]
                g == [i \in 1 .. n |-> t[i]]
    <2>1. f = g <=> \A i \in 1 .. n : s[i] = t[i]
      <3>1. ASSUME f = g, NEW i \in 1 .. n PROVE s[i] = t[i]
        <4>1. f[i] = s[i] /\ g[i] = t[i]
          OBVIOUS
        <4>. QED
          BY <4>1, <3>1
      <3>. QED
        BY <3>1
    <2>. QED
      BY <2>1, <1>1, <1>2
  <1>. QED
    BY <1>2 DEF IsPrefix

\* The parts of two sequences put together, place by place.
LEMMA Concat ==
    ASSUME NEW a \in Seq(Nat), NEW b \in Seq(Nat)
    PROVE  /\ a \o b \in Seq(Nat) /\ Len(a) \in Nat /\ Len(b) \in Nat
           /\ Len(a \o b) = Len(a) + Len(b)
           /\ \A i \in 1 .. Len(a) : (a \o b)[i] = a[i]
           /\ \A i \in 1 .. Len(b) : (a \o b)[i + Len(a)] = b[i]
  <1>1. Len(a) \in Nat /\ Len(b) \in Nat
    OBVIOUS
  <1>2. a \o b \in Seq(Nat) /\ Len(a \o b) = Len(a) + Len(b)
    OBVIOUS
  <1>3. \A i \in 1 .. Len(a) + Len(b) :
           (a \o b)[i] = IF i =< Len(a) THEN a[i] ELSE b[i - Len(a)]
    BY <1>2
  <1>4. ASSUME NEW i \in 1 .. Len(b) PROVE (a \o b)[i + Len(a)] = b[i]
    <2>1. /\ i + Len(a) \in 1 .. Len(a) + Len(b) /\ ~(i + Len(a) =< Len(a))
          /\ (i + Len(a)) - Len(a) = i
      BY <1>1
    <2>. QED
      BY <2>1, <1>3
  <1>5. ASSUME NEW i \in 1 .. Len(a) PROVE (a \o b)[i] = a[i]
    <2>1. i \in 1 .. Len(a) + Len(b) /\ i =< Len(a)
      BY <1>1
    <2>. QED
      BY <2>1, <1>3
  <1>. QED
    BY <1>1, <1>2, <1>4, <1>5

\* The parts of a scope's prefix, place by place.
LEMMA ScopePrefix ==
    ASSUME NEW sc \in Scopes
    PROVE  LET P == make_scope_prefix(sc[1], sc[2])
               m == Len(sc[1])
               n == Len(sc[2])
           IN  /\ P \in Seq(Nat) /\ m \in Nat /\ n \in Nat /\ Len(P) = m + n + 2
               /\ P[1] = m /\ P[m + 2] = n
               /\ \A i \in 1 .. m : P[i + 1] = sc[1][i]
               /\ \A i \in 1 .. n : P[i + m + 2] = sc[2][i]
  <1>0. PICK m, n : m = Len(sc[1]) /\ n = Len(sc[2])
    OBVIOUS
  <1>1. PICK a \in Seq(Nat), b \in Seq(Nat) : a = sc[1] /\ b = sc[2]
    BY StoreConstants
  <1>2. m \in Nat /\ n \in Nat /\ m = Len(a) /\ n = Len(b)
    BY <1>0, <1>1
  <1>3. m % U16 = m /\ n % U16 = n
    <2>1. U16 \in Nat /\ m < U16 /\ n < U16
      BY <1>0, StoreConstants
    <2>. QED
      BY <1>2, <2>1, SmallModulo
  <1>. DEFINE Q == <<m>> \o a
              R == Q \o <<n>>
              P == R \o b
  <1>4. P = make_scope_prefix(sc[1], sc[2])
    BY <1>1, <1>2, <1>3 DEF make_scope_prefix
  <1>5. /\ <<m>> \in Seq(Nat) /\ Len(<<m>>) = 1 /\ <<m>>[1] = m
        /\ <<n>> \in Seq(Nat) /\ Len(<<n>>) = 1 /\ <<n>>[1] = n
    BY <1>2
  <1>6. /\ Q \in Seq(Nat) /\ Len(Q) = 1 + m /\ \A i \in 1 .. 1 : Q[i] = <<m>>[i]
        /\ \A i \in 1 .. m : Q[i + 1] = a[i]
    BY <1>2, <1>5, Concat
  <1>. HIDE DEF Q
  <1>7. /\ R \in Seq(Nat) /\ Len(R) = 1 + m + 1 /\ \A i \in 1 .. 1 + m : R[i] = Q[i]
        /\ \A i \in 1 .. 1 : R[i + (1 + m)] = <<n>>[i]
    <2>. DEFINE N == <<n>>
    <2>1. N \in Seq(Nat) /\ Len(N) = 1
      BY <1>5
    <2>. HIDE DEF N
    <2>2. /\ Q \o N \in Seq(Nat)
          /\ Len(Q \o N) = Len(Q) + Len(N)
          /\ \A i \in 1 .. Len(Q) : (Q \o N)[i] = Q[i]
          /\ \A i \in 1 .. Len(N) : (Q \o N)[i + Len(Q)] = N[i]
      BY <1>6, <2>1, Concat
    <2>. QED
      BY <2>1, <2>2, <1>6 DEF N
  <1>. HIDE DEF R
  <1>8. /\ P \in Seq(Nat) /\ Len(P) = (1 + m + 1) + n
        /\ \A i \in 1 .. 1 + m + 1 : P[i] = R[i]
        /\ \A i \in 1 .. n : P[i + (1 + m + 1)] = b[i]
    <2>1. /\ R \o b \in Seq(Nat)
          /\ Len(R \o b) = Len(R) + Len(b)
          /\ \A i \in 1 .. Len(R) : (R \o b)[i] = R[i]
          /\ \A i \in 1 .. Len(b) : (R \o b)[i + Len(R)] = b[i]
      BY <1>7, Concat
    <2>. QED
      BY <2>1, <1>7, <1>2
  <1>. HIDE DEF P
  <1>9. Len(P) = m + n + 2
    BY <1>8, <1>2
  <1>10. P[1] = m
    <2>1. 1 \in 1 .. 1 + m + 1 /\ 1 \in 1 .. 1 + m /\ 1 \in 1 .. 1
      BY <1>2
    <2>. QED
      BY <2>1, <1>5, <1>6, <1>7, <1>8
  <1>11. P[m + 2] = n
    <2>1. m + 2 \in 1 .. 1 + m + 1 /\ 1 + (1 + m) = m + 2 /\ 1 \in 1 .. 1
      BY <1>2
    <2>2. P[m + 2] = R[m + 2] /\ R[1 + (1 + m)] = <<n>>[1]
      BY <2>1, <1>7, <1>8
    <2>. QED
      BY <2>1, <2>2, <1>5
  <1>12. ASSUME NEW i \in 1 .. m PROVE P[i + 1] = a[i]
    <2>1. i + 1 \in 1 .. 1 + m + 1 /\ i + 1 \in 1 .. 1 + m
      BY <1>2
    <2>. QED
      BY <2>1, <1>6, <1>7, <1>8
  <1>13. ASSUME NEW i \in 1 .. n PROVE P[i + m + 2] = b[i]
    <2>1. i + m + 2 = i + (1 + m + 1)
      BY <1>2
    <2>. QED
      BY <2>1, <1>8
  <1>. QED
    BY <1>0, <1>1, <1>2, <1>4, <1>8, <1>9, <1>10, <1>11, <1>12, <1>13

\* Scopes have prefixes of which none starts another's keys.
LEMMA SectorKeys ==
    ASSUME NEW sc \in Scopes, NEW sd \in Scopes, NEW id \in Nat, NEW ie \in Nat
    PROVE  LET k == make_sector_key(sc[1], sc[2], id)
               l == make_sector_key(sd[1], sd[2], ie)
           IN  /\ k \in Seq(Nat)
               /\ IsPrefix(make_scope_prefix(sc[1], sc[2]), l) <=> sc = sd
               /\ k = l => sc = sd /\ id = ie
               /\ (sc = sd /\ Before(k, l)) => id < ie
  <1>. DEFINE P == make_scope_prefix(sc[1], sc[2])
              Q == make_scope_prefix(sd[1], sd[2])
              k == P \o <<id>>
              l == Q \o <<ie>>
  <1>0. PICK m, n, m2, n2 : m = Len(sc[1]) /\ n = Len(sc[2]) /\ m2 = Len(sd[1]) /\ n2 = Len(sd[2])
    OBVIOUS
  <1>1. /\ P \in Seq(Nat) /\ m \in Nat /\ n \in Nat /\ Len(P) = m + n + 2
        /\ P[1] = m /\ P[m + 2] = n
        /\ \A i \in 1 .. m : P[i + 1] = sc[1][i]
        /\ \A i \in 1 .. n : P[i + m + 2] = sc[2][i]
    <2>1. LET x == Len(sc[1])
              y == Len(sc[2])
          IN  /\ P \in Seq(Nat) /\ x \in Nat /\ y \in Nat /\ Len(P) = x + y + 2
              /\ P[1] = x /\ P[x + 2] = y
              /\ \A i \in 1 .. x : P[i + 1] = sc[1][i]
              /\ \A i \in 1 .. y : P[i + x + 2] = sc[2][i]
      BY ScopePrefix
    <2>. HIDE DEF P
    <2>. QED
      BY <1>0, <2>1
  <1>2. /\ Q \in Seq(Nat) /\ m2 \in Nat /\ n2 \in Nat /\ Len(Q) = m2 + n2 + 2
        /\ Q[1] = m2 /\ Q[m2 + 2] = n2
        /\ \A i \in 1 .. m2 : Q[i + 1] = sd[1][i]
        /\ \A i \in 1 .. n2 : Q[i + m2 + 2] = sd[2][i]
    <2>1. LET x == Len(sd[1])
              y == Len(sd[2])
          IN  /\ Q \in Seq(Nat) /\ x \in Nat /\ y \in Nat /\ Len(Q) = x + y + 2
              /\ Q[1] = x /\ Q[x + 2] = y
              /\ \A i \in 1 .. x : Q[i + 1] = sd[1][i]
              /\ \A i \in 1 .. y : Q[i + x + 2] = sd[2][i]
      BY ScopePrefix
    <2>. HIDE DEF Q
    <2>. QED
      BY <1>0, <2>1
  <1>a. m \in Nat /\ n \in Nat /\ Len(P) = m + n + 2
    BY <1>1
  <1>3. sc[1] \in Seq(Nat) /\ sc[2] \in Seq(Nat) /\ sd[1] \in Seq(Nat) /\ sd[2] \in Seq(Nat)
        /\ sc = <<sc[1], sc[2]>> /\ sd = <<sd[1], sd[2]>>
    BY StoreConstants
  <1>4. /\ k = make_sector_key(sc[1], sc[2], id) /\ l = make_sector_key(sd[1], sd[2], ie)
    BY DEF make_sector_key
  <1>. HIDE DEF P, Q
  <1>5. /\ k \in Seq(Nat) /\ Len(k) = Len(P) + 1 /\ k[Len(P) + 1] = id
        /\ \A i \in 1 .. Len(P) : k[i] = P[i]
        /\ l \in Seq(Nat) /\ Len(l) = Len(Q) + 1 /\ l[Len(Q) + 1] = ie
        /\ \A i \in 1 .. Len(Q) : l[i] = Q[i]
    <2>1. /\ <<id>> \in Seq(Nat) /\ Len(<<id>>) = 1 /\ <<id>>[1] = id
          /\ <<ie>> \in Seq(Nat) /\ Len(<<ie>>) = 1 /\ <<ie>>[1] = ie
      OBVIOUS
    <2>2. /\ k \in Seq(Nat) /\ Len(k) = Len(P) + 1
          /\ \A i \in 1 .. Len(P) : k[i] = P[i]
          /\ \A i \in 1 .. 1 : k[i + Len(P)] = <<id>>[i]
      BY <1>1, <2>1, Concat
    <2>3. /\ l \in Seq(Nat) /\ Len(l) = Len(Q) + 1
          /\ \A i \in 1 .. Len(Q) : l[i] = Q[i]
          /\ \A i \in 1 .. 1 : l[i + Len(Q)] = <<ie>>[i]
      BY <1>2, <2>1, Concat
    <2>4. 1 \in 1 .. 1 /\ 1 + Len(P) = Len(P) + 1 /\ 1 + Len(Q) = Len(Q) + 1
      BY <1>1, <1>2
    <2>. HIDE DEF k, l
    <2>5. k[Len(P) + 1] = id
      BY <2>1, <2>2, <2>4
    <2>6. l[Len(Q) + 1] = ie
      BY <2>1, <2>3, <2>4
    <2>. QED
      BY <2>2, <2>3, <2>5, <2>6
  <1>. HIDE DEF k, l
  <1>6. ASSUME Len(P) =< Len(l), \A i \in 1 .. Len(P) : P[i] = l[i]
        PROVE  sc = sd
    <2>1. m = m2
      <3>1. 1 \in 1 .. Len(P) /\ 1 \in 1 .. Len(Q)
        BY <1>1, <1>2
      <3>. QED
        BY <3>1, <1>1, <1>2, <1>5, <1>6
    <2>2. n = n2
      <3>1. m + 2 \in 1 .. Len(P) /\ m + 2 \in 1 .. Len(Q)
        BY <2>1, <1>1, <1>2
      <3>. QED
        BY <3>1, <2>1, <1>1, <1>2, <1>5, <1>6
    <2>3. Len(P) = Len(Q) /\ \A i \in 1 .. Len(P) : P[i] = Q[i]
      BY <2>1, <2>2, <1>1, <1>2, <1>5, <1>6
    <2>4. \A i \in 1 .. m : sc[1][i] = sd[1][i]
      <3>. SUFFICES ASSUME NEW i \in 1 .. m PROVE sc[1][i] = sd[1][i]
        OBVIOUS
      <3>1. i + 1 \in 1 .. Len(P)
        BY <1>a
      <3>. QED
        BY <3>1, <2>1, <2>3, <1>1, <1>2
    <2>5. \A i \in 1 .. n : sc[2][i] = sd[2][i]
      <3>. SUFFICES ASSUME NEW i \in 1 .. n PROVE sc[2][i] = sd[2][i]
        OBVIOUS
      <3>1. i + m + 2 \in 1 .. Len(P)
        BY <1>a
      <3>. QED
        BY <3>1, <2>1, <2>2, <2>3, <1>1, <1>2
    <2>6. sc[1] = sd[1]
      BY <2>1, <2>4, <1>0, <1>3, SeqEqual
    <2>7. sc[2] = sd[2]
      BY <2>2, <2>5, <1>0, <1>3, SeqEqual
    <2>. QED
      BY <2>6, <2>7, <1>3
  <1>7. IsPrefix(P, l) <=> sc = sd
    <2>1. IsPrefix(P, l) => sc = sd
      BY <1>1, <1>5, <1>6, PrefixPlaces
    <2>2. ASSUME sc = sd PROVE IsPrefix(P, l)
      <3>1. P = Q
        BY <2>2 DEF P, Q
      <3>2. Len(P) =< Len(l) /\ \A i \in 1 .. Len(P) : P[i] = l[i]
        <4>1. Len(l) = Len(P) + 1 /\ Len(P) \in Nat
          BY <3>1, <1>a, <1>5
        <4>2. \A i \in 1 .. Len(P) : P[i] = l[i]
          BY <3>1, <1>5
        <4>. QED
          BY <4>1, <4>2
      <3>. QED
        BY <3>2, <1>1, <1>5, PrefixPlaces
    <2>. QED
      BY <2>1, <2>2
  <1>8. ASSUME k = l PROVE sc = sd /\ id = ie
    <2>1. Len(P) =< Len(l) /\ \A i \in 1 .. Len(P) : P[i] = l[i]
      BY <1>8, <1>5, <1>1, <1>2
    <2>2. sc = sd
      BY <2>1, <1>6
    <2>3. Len(P) = Len(Q)
      BY <2>2 DEF P, Q
    <2>. QED
      BY <2>2, <2>3, <1>5, <1>8
  <1>9. ASSUME sc = sd, Before(k, l) PROVE id < ie
    <2>1. P = Q
      BY <1>9 DEF P, Q
    <2>2. PICK i \in DOMAIN l : i \in DOMAIN k => k[i] < l[i]
      BY <1>9 DEF Before
    <2>3. DOMAIN k = DOMAIN l /\ i \in 1 .. Len(P) + 1
      BY <2>1, <1>5, <1>1
    <2>4. i = Len(P) + 1
      <3>. SUFFICES ASSUME i # Len(P) + 1 PROVE FALSE
        OBVIOUS
      <3>1. i \in 1 .. Len(P)
        <4>1. Len(P) \in Nat
          BY <1>a
        <4>. QED
          BY <2>3, <4>1
      <3>2. k[i] = l[i]
        BY <3>1, <2>1, <1>5
      <3>3. k[i] \in Nat
        BY <2>3, <1>5
      <3>. QED
        BY <3>2, <3>3, <2>2, <2>3
    <2>. QED
      BY <2>1, <2>2, <2>3, <2>4, <1>5
  <1>. QED
    BY <1>4, <1>5, <1>7, <1>8, <1>9 DEF P

\* So have the accounts.
LEMMA ContactKeys ==
    ASSUME NEW a \in Identities, NEW b \in Identities, NEW p \in Peers, NEW q \in Peers
    PROVE  /\ make_key(a, p) \in Seq(Nat)
           /\ IsPrefix(owner_prefix(a), make_key(b, q)) <=> a = b
           /\ make_key(a, p) = make_key(b, q) => a = b /\ p = q
  <1>. DEFINE k == a \o p
              l == b \o q
  <1>1. /\ a \in Seq(Nat) /\ b \in Seq(Nat) /\ p \in Seq(Nat) /\ q \in Seq(Nat)
        /\ Len(a) = Len(b)
    BY StoreConstants DEF Identities
  <1>2. /\ Len(a) \in Nat /\ Len(p) \in Nat /\ Len(q) \in Nat
        /\ k \in Seq(Nat) /\ Len(k) = Len(a) + Len(p)
        /\ l \in Seq(Nat) /\ Len(l) = Len(b) + Len(q)
    BY <1>1, Concat
  <1>3. /\ \A i \in 1 .. Len(a) : k[i] = a[i]
        /\ \A i \in 1 .. Len(b) : l[i] = b[i]
        /\ \A i \in 1 .. Len(p) : k[i + Len(a)] = p[i]
        /\ \A i \in 1 .. Len(q) : l[i + Len(b)] = q[i]
    BY <1>1, Concat
  <1>4. k = make_key(a, p) /\ l = make_key(b, q) /\ owner_prefix(a) = a
    BY DEF make_key, owner_prefix
  <1>. HIDE DEF k, l
  <1>5. ASSUME \A i \in 1 .. Len(a) : a[i] = l[i]
        PROVE  a = b
    BY <1>5, <1>1, <1>3, SeqEqual
  <1>6. IsPrefix(a, l) <=> a = b
    <2>1. Len(a) =< Len(l)
      BY <1>1, <1>2
    <2>. QED
      BY <2>1, <1>1, <1>2, <1>3, <1>5, PrefixPlaces
  <1>7. ASSUME k = l PROVE a = b /\ p = q
    <2>1. a = b
      BY <1>7, <1>3, <1>5
    <2>2. Len(p) = Len(q)
      BY <1>7, <1>1, <1>2
    <2>3. \A i \in 1 .. Len(p) : p[i] = q[i]
      BY <1>7, <1>1, <1>3, <2>2
    <2>. QED
      BY <2>1, <2>2, <2>3, <1>1, SeqEqual
  <1>. QED
    BY <1>2, <1>4, <1>6, <1>7

\* A set of numbers has a least one.
LEMMA LeastNumber ==
    ASSUME NEW T \in SUBSET Nat, T # {}
    PROVE  \E n \in T : \A k \in T : n =< k
  <1>. DEFINE R == {ss \in Nat \X Nat : ss[1] < ss[2]}
  <1>1. IsWellFoundedOn(R, Nat)
    BY NatLessThanWellFounded, Zenon DEF OpToRel
  <1>2. PICK n \in T : \A k \in T : ~(<<k, n>> \in R)
    <2>. HIDE DEF R
    <2>. QED
      BY <1>1, WFMin
  <1>3. ASSUME NEW k \in T
        PROVE  n =< k
    <2>1. <<k, n>> \in Nat \X Nat /\ <<k, n>>[1] = k /\ <<k, n>>[2] = n
      OBVIOUS
    <2>2. ~(k < n)
      BY <1>2, <2>1
    <2>. QED
      BY <2>2
  <1>. QED
    BY <1>3

\* The order of bytes is irreflexive, transitive and total.
LEMMA BeforeOrder ==
    /\ \A a \in Seq(Nat) : ~Before(a, a)
    /\ \A a, b, c \in Seq(Nat) : Before(a, b) /\ Before(b, c) => Before(a, c)
    /\ \A a, b \in Seq(Nat) : a # b => Before(a, b) \/ Before(b, a)
  <1>1. ASSUME NEW a \in Seq(Nat)
        PROVE  ~Before(a, a)
    BY DEF Before
  <1>2. ASSUME NEW a \in Seq(Nat), NEW b \in Seq(Nat), NEW c \in Seq(Nat),
               Before(a, b), Before(b, c)
        PROVE  Before(a, c)
    <2>1. PICK i \in DOMAIN b :
             /\ \A j \in 1 .. i - 1 : j \in DOMAIN a /\ a[j] = b[j]
             /\ i \in DOMAIN a => a[i] < b[i]
      BY <1>2 DEF Before
    <2>2. PICK k \in DOMAIN c :
             /\ \A j \in 1 .. k - 1 : j \in DOMAIN b /\ b[j] = c[j]
             /\ k \in DOMAIN b => b[k] < c[k]
      BY <1>2 DEF Before
    <2>t. /\ DOMAIN a = 1 .. Len(a) /\ DOMAIN b = 1 .. Len(b) /\ DOMAIN c = 1 .. Len(c)
          /\ Len(a) \in Nat /\ Len(b) \in Nat /\ Len(c) \in Nat
          /\ \A j \in DOMAIN a : a[j] \in Nat
          /\ \A j \in DOMAIN b : b[j] \in Nat
          /\ \A j \in DOMAIN c : c[j] \in Nat
      <3>1. \A s \in Seq(Nat) : /\ DOMAIN s = 1 .. Len(s) /\ Len(s) \in Nat
                                /\ \A j \in DOMAIN s : s[j] \in Nat
        OBVIOUS
      <3>. QED
        BY <3>1, Zenon
    <2>i. i \in 1 .. Len(b) /\ k \in 1 .. Len(c)
      BY <2>t
    <2>3. CASE i < k
      <3>1. i \in 1 .. k - 1 /\ i \in DOMAIN c
        BY <2>3, <2>t, <2>i
      <3>2. b[i] = c[i]
        BY <2>2, <3>1
      <3>3. \A j \in 1 .. i - 1 : j \in DOMAIN a /\ a[j] = c[j]
        BY <2>1, <2>2, <2>3, <2>i
      <3>. QED
        BY <3>1, <3>2, <3>3, <2>1 DEF Before
    <2>4. CASE k =< i
      <3>1. \A j \in 1 .. k - 1 : j \in DOMAIN a /\ a[j] = c[j]
        <4>1. \A j \in 1 .. k - 1 : j \in 1 .. i - 1
          BY <2>4, <2>i
        <4>. QED
          BY <4>1, <2>1, <2>2
      <3>2. k \in DOMAIN a => a[k] < c[k]
        <4>1. k \in DOMAIN b /\ b[k] < c[k]
          BY <2>4, <2>i, <2>t, <2>2
        <4>2. CASE k = i
          BY <4>1, <4>2, <2>1, <2>t
        <4>3. CASE k # i
          <5>1. k \in 1 .. i - 1
            BY <4>3, <2>4, <2>i
          <5>. QED
            BY <5>1, <4>1, <2>1
        <4>. QED
          BY <4>2, <4>3
      <3>. QED
        BY <3>1, <3>2, <2>t DEF Before
    <2>. QED
      BY <2>3, <2>4, <2>t
  <1>3. ASSUME NEW a \in Seq(Nat), NEW b \in Seq(Nat), a # b
        PROVE  Before(a, b) \/ Before(b, a)
    <2>t. /\ DOMAIN a = 1 .. Len(a) /\ DOMAIN b = 1 .. Len(b)
          /\ Len(a) \in Nat /\ Len(b) \in Nat
          /\ \A j \in DOMAIN a : a[j] \in Nat
          /\ \A j \in DOMAIN b : b[j] \in Nat
      OBVIOUS
    <2>. DEFINE T == {i \in Nat \ {0} : ~(i \in DOMAIN a /\ i \in DOMAIN b /\ a[i] = b[i])}
    <2>1. T # {}
      <3>1. Len(a) + 1 \in T
        BY <2>t
      <3>. QED
        BY <3>1
    <2>2. PICK i \in T : \A k \in T : i =< k
      BY <2>1, LeastNumber
    <2>3. \A j \in 1 .. i - 1 : j \in DOMAIN a /\ j \in DOMAIN b /\ a[j] = b[j]
      BY <2>2
    <2>4. i \in DOMAIN a \/ i \in DOMAIN b
      <3>. SUFFICES ASSUME i \notin DOMAIN a, i \notin DOMAIN b PROVE FALSE
        OBVIOUS
      <3>1. Len(a) = i - 1 /\ Len(b) = i - 1
        BY <2>3, <2>t, <2>2
      <3>2. \A j \in 1 .. Len(a) : a[j] = b[j]
        BY <3>1, <2>3
      <3>. QED
        BY <3>1, <3>2, <1>3, SeqEqual
    <2>5. CASE i \in DOMAIN a /\ i \in DOMAIN b
      <3>1. a[i] < b[i] \/ b[i] < a[i]
        BY <2>5, <2>2, <2>t
      <3>. QED
        BY <3>1, <2>3, <2>5 DEF Before
    <2>6. CASE i \notin DOMAIN a
      BY <2>6, <2>3, <2>4 DEF Before
    <2>7. CASE i \notin DOMAIN b
      BY <2>7, <2>3, <2>4 DEF Before
    <2>. QED
      BY <2>5, <2>6, <2>7
  <1>. QED
    BY <1>1, <1>2, <1>3

\* Each of n keys has another number of keys before it, from 0 to n - 1.
LEMMA Ranks ==
    ASSUME NEW S \in SUBSET Seq(Nat), IsFiniteSet(S)
    PROVE  /\ Cardinality(S) \in Nat
           /\ \A k \in S : Rank(S, k) \in 0 .. Cardinality(S) - 1
           /\ \A j, k \in S : Before(j, k) => Rank(S, j) < Rank(S, k)
           /\ \A i \in 1 .. Cardinality(S) : \E k \in S : Rank(S, k) = i - 1
  <1>. DEFINE n == Cardinality(S)
              B(k) == {j \in S : Before(j, k)}
  <1>r. \A k \in S : Rank(S, k) = Cardinality(B(k))
    BY DEF Rank
  <1>1. n \in Nat
    BY FS_CardinalityType
  <1>2. \A k \in S : B(k) \in SUBSET S /\ IsFiniteSet(B(k)) /\ Cardinality(B(k)) \in Nat
    BY FS_Subset, FS_CardinalityType
  <1>3. ASSUME NEW k \in S PROVE Rank(S, k) \in 0 .. n - 1
    <2>1. k \notin B(k)
      BY BeforeOrder
    <2>2. Cardinality(B(k)) =< n /\ (n = Cardinality(B(k)) => S = B(k))
      BY <1>2, FS_Subset
    <2>3. Cardinality(B(k)) # n
      BY <2>1, <2>2
    <2>. QED
      <3>. HIDE DEF B, n
      <3>. QED
        BY <2>2, <2>3, <1>1, <1>2, <1>r
  <1>4. ASSUME NEW j \in S, NEW k \in S, Before(j, k) PROVE Rank(S, j) < Rank(S, k)
    <2>1. B(j) \in SUBSET B(k)
      BY <1>4, BeforeOrder
    <2>2. j \in B(k) /\ j \notin B(j)
      BY <1>4, BeforeOrder
    <2>3. Cardinality(B(j)) =< Cardinality(B(k))
          /\ (Cardinality(B(k)) = Cardinality(B(j)) => B(k) = B(j))
      <3>. HIDE DEF B
      <3>. QED
        BY <1>2, <2>1, FS_Subset
    <2>4. Cardinality(B(k)) # Cardinality(B(j))
      BY <2>2, <2>3
    <2>. QED
      <3>. HIDE DEF B
      <3>. QED
        BY <2>3, <2>4, <1>2, <1>r
  <1>5. \A i \in 1 .. n : \E k \in S : Rank(S, k) = i - 1
    <2>. DEFINE f == [k \in S |-> Rank(S, k)]
                T == 0 .. n - 1
    <2>1. f \in [S -> T]
      BY <1>3
    <2>2. \A j, k \in S : f[j] = f[k] => j = k
      <3>. SUFFICES ASSUME NEW j \in S, NEW k \in S, Rank(S, j) = Rank(S, k), j # k PROVE FALSE
        OBVIOUS
      <3>1. Rank(S, j) \in Nat /\ Rank(S, k) \in Nat
        BY <1>3
      <3>. QED
        BY <3>1, <1>4, BeforeOrder
    <2>3. f \in Injection(S, T)
      BY <2>1, <2>2 DEF Injection, IsInjective
    <2>4. IsFiniteSet(T) /\ Cardinality(T) = n
      BY <1>1, FS_Interval
    <2>5. f \in Surjection(S, T)
      BY <2>3, <2>4, FS_Injection
    <2>6. \A i \in 1 .. n : i - 1 \in T
      BY <1>1
    <2>7. \A x \in T : \E k \in S : f[k] = x
      BY <2>5 DEF Surjection
    <2>. QED
      BY <2>6, <2>7
  <1>. QED
    BY <1>1, <1>3, <1>4, <1>5

\* What a scan of the keys with a prefix returns.
LEMMA Scan ==
    ASSUME NEW db, NEW prefix, IsFiniteSet(DOMAIN db), DOMAIN db \subseteq Seq(Nat)
    PROVE  LET keys == Under(db, prefix)
               values == prefix_scan(db, prefix)
           IN  /\ Cardinality(keys) \in Nat /\ DOMAIN values = 1 .. Cardinality(keys)
               /\ values = [i \in 1 .. Cardinality(keys) |-> db[KeyAt(keys, i)]]
               /\ \A i \in DOMAIN values : KeyAt(keys, i) \in keys
               /\ \A k \in keys : \E i \in DOMAIN values : k = KeyAt(keys, i)
               /\ \A i, j \in DOMAIN values : i < j => Before(KeyAt(keys, i), KeyAt(keys, j))
  <1>. DEFINE keys == Under(db, prefix)
              n == Cardinality(keys)
              values == prefix_scan(db, prefix)
  <1>1. keys \in SUBSET Seq(Nat) /\ IsFiniteSet(keys)
    <2>1. keys \in SUBSET DOMAIN db
      BY DEF Under
    <2>. QED
      BY <2>1, FS_Subset
  <1>2. values = [i \in 1 .. n |-> db[KeyAt(keys, i)]]
    BY DEF prefix_scan
  <1>. HIDE DEF keys, values
  <1>3. /\ n \in Nat
        /\ \A k \in keys : Rank(keys, k) \in 0 .. n - 1
        /\ \A j, k \in keys : Before(j, k) => Rank(keys, j) < Rank(keys, k)
        /\ \A i \in 1 .. n : \E k \in keys : Rank(keys, k) = i - 1
    BY <1>1, Ranks
  <1>4. \A i \in 1 .. n : KeyAt(keys, i) \in keys /\ Rank(keys, KeyAt(keys, i)) = i - 1
    BY <1>3 DEF KeyAt
  <1>5. \A j, k \in keys : Rank(keys, j) = Rank(keys, k) => j = k
    <2>. SUFFICES ASSUME NEW j \in keys, NEW k \in keys, Rank(keys, j) = Rank(keys, k), j # k
                  PROVE  FALSE
      OBVIOUS
    <2>1. j \in Seq(Nat) /\ k \in Seq(Nat)
      BY <1>1
    <2>2. Rank(keys, j) \in Nat
      BY <1>3
    <2>. QED
      BY <2>1, <2>2, <1>3, BeforeOrder
  <1>6. ASSUME NEW k \in keys PROVE \E i \in 1 .. n : k = KeyAt(keys, i)
    <2>1. Rank(keys, k) + 1 \in 1 .. n /\ (Rank(keys, k) + 1) - 1 = Rank(keys, k)
      BY <1>3
    <2>. QED
      BY <2>1, <1>4, <1>5
  <1>7. ASSUME NEW i \in 1 .. n, NEW j \in 1 .. n, i < j
        PROVE  Before(KeyAt(keys, i), KeyAt(keys, j))
    <2>1. KeyAt(keys, i) # KeyAt(keys, j) /\ ~Before(KeyAt(keys, j), KeyAt(keys, i))
      BY <1>3, <1>4, <1>7
    <2>2. KeyAt(keys, i) \in Seq(Nat) /\ KeyAt(keys, j) \in Seq(Nat)
      BY <1>1, <1>4
    <2>. QED
      BY <2>1, <2>2, BeforeOrder
  <1>8. DOMAIN values = 1 .. n
    BY <1>2
  <1>. QED
    BY <1>2, <1>3, <1>4, <1>6, <1>7, <1>8 DEF keys, values

----------------------------------------------------------------------------
(* Sectors and contacts: the inductive invariant *)

\* The sector that append_sector wrote for a scope under an id, when S says
\* what was sealed.
TheSector(S, sc, id) ==
    LET w == S[id]
    IN  [id |-> id, identity_id |-> sc[1], machine_id |-> sc[2],
         payload |-> seal_envelope(w.plaintext, w.aad, w.keys,
                                   SigningKeys(w.aad.sender_identity), <<id>>).ok,
         prev |-> w.aad.prev_sector_id]

\* The public keys of p after n rotations.
PublicKeys(p, n) == KeysOf(p, n).public

\* What is remembered of a sector: its AAD names it, it was sealed for keys its
\* recipient has or had, and its predecessor was there before, with the smaller
\* id unless the clock was set back.
WrittenOK(id) ==
    LET w == sealed[id]
        prev == w.aad.prev_sector_id
    IN  /\ w.plaintext \in Plaintexts /\ w.recipient \in Peers
        /\ w.aad = [f \in DOMAIN ReadAs |-> w.aad[f]] /\ w.aad.sector_id = id
        /\ \E n \in 0 .. rotations[w.recipient] : w.keys = PublicKeys(w.recipient, n)
        /\ prev \in DOMAIN sealed \cup {NoId}
        /\ stepped \/ (id =< last_id /\ (prev = NoId \/ prev < id))

\* So for every id that was given out.
SealsOK ==
    /\ last_id \in Nat /\ stepped \in BOOLEAN
    /\ rotations \in [Peers -> Nat]
    /\ DOMAIN sealed \subseteq 1 .. MaxSectorId
    /\ \A id \in DOMAIN sealed : WrittenOK(id)

\* CF_SECTORS holds under a scope's key the sector that was written for the
\* scope, and nothing else.
SectorsOK(db, S) ==
    /\ IsFiniteSet(DOMAIN db)
    /\ \A key \in DOMAIN db : \E sc \in Scopes, id \in DOMAIN S :
          /\ key = make_sector_key(sc[1], sc[2], id)
          /\ db[key] = encode_sector(TheSector(S, sc, id))

\* The keys of a moment, or with one that was cut short.
KnownKeys(p, n) == {PublicKeys(p, n), [PublicKeys(p, n) EXCEPT !.mlkem_encap_key = Truncated]}

\* A contact.
Entry(p, label, keys) == [identity_id |-> p, label |-> label, machine_keys |-> keys]

\* CF_CONTACTS holds contacts, each under the key of an account and itself.
ContactsOK(db, rot) ==
    /\ IsFiniteSet(DOMAIN db)
    /\ \A key \in DOMAIN db : \E a \in Identities, p \in Peers, label \in Labels :
          \E n \in 0 .. rot[p] : \E keys \in KnownKeys(p, n) :
             /\ key = make_key(a, p)
             /\ db[key] = encode_contact(Entry(p, label, keys))

\* The invariant of sectors and contacts.
StoreInv ==
    /\ using \in Workloads
    /\ sdk # NotRunning => sdk.identity_id \in Identities
    /\ SealsOK
    /\ SectorsOK(cf_sectors, sealed)
    /\ ContactsOK(cf_contacts, rotations)

----------------------------------------------------------------------------

\* What was encoded is decoded.
LEMMA SectorRoundTrip ==
    ASSUME NEW S, NEW sc, NEW id
    PROVE  decode_sector(encode_sector(TheSector(S, sc, id))) = TheSector(S, sc, id)
  <1>. DEFINE s == TheSector(S, sc, id)
  <1>1. s = [id |-> s.id, identity_id |-> s.identity_id, machine_id |-> s.machine_id,
             payload |-> s.payload, prev |-> s.prev]
    BY DEF TheSector
  <1>. HIDE DEF s
  <1>2. CASE s.prev = NoId
    <2>1. encode_sector(s) = <<s.id, s.identity_id, s.machine_id, s.payload, <<0>>>>
      BY <1>2 DEF encode_sector
    <2>. QED
      BY <2>1, <1>1, <1>2 DEF decode_sector, s
  <1>3. CASE s.prev # NoId
    <2>1. encode_sector(s) = <<s.id, s.identity_id, s.machine_id, s.payload, <<1, s.prev>>>>
      BY <1>3 DEF encode_sector
    <2>. QED
      BY <2>1, <1>1 DEF decode_sector, s
  <1>. QED
    BY <1>2, <1>3

\* So is a contact.
LEMMA ContactRoundTrip ==
    ASSUME NEW p, NEW label, NEW keys
    PROVE  decode_contact(encode_contact(Entry(p, label, keys))) = Entry(p, label, keys)
  BY DEF decode_contact, encode_contact, Entry

\* The chain of a scope in db.
Chain(db, sc) ==
    LET values == prefix_scan(db, make_scope_prefix(sc[1], sc[2]))
    IN  [i \in DOMAIN values |-> decode_sector(values[i])]

\* The ids under which db has a sector of the scope.
Held(db, S, sc) == {id \in DOMAIN S : make_sector_key(sc[1], sc[2], id) \in DOMAIN db}

\* It has the sectors of the scope and no others, in the order of their ids.
LEMMA ChainHolds ==
    ASSUME NEW db, NEW S, DOMAIN S \subseteq Nat, SectorsOK(db, S), NEW sc \in Scopes
    PROVE  LET c == Chain(db, sc)
           IN  /\ \E n \in Nat : DOMAIN c = 1 .. n /\ c = [i \in 1 .. n |-> c[i]]
               /\ \A i \in DOMAIN c : /\ c[i].id \in Held(db, S, sc)
                                      /\ c[i] = TheSector(S, sc, c[i].id)
               /\ \A id \in Held(db, S, sc) : \E i \in DOMAIN c : c[i] = TheSector(S, sc, id)
               /\ \A i, j \in DOMAIN c : i < j => c[i].id < c[j].id
  <1>. DEFINE P == make_scope_prefix(sc[1], sc[2])
              keys == Under(db, P)
              n == Cardinality(keys)
              values == prefix_scan(db, P)
              c == Chain(db, sc)
              Key(id) == make_sector_key(sc[1], sc[2], id)
  <1>1. IsFiniteSet(DOMAIN db) /\ DOMAIN db \subseteq Seq(Nat)
    BY SectorKeys DEF SectorsOK
  <1>2. /\ n \in Nat /\ DOMAIN values = 1 .. n
        /\ values = [i \in 1 .. n |-> db[KeyAt(keys, i)]]
        /\ \A i \in DOMAIN values : KeyAt(keys, i) \in keys
        /\ \A k \in keys : \E i \in DOMAIN values : k = KeyAt(keys, i)
        /\ \A i, j \in DOMAIN values : i < j => Before(KeyAt(keys, i), KeyAt(keys, j))
    BY <1>1, Scan
  <1>3. c = [i \in 1 .. n |-> decode_sector(db[KeyAt(keys, i)])]
    BY <1>2 DEF Chain
  <1>4. \A k \in keys : \E id \in Held(db, S, sc) :
           k = Key(id) /\ db[k] = encode_sector(TheSector(S, sc, id))
    <2>. SUFFICES ASSUME NEW k \in keys
                  PROVE  \E id \in Held(db, S, sc) :
                            k = Key(id) /\ db[k] = encode_sector(TheSector(S, sc, id))
      OBVIOUS
    <2>1. k \in DOMAIN db /\ IsPrefix(P, k)
      BY DEF Under
    <2>2. PICK sd \in Scopes, id \in DOMAIN S :
             /\ k = make_sector_key(sd[1], sd[2], id)
             /\ db[k] = encode_sector(TheSector(S, sd, id))
      BY <2>1 DEF SectorsOK
    <2>3. sd = sc
      BY <2>1, <2>2, SectorKeys
    <2>. QED
      BY <2>1, <2>2, <2>3 DEF Held
  <1>5. \A id \in Held(db, S, sc) : Key(id) \in keys
    BY SectorKeys DEF Held, Under
  <1>. HIDE DEF keys, values, c, n, P
  <1>6. ASSUME NEW i \in 1 .. n
        PROVE  \E id \in Held(db, S, sc) : KeyAt(keys, i) = Key(id) /\ c[i] = TheSector(S, sc, id)
    BY <1>2, <1>3, <1>4, SectorRoundTrip
  <1>7. \A id : TheSector(S, sc, id).id = id
    BY DEF TheSector
  <1>8. \A i \in 1 .. n : /\ c[i].id \in Held(db, S, sc) /\ c[i] = TheSector(S, sc, c[i].id)
                          /\ KeyAt(keys, i) = Key(c[i].id)
    BY <1>6, <1>7
  <1>9. ASSUME NEW id \in Held(db, S, sc)
        PROVE  \E i \in 1 .. n : c[i] = TheSector(S, sc, id)
    <2>1. PICK i \in 1 .. n : Key(id) = KeyAt(keys, i)
      BY <1>2, <1>5
    <2>2. Key(id) = Key(c[i].id) /\ id \in Nat /\ c[i].id \in Nat
      BY <2>1, <1>8 DEF Held
    <2>3. id = c[i].id
      BY <2>2, SectorKeys
    <2>. QED
      BY <2>3, <1>8
  <1>10. ASSUME NEW i \in 1 .. n, NEW j \in 1 .. n, i < j PROVE c[i].id < c[j].id
    <2>1. Before(Key(c[i].id), Key(c[j].id)) /\ c[i].id \in Nat /\ c[j].id \in Nat
      BY <1>2, <1>8, <1>10 DEF Held
    <2>. QED
      BY <2>1, SectorKeys
  <1>11. DOMAIN c = 1 .. n /\ c = [i \in 1 .. n |-> c[i]]
    BY <1>3
  <1>. QED
    BY <1>2, <1>8, <1>9, <1>10, <1>11 DEF c

----------------------------------------------------------------------------
(* What the steps do to books and chains *)

\* The address book of an account in db.
Book(db, a) ==
    LET values == prefix_scan(db, owner_prefix(a))
    IN  ToSet([i \in DOMAIN values |-> decode_contact(values[i])])

\* The entries for others, and the other sectors.
NotFor(p, entry) == {o \in entry : o.identity_id # p}
But(id, sectors) == {o \in sectors : o.id # id}

\* The contacts that db has for an account, and what it has for one.
Kept(db, a) == {p \in Peers : make_key(a, p) \in DOMAIN db}
Read(db, a, p) == decode_contact(db[make_key(a, p)])

\* What is stored under the key of an account's contact is that contact.
LEMMA ContactAt ==
    ASSUME NEW db, NEW rot, ContactsOK(db, rot), NEW a \in Identities, NEW p \in Kept(db, a)
    PROVE  /\ \E label \in Labels : \E n \in 0 .. rot[p] : \E keys \in KnownKeys(p, n) :
                 Read(db, a, p) = Entry(p, label, keys)
           /\ Read(db, a, p).identity_id = p
  <1>1. p \in Peers /\ make_key(a, p) \in DOMAIN db
    BY DEF Kept
  <1>2. PICK b \in Identities, q \in Peers, label \in Labels : \E n \in 0 .. rot[q] :
           \E keys \in KnownKeys(q, n) : /\ make_key(a, p) = make_key(b, q)
                                         /\ db[make_key(a, p)] = encode_contact(Entry(q, label, keys))
    BY <1>1 DEF ContactsOK
  <1>3. p = q
    BY <1>1, <1>2, ContactKeys
  <1>4. PICK n \in 0 .. rot[p] : \E keys \in KnownKeys(p, n) :
           db[make_key(a, p)] = encode_contact(Entry(p, label, keys))
    BY <1>2, <1>3
  <1>5. PICK keys \in KnownKeys(p, n) : Read(db, a, p) = Entry(p, label, keys)
    BY <1>4, ContactRoundTrip DEF Read
  <1>. QED
    BY <1>5 DEF Entry

\* The book has the account's contacts and no others.
LEMMA BookHolds ==
    ASSUME NEW db, NEW rot, ContactsOK(db, rot), NEW a \in Identities
    PROVE  Book(db, a) = {Read(db, a, p) : p \in Kept(db, a)}
  <1>. DEFINE keys == Under(db, owner_prefix(a))
              n == Cardinality(keys)
              values == prefix_scan(db, owner_prefix(a))
  <1>1. IsFiniteSet(DOMAIN db) /\ DOMAIN db \subseteq Seq(Nat)
    BY ContactKeys DEF ContactsOK
  <1>2. /\ DOMAIN values = 1 .. n
        /\ values = [i \in 1 .. n |-> db[KeyAt(keys, i)]]
        /\ \A i \in DOMAIN values : KeyAt(keys, i) \in keys
        /\ \A k \in keys : \E i \in DOMAIN values : k = KeyAt(keys, i)
    BY <1>1, Scan
  <1>3. \A k \in keys : \E p \in Kept(db, a) : k = make_key(a, p)
    <2>. SUFFICES ASSUME NEW k \in keys PROVE \E p \in Kept(db, a) : k = make_key(a, p)
      OBVIOUS
    <2>1. k \in DOMAIN db /\ IsPrefix(owner_prefix(a), k)
      BY DEF Under
    <2>2. PICK b \in Identities, p \in Peers : k = make_key(b, p)
      BY <2>1 DEF ContactsOK
    <2>. QED
      BY <2>1, <2>2, ContactKeys DEF Kept
  <1>4. \A p \in Kept(db, a) : make_key(a, p) \in keys
    BY ContactKeys DEF Kept, Under
  <1>. HIDE DEF keys, values, n
  <1>5. Book(db, a) = {decode_contact(values[i]) : i \in 1 .. n}
    BY <1>2 DEF Book, ToSet, values
  <1>6. \A i \in 1 .. n : \E p \in Kept(db, a) : decode_contact(values[i]) = Read(db, a, p)
    BY <1>2, <1>3 DEF Read
  <1>7. \A p \in Kept(db, a) : \E i \in 1 .. n : decode_contact(values[i]) = Read(db, a, p)
    BY <1>2, <1>4 DEF Read
  <1>. QED
    BY <1>5, <1>6, <1>7

\* Contacts are still contacts after more rotations.
LEMMA ContactsKept ==
    ASSUME NEW db, NEW rot \in [Peers -> Nat], NEW rot2 \in [Peers -> Nat], ContactsOK(db, rot),
           \A p \in Peers : rot[p] =< rot2[p]
    PROVE  ContactsOK(db, rot2)
  <1>1. \A p \in Peers : 0 .. rot[p] \subseteq 0 .. rot2[p]
    OBVIOUS
  <1>. QED
    BY <1>1 DEF ContactsOK

\* Adding a contact replaces the entry of the account's book for it, and
\* touches no other entry and no other book.
LEMMA AddsEntry ==
    ASSUME NEW db, NEW rot, ContactsOK(db, rot), NEW a \in Identities, NEW p \in Peers,
           NEW label \in Labels, NEW n \in 0 .. rot[p], NEW keys \in KnownKeys(p, n),
           NEW e, e = Entry(p, label, keys),
           NEW db2, db2 = put_cf(db, make_key(a, p), encode_contact(e))
    PROVE  /\ ContactsOK(db2, rot)
           /\ Book(db2, a) = NotFor(p, Book(db, a)) \cup {e}
           /\ \A b \in Identities : b # a => Book(db2, b) = Book(db, b)
  <1>. DEFINE key == make_key(a, p)
  <1>1. /\ DOMAIN db2 = DOMAIN db \cup {key} /\ db2[key] = encode_contact(e)
        /\ \A k \in DOMAIN db : k # key => db2[k] = db[k]
    BY DEF put_cf
  <1>. HIDE DEF key
  <1>2. ContactsOK(db2, rot)
    <2>1. IsFiniteSet(DOMAIN db2)
      BY <1>1, FS_AddElement DEF ContactsOK
    <2>2. ASSUME NEW k \in DOMAIN db2
          PROVE  \E c \in Identities, q \in Peers, l \in Labels : \E m \in 0 .. rot[q] :
                    \E ks \in KnownKeys(q, m) : /\ k = make_key(c, q)
                                                /\ db2[k] = encode_contact(Entry(q, l, ks))
      <3>1. CASE k = key
        BY <3>1, <1>1 DEF key
      <3>2. CASE k # key
        <4>1. k \in DOMAIN db /\ db2[k] = db[k]
          BY <3>2, <1>1
        <4>. QED
          BY <4>1 DEF ContactsOK
      <3>. QED
        BY <3>1, <3>2
    <2>. QED
      BY <2>1, <2>2 DEF ContactsOK
  <1>3. Kept(db2, a) = Kept(db, a) \cup {p}
    <2>1. \A q \in Peers : make_key(a, q) = key => q = p
      BY ContactKeys DEF key
    <2>. QED
      BY <2>1, <1>1 DEF Kept, key
  <1>4. \A q \in Kept(db, a) : q # p => Read(db2, a, q) = Read(db, a, q)
    BY <1>1, ContactKeys DEF Kept, Read, key
  <1>5. Read(db2, a, p) = e
    BY <1>1, ContactRoundTrip DEF Read, key
  <1>6. /\ Book(db2, a) = {Read(db2, a, q) : q \in Kept(db2, a)}
        /\ Book(db, a) = {Read(db, a, q) : q \in Kept(db, a)}
    BY <1>2, BookHolds
  <1>7. \A q \in Kept(db, a) : Read(db, a, q).identity_id = q
    BY ContactAt
  <1>8. Book(db2, a) = NotFor(p, Book(db, a)) \cup {e}
    BY <1>3, <1>4, <1>5, <1>6, <1>7 DEF NotFor
  <1>9. ASSUME NEW b \in Identities, b # a PROVE Book(db2, b) = Book(db, b)
    <2>1. \A q \in Peers : make_key(b, q) # key
      BY <1>9, ContactKeys DEF key
    <2>2. Kept(db2, b) = Kept(db, b)
      BY <2>1, <1>1 DEF Kept
    <2>3. \A q \in Kept(db, b) : Read(db2, b, q) = Read(db, b, q)
      BY <2>1, <1>1 DEF Kept, Read
    <2>4. /\ Book(db2, b) = {Read(db2, b, q) : q \in Kept(db2, b)}
          /\ Book(db, b) = {Read(db, b, q) : q \in Kept(db, b)}
      BY <1>2, BookHolds
    <2>. QED
      BY <2>2, <2>3, <2>4
  <1>. QED
    BY <1>2, <1>8, <1>9

\* Removing a contact takes its entry out of the account's book.
LEMMA RemovesEntry ==
    ASSUME NEW db, NEW rot, ContactsOK(db, rot), NEW a \in Identities, NEW p \in Peers,
           NEW db2, db2 = delete_cf(db, make_key(a, p))
    PROVE  /\ ContactsOK(db2, rot)
           /\ Book(db2, a) = NotFor(p, Book(db, a))
           /\ \A b \in Identities : b # a => Book(db2, b) = Book(db, b)
  <1>. DEFINE key == make_key(a, p)
  <1>1. /\ DOMAIN db2 = DOMAIN db \ {key}
        /\ \A k \in DOMAIN db : k # key => db2[k] = db[k]
    BY DEF delete_cf, Restrict
  <1>. HIDE DEF key
  <1>2. ContactsOK(db2, rot)
    <2>1. IsFiniteSet(DOMAIN db2)
      BY <1>1, FS_RemoveElement DEF ContactsOK
    <2>2. \A k \in DOMAIN db2 : k \in DOMAIN db /\ db2[k] = db[k]
      BY <1>1
    <2>. QED
      BY <2>1, <2>2 DEF ContactsOK
  <1>3. Kept(db2, a) = Kept(db, a) \ {p}
    <2>1. \A q \in Peers : make_key(a, q) = key => q = p
      BY ContactKeys DEF key
    <2>. QED
      BY <2>1, <1>1 DEF Kept, key
  <1>4. \A q \in Kept(db, a) : q # p => Read(db2, a, q) = Read(db, a, q)
    BY <1>1, ContactKeys DEF Kept, Read, key
  <1>6. /\ Book(db2, a) = {Read(db2, a, q) : q \in Kept(db2, a)}
        /\ Book(db, a) = {Read(db, a, q) : q \in Kept(db, a)}
    BY <1>2, BookHolds
  <1>7. \A q \in Kept(db, a) : Read(db, a, q).identity_id = q
    BY ContactAt
  <1>8. Book(db2, a) = NotFor(p, Book(db, a))
    BY <1>3, <1>4, <1>6, <1>7 DEF NotFor
  <1>9. ASSUME NEW b \in Identities, b # a PROVE Book(db2, b) = Book(db, b)
    <2>1. \A q \in Peers : make_key(b, q) # key
      BY <1>9, ContactKeys DEF key
    <2>2. Kept(db2, b) = Kept(db, b)
      BY <2>1, <1>1 DEF Kept
    <2>3. \A q \in Kept(db, b) : Read(db2, b, q) = Read(db, b, q)
      BY <2>1, <1>1 DEF Kept, Read
    <2>4. /\ Book(db2, b) = {Read(db2, b, q) : q \in Kept(db2, b)}
          /\ Book(db, b) = {Read(db, b, q) : q \in Kept(db, b)}
      BY <1>2, BookHolds
    <2>. QED
      BY <2>2, <2>3, <2>4
  <1>. QED
    BY <1>2, <1>8, <1>9

\* Ids increase along a chain.
InOrder(c) == \A i, j \in DOMAIN c : i < j => c[i].id < c[j].id

\* A chain as a set: the sectors that are held for the scope.
LEMMA ChainSet ==
    ASSUME NEW db, NEW S, DOMAIN S \subseteq Nat, SectorsOK(db, S), NEW sc \in Scopes
    PROVE  LET c == Chain(db, sc)
           IN  /\ ToSet(c) = {TheSector(S, sc, id) : id \in Held(db, S, sc)}
               /\ c \in Seq(ToSet(c)) /\ InOrder(c)
  <1>. DEFINE c == Chain(db, sc)
  <1>1. /\ \E n \in Nat : DOMAIN c = 1 .. n /\ c = [i \in 1 .. n |-> c[i]]
        /\ \A i \in DOMAIN c : /\ c[i].id \in Held(db, S, sc)
                               /\ c[i] = TheSector(S, sc, c[i].id)
        /\ \A id \in Held(db, S, sc) : \E i \in DOMAIN c : c[i] = TheSector(S, sc, id)
        /\ \A i, j \in DOMAIN c : i < j => c[i].id < c[j].id
    BY ChainHolds
  <1>. HIDE DEF c
  <1>2. ToSet(c) = {TheSector(S, sc, id) : id \in Held(db, S, sc)}
    BY <1>1 DEF ToSet
  <1>3. PICK n \in Nat : DOMAIN c = 1 .. n /\ c = [i \in 1 .. n |-> c[i]]
    BY <1>1
  <1>4. \A i \in 1 .. n : c[i] \in ToSet(c)
    BY <1>3 DEF ToSet
  <1>5. c \in [1 .. n -> ToSet(c)]
    BY <1>3, <1>4
  <1>6. c \in Seq(ToSet(c))
    BY <1>5
  <1>. QED
    BY <1>1, <1>2, <1>6 DEF InOrder, c

\* What is stored under the key of a sector is that sector.
LEMMA SectorAt ==
    ASSUME NEW db, NEW S, DOMAIN S \subseteq Nat, SectorsOK(db, S), NEW sc \in Scopes,
           NEW id \in Held(db, S, sc)
    PROVE  decode_sector(db[make_sector_key(sc[1], sc[2], id)]) = TheSector(S, sc, id)
  <1>1. id \in DOMAIN S /\ id \in Nat /\ make_sector_key(sc[1], sc[2], id) \in DOMAIN db
    BY DEF Held
  <1>2. PICK sd \in Scopes, ie \in DOMAIN S :
           /\ make_sector_key(sc[1], sc[2], id) = make_sector_key(sd[1], sd[2], ie)
           /\ db[make_sector_key(sc[1], sc[2], id)] = encode_sector(TheSector(S, sd, ie))
    BY <1>1 DEF SectorsOK
  <1>3. sc = sd /\ id = ie
    BY <1>1, <1>2, SectorKeys
  <1>. QED
    BY <1>2, <1>3, SectorRoundTrip

\* A chain does not see what happens to the keys of another.
LEMMA OtherChain ==
    ASSUME NEW db, NEW db2, NEW sc \in Scopes, NEW sd \in Scopes, sd # sc, NEW id \in Nat,
           NEW key, key = make_sector_key(sc[1], sc[2], id),
           DOMAIN db2 \cup {key} = DOMAIN db \cup {key},
           \A k \in DOMAIN db : k # key => db2[k] = db[k],
           IsFiniteSet(DOMAIN db), DOMAIN db \subseteq Seq(Nat)
    PROVE  Chain(db2, sd) = Chain(db, sd)
  <1>. DEFINE P == make_scope_prefix(sd[1], sd[2])
              keys == Under(db, P)
              n == Cardinality(keys)
  <1>1. ~IsPrefix(P, key)
    BY SectorKeys
  <1>2. Under(db2, P) = keys
    BY <1>1 DEF Under
  <1>3. /\ n \in Nat /\ DOMAIN prefix_scan(db, P) = 1 .. n
        /\ \A i \in DOMAIN prefix_scan(db, P) : KeyAt(keys, i) \in keys
        /\ prefix_scan(db, P) = [i \in 1 .. n |-> db[KeyAt(keys, i)]]
    BY Scan
  <1>4. \A k \in keys : k \in DOMAIN db /\ k # key
    BY <1>1 DEF Under
  <1>. HIDE DEF keys, n, P
  <1>5. prefix_scan(db2, P) = [i \in 1 .. n |-> db2[KeyAt(keys, i)]]
    BY <1>2 DEF prefix_scan, n
  <1>6. prefix_scan(db2, P) = prefix_scan(db, P)
    BY <1>3, <1>4, <1>5
  <1>. QED
    BY <1>6 DEF Chain, P

\* db2 is db with a new sector.
Gains(db, S, sc, id, db2, S2) ==
    LET key == make_sector_key(sc[1], sc[2], id)
    IN  /\ DOMAIN S \subseteq Nat /\ SectorsOK(db, S) /\ sc \in Scopes
        /\ id \in Nat /\ id \notin DOMAIN S
        /\ DOMAIN S2 = DOMAIN S \cup {id} /\ \A i \in DOMAIN S : S2[i] = S[i]
        /\ DOMAIN db2 = DOMAIN db \cup {key} /\ db2[key] = encode_sector(TheSector(S2, sc, id))
        /\ \A k \in DOMAIN db : k # key => db2[k] = db[k]

\* A new sector goes to its scope's chain and to no other.
LEMMA AddsSector ==
    ASSUME NEW db, NEW S, NEW sc, NEW id, NEW db2, NEW S2, Gains(db, S, sc, id, db2, S2)
    PROVE  /\ SectorsOK(db2, S2)
           /\ LET s == TheSector(S2, sc, id)
              IN  /\ s.id = id
                  /\ ToSet(Chain(db2, sc)) = But(id, ToSet(Chain(db, sc))) \cup {s}
           /\ \A sd \in Scopes : sd # sc => Chain(db2, sd) = Chain(db, sd)
  <1>. DEFINE s == TheSector(S2, sc, id)
  <1>1. PICK key : key = make_sector_key(sc[1], sc[2], id)
    OBVIOUS
  <1>0. /\ DOMAIN S \subseteq Nat /\ SectorsOK(db, S) /\ sc \in Scopes
        /\ id \in Nat /\ id \notin DOMAIN S
        /\ DOMAIN S2 = DOMAIN S \cup {id} /\ \A i \in DOMAIN S : S2[i] = S[i]
        /\ DOMAIN db2 = DOMAIN db \cup {key} /\ db2[key] = encode_sector(s)
        /\ \A k \in DOMAIN db : k # key => db2[k] = db[k]
    BY <1>1 DEF Gains
  <1>. USE <1>0, <1>1
  <1>2. \A i \in DOMAIN S : S2[i] = S[i] /\ i # id
    OBVIOUS
  <1>3. DOMAIN S2 \subseteq Nat
    OBVIOUS
  <1>4. \A sd, i : i \in DOMAIN S => TheSector(S2, sd, i) = TheSector(S, sd, i)
    BY <1>2 DEF TheSector
  <1>5. SectorsOK(db2, S2)
    <2>1. IsFiniteSet(DOMAIN db2)
      BY FS_AddElement DEF SectorsOK
    <2>2. ASSUME NEW k \in DOMAIN db2
          PROVE  \E sd \in Scopes, i \in DOMAIN S2 :
                    k = make_sector_key(sd[1], sd[2], i) /\ db2[k] = encode_sector(TheSector(S2, sd, i))
      <3>1. CASE k = key
        BY <3>1, <1>3
      <3>2. CASE k # key
        <4>1. k \in DOMAIN db /\ db2[k] = db[k]
          BY <3>2
        <4>2. PICK sd \in Scopes, i \in DOMAIN S :
                 k = make_sector_key(sd[1], sd[2], i) /\ db[k] = encode_sector(TheSector(S, sd, i))
          BY <4>1 DEF SectorsOK
        <4>. QED
          BY <4>1, <4>2, <1>3, <1>4
      <3>. QED
        BY <3>1, <3>2
    <2>. QED
      BY <2>1, <2>2 DEF SectorsOK
  <1>6. /\ ToSet(Chain(db2, sc)) = {TheSector(S2, sc, i) : i \in Held(db2, S2, sc)}
        /\ ToSet(Chain(db, sc)) = {TheSector(S, sc, i) : i \in Held(db, S, sc)}
    BY <1>3, <1>5, ChainSet
  <1>7. Held(db2, S2, sc) = Held(db, S, sc) \cup {id}
    <2>1. \A i \in DOMAIN S : make_sector_key(sc[1], sc[2], i) # key
      BY <1>2, SectorKeys
    <2>. QED
      BY <2>1 DEF Held
  <1>8. \A i \in Held(db, S, sc) : i \in DOMAIN S /\ i # id
    BY <1>2 DEF Held
  <1>9. s.id = id /\ \A i : TheSector(S, sc, i).id = i
    BY DEF TheSector
  <1>10. ToSet(Chain(db2, sc)) = But(id, ToSet(Chain(db, sc))) \cup {s}
    <2>1. \A i \in Held(db, S, sc) : TheSector(S2, sc, i) = TheSector(S, sc, i) /\ i # id
      BY <1>4, <1>8
    <2>. HIDE DEF s
    <2>. QED
      BY <2>1, <1>6, <1>7, <1>9 DEF s, But
  <1>11. IsFiniteSet(DOMAIN db) /\ DOMAIN db \subseteq Seq(Nat)
    BY SectorKeys DEF SectorsOK
  <1>12. ASSUME NEW sd \in Scopes, sd # sc PROVE Chain(db2, sd) = Chain(db, sd)
    <2>1. DOMAIN db2 \cup {key} = DOMAIN db \cup {key}
      OBVIOUS
    <2>. QED
      BY <2>1, <1>11, <1>12, OtherChain
  <1>. QED
    BY <1>5, <1>9, <1>10, <1>12

\* A sector that is deleted is gone from its scope's chain, and from no other.
LEMMA RemovesSector ==
    ASSUME NEW db, NEW S, DOMAIN S \subseteq Nat, SectorsOK(db, S), NEW sc \in Scopes,
           NEW id \in Nat, NEW db2, db2 = delete_cf(db, make_sector_key(sc[1], sc[2], id))
    PROVE  /\ SectorsOK(db2, S)
           /\ ToSet(Chain(db2, sc)) = But(id, ToSet(Chain(db, sc)))
           /\ \A sd \in Scopes : sd # sc => Chain(db2, sd) = Chain(db, sd)
           /\ (id \notin Held(db, S, sc)) => Chain(db2, sc) = Chain(db, sc)
  <1>. DEFINE key == make_sector_key(sc[1], sc[2], id)
  <1>1. /\ DOMAIN db2 = DOMAIN db \ {key}
        /\ \A k \in DOMAIN db : k # key => db2[k] = db[k]
        /\ db2 = [k \in DOMAIN db \ {key} |-> db[k]]
    BY DEF delete_cf, Restrict
  <1>. HIDE DEF key
  <1>2. SectorsOK(db2, S)
    <2>1. IsFiniteSet(DOMAIN db2)
      BY <1>1, FS_RemoveElement DEF SectorsOK
    <2>2. \A k \in DOMAIN db2 : k \in DOMAIN db /\ db2[k] = db[k]
      BY <1>1
    <2>. QED
      BY <2>1, <2>2 DEF SectorsOK
  <1>3. /\ ToSet(Chain(db2, sc)) = {TheSector(S, sc, i) : i \in Held(db2, S, sc)}
        /\ ToSet(Chain(db, sc)) = {TheSector(S, sc, i) : i \in Held(db, S, sc)}
    BY <1>2, ChainSet
  <1>4. Held(db2, S, sc) = Held(db, S, sc) \ {id}
    <2>1. \A i \in DOMAIN S : make_sector_key(sc[1], sc[2], i) = key => i = id
      BY SectorKeys DEF key
    <2>. QED
      BY <2>1, <1>1 DEF Held, key
  <1>5. \A i : TheSector(S, sc, i).id = i
    BY DEF TheSector
  <1>6. ToSet(Chain(db2, sc)) = But(id, ToSet(Chain(db, sc)))
    BY <1>3, <1>4, <1>5 DEF But
  <1>7. IsFiniteSet(DOMAIN db) /\ DOMAIN db \subseteq Seq(Nat)
    BY SectorKeys DEF SectorsOK
  <1>8. ASSUME NEW sd \in Scopes, sd # sc PROVE Chain(db2, sd) = Chain(db, sd)
    <2>1. DOMAIN db2 \cup {key} = DOMAIN db \cup {key}
      BY <1>1
    <2>. QED
      BY <2>1, <1>1, <1>7, <1>8, OtherChain DEF key
  <1>9. ASSUME id \notin Held(db, S, sc) PROVE Chain(db2, sc) = Chain(db, sc)
    <2>. DEFINE P == make_scope_prefix(sc[1], sc[2])
                keys == Under(db, P)
    <2>1. key \notin keys
      <3>1. SUFFICES ASSUME key \in DOMAIN db PROVE FALSE
        BY DEF Under
      <3>2. PICK sd \in Scopes, ie \in DOMAIN S : key = make_sector_key(sd[1], sd[2], ie)
        BY <3>1 DEF SectorsOK
      <3>3. id = ie
        BY <3>2, SectorKeys DEF key
      <3>. QED
        BY <3>1, <3>2, <3>3, <1>9 DEF Held, key
    <2>2. Under(db2, P) = keys
      BY <2>1, <1>1 DEF Under
    <2>3. \A k \in keys : k \in DOMAIN db /\ k # key
      BY <2>1 DEF Under
    <2>4. \A i \in 1 .. Cardinality(keys) : KeyAt(keys, i) \in keys
      BY <1>7, Scan
    <2>. HIDE DEF keys, P
    <2>5. prefix_scan(db2, P) = prefix_scan(db, P)
      <3>1. /\ prefix_scan(db2, P) = [i \in 1 .. Cardinality(keys) |-> db2[KeyAt(keys, i)]]
            /\ prefix_scan(db, P) = [i \in 1 .. Cardinality(keys) |-> db[KeyAt(keys, i)]]
        BY <2>2 DEF prefix_scan, keys
      <3>. QED
        BY <3>1, <2>3, <2>4, <1>1
    <2>. QED
      BY <2>5 DEF Chain, P
  <1>. QED
    BY <1>2, <1>6, <1>8, <1>9

----------------------------------------------------------------------------
(* The steps of the device *)

\* An empty database is as it should be.
LEMMA StoreStart == NodeInit => StoreInv
  <1>. SUFFICES ASSUME NodeInit PROVE StoreInv
    OBVIOUS
  <1>1. /\ cf_sectors = <<>> /\ cf_contacts = <<>> /\ last_id = 0 /\ stepped = FALSE
        /\ rotations = [p \in Peers |-> 0] /\ sealed = <<>> /\ using \in Workloads
        /\ sdk = NotRunning
    BY DEF NodeInit, StoreInit
  <1>2. DOMAIN cf_sectors = {} /\ DOMAIN cf_contacts = {} /\ DOMAIN sealed = {}
    BY <1>1
  <1>. QED
    BY <1>1, <1>2, FS_EmptySet DEF StoreInv, SealsOK, SectorsOK, ContactsOK

\* Whoever appends a sector has the contact's keys as they were at some time.
LEMMA SealedKeys ==
    ASSUME StoreInv, NEW a \in Identities, NEW p \in Peers, has_contact(a, p),
           NEW text, NEW aad, NEW sk, NEW rng,
           IsOk(seal_envelope(text, aad, get_contact(a, p).machine_keys, sk, rng))
    PROVE  \E n \in 0 .. rotations[p] : get_contact(a, p).machine_keys = PublicKeys(p, n)
  <1>1. p \in Kept(cf_contacts, a) /\ get_contact(a, p) = Read(cf_contacts, a, p)
    BY DEF has_contact, get_contact, Kept, Read
  <1>2. PICK label \in Labels : \E n \in 0 .. rotations[p] : \E keys \in KnownKeys(p, n) :
           get_contact(a, p) = Entry(p, label, keys)
    BY <1>1, ContactAt DEF StoreInv
  <1>3. PICK n \in 0 .. rotations[p] : \E keys \in KnownKeys(p, n) :
           get_contact(a, p) = Entry(p, label, keys)
    BY <1>2
  <1>4. PICK keys \in KnownKeys(p, n) : get_contact(a, p).machine_keys = keys
    BY <1>3 DEF Entry
  <1>5. keys.mlkem_encap_key # Truncated
    BY <1>4, SealRefuses
  <1>6. [PublicKeys(p, n) EXCEPT !.mlkem_encap_key = Truncated].mlkem_encap_key = Truncated
    BY DEF PublicKeys, KeysOf, make_keypair
  <1>. QED
    BY <1>4, <1>5, <1>6 DEF KnownKeys

\* What a successful append writes.
AppendsAs(sc, id, w) ==
    LET key == make_sector_key(sc[1], sc[2], id)
    IN  /\ w.aad.sector_id = id
        /\ id \notin DOMAIN sealed /\ last_id' = id /\ id > last_id
        /\ sealed' = [i \in DOMAIN sealed \cup {id} |-> IF i # id THEN sealed[i] ELSE w]
        /\ cf_sectors' = put_cf(cf_sectors, key, encode_sector(TheSector(sealed', sc, id)))
        /\ UNCHANGED <<cf_contacts, rotations, stepped>>

\* append_sector does that, for a contact's keys and after the last sector.
LEMMA AppendStep ==
    ASSUME StoreInv, NEW a \in Identities, NEW machine, NEW sc \in Scopes, NEW p \in Peers,
           NEW text \in Plaintexts, NEW id \in 1 .. MaxSectorId,
           append_sector(a, machine, sc, p, text, id)
    PROVE  \E w : /\ AppendsAs(sc, id, w)
                  /\ w.plaintext \in Plaintexts /\ w.recipient \in Peers
                  /\ w.aad = [f \in DOMAIN ReadAs |-> w.aad[f]]
                  /\ \E n \in 0 .. rotations[w.recipient] : w.keys = PublicKeys(w.recipient, n)
                  /\ w.aad.prev_sector_id \in DOMAIN sealed \cup {NoId}
  <1>. DEFINE chain == iter_chain(sc[1], sc[2])
              prev == IF chain = <<>> THEN NoId ELSE Last(chain).id
              aad == [schema_tag |-> 1, sector_id |-> id, sender_identity |-> a,
                      sender_machine |-> machine, epoch |-> 0, prev_sector_id |-> prev]
              keys == get_contact(a, p).machine_keys
              env == seal_envelope(text, aad, keys, SigningKeys(a), <<id>>)
              w == [plaintext |-> text, aad |-> aad, recipient |-> p, keys |-> keys]
  <1>1. /\ has_contact(a, p) /\ IsOk(env) /\ SectorId_new(id)
        /\ put_sector([id |-> id, identity_id |-> sc[1], machine_id |-> sc[2],
                       payload |-> env.ok, prev |-> prev])
        /\ sealed' = [i \in DOMAIN sealed \cup {id} |-> IF i # id THEN sealed[i] ELSE w]
        /\ UNCHANGED <<cf_contacts, rotations, stepped>>
    BY DEF append_sector
  <1>2. prev \in DOMAIN sealed \cup {NoId}
    <2>1. chain = Chain(cf_sectors, sc)
      BY DEF iter_chain, Chain
    <2>2. SectorsOK(cf_sectors, sealed) /\ DOMAIN sealed \subseteq Nat
      BY StoreConstants DEF StoreInv, SealsOK
    <2>. HIDE DEF chain
    <2>3. PICK n \in Nat : DOMAIN chain = 1 .. n /\ chain = [i \in 1 .. n |-> chain[i]]
      BY <2>1, <2>2, ChainHolds
    <2>4. \A i \in DOMAIN chain : chain[i].id \in Held(cf_sectors, sealed, sc)
      BY <2>1, <2>2, ChainHolds
    <2>5. Len(chain) = n
      BY <2>3, ListOf
    <2>6. CASE chain # <<>>
      <3>1. n # 0
        BY <2>3, <2>6
      <3>2. Last(chain) = chain[n] /\ n \in DOMAIN chain
        BY <3>1, <2>3, <2>5 DEF Last
      <3>. QED
        BY <2>6, <3>2, <2>4 DEF Held
    <2>. QED
      BY <2>6
  <1>. HIDE DEF chain, prev
  <1>3. /\ aad = [f \in DOMAIN ReadAs |-> aad[f]] /\ aad.sector_id = id
        /\ aad.prev_sector_id = prev /\ aad.sender_identity = a
    BY DEF ReadAs
  <1>. HIDE DEF aad
  <1>4. \E n \in 0 .. rotations[p] : keys = PublicKeys(p, n)
    BY <1>1, SealedKeys
  <1>. HIDE DEF keys
  <1>5. /\ w.plaintext = text /\ w.aad = aad /\ w.recipient = p /\ w.keys = keys
    OBVIOUS
  <1>. HIDE DEF w
  <1>6. sealed'[id] = w
    BY <1>1
  <1>7. TheSector(sealed', sc, id) =
           [id |-> id, identity_id |-> sc[1], machine_id |-> sc[2],
            payload |-> env.ok, prev |-> prev]
    BY <1>3, <1>5, <1>6 DEF TheSector
  <1>. HIDE DEF env
  <1>8. cf_sectors' = put_cf(cf_sectors, make_sector_key(sc[1], sc[2], id),
                             encode_sector(TheSector(sealed', sc, id)))
    BY <1>1, <1>7 DEF put_sector
  <1>9. AppendsAs(sc, id, w)
    BY <1>1, <1>3, <1>5, <1>8 DEF AppendsAs, SectorId_new
  <1>. QED
    BY <1>2, <1>3, <1>4, <1>5, <1>9

\* It keeps the invariant, and the new sector goes to its scope's chain only.
LEMMA AppendKeeps ==
    ASSUME StoreInv, NEW sc \in Scopes, NEW id \in 1 .. MaxSectorId, NEW w,
           AppendsAs(sc, id, w), w.plaintext \in Plaintexts, w.recipient \in Peers,
           w.aad = [f \in DOMAIN ReadAs |-> w.aad[f]],
           \E n \in 0 .. rotations[w.recipient] : w.keys = PublicKeys(w.recipient, n),
           w.aad.prev_sector_id \in DOMAIN sealed \cup {NoId},
           UNCHANGED <<using, sdk>>
    PROVE  /\ StoreInv'
           /\ LET s == TheSector(sealed', sc, id)
              IN  /\ s.id = id
                  /\ ToSet(Chain(cf_sectors', sc))
                       = But(id, ToSet(Chain(cf_sectors, sc))) \cup {s}
           /\ \A sd \in Scopes : sd # sc => Chain(cf_sectors', sd) = Chain(cf_sectors, sd)
  <1>. DEFINE key == make_sector_key(sc[1], sc[2], id)
              db2 == cf_sectors'
              S2 == sealed'
  <1>1. /\ w.aad.sector_id = id /\ id \notin DOMAIN sealed /\ last_id' = id /\ id > last_id
        /\ S2 = [i \in DOMAIN sealed \cup {id} |-> IF i # id THEN sealed[i] ELSE w]
        /\ db2 = put_cf(cf_sectors, key, encode_sector(TheSector(S2, sc, id)))
        /\ UNCHANGED <<cf_contacts, rotations, stepped>>
    BY DEF AppendsAs
  <1>2. /\ DOMAIN S2 = DOMAIN sealed \cup {id} /\ S2[id] = w
        /\ \A i \in DOMAIN sealed : S2[i] = sealed[i] /\ i # id
    BY <1>1
  <1>3. /\ DOMAIN db2 = DOMAIN cf_sectors \cup {key}
        /\ db2[key] = encode_sector(TheSector(S2, sc, id))
        /\ \A k \in DOMAIN cf_sectors : k # key => db2[k] = cf_sectors[k]
    BY <1>1 DEF put_cf
  <1>4. /\ SectorsOK(cf_sectors, sealed) /\ SealsOK /\ DOMAIN sealed \subseteq Nat /\ id \in Nat
        /\ last_id \in Nat
    BY StoreConstants DEF StoreInv, SealsOK
  <1>5. PICK D2, T2, K : D2 = db2 /\ T2 = S2 /\ K = key
    OBVIOUS
  <1>. HIDE DEF db2, S2, key
  <1>6. /\ SectorsOK(D2, T2)
        /\ TheSector(T2, sc, id).id = id
        /\ ToSet(Chain(D2, sc)) = But(id, ToSet(Chain(cf_sectors, sc)))
                                     \cup {TheSector(T2, sc, id)}
        /\ \A sd \in Scopes : sd # sc => Chain(D2, sd) = Chain(cf_sectors, sd)
    <2>1. Gains(cf_sectors, sealed, sc, id, D2, T2)
      BY <1>1, <1>2, <1>3, <1>4, <1>5 DEF Gains, key
    <2>. QED
      BY <2>1, AddsSector
  <1>7. SealsOK'
    <2>1. ASSUME NEW i \in DOMAIN sealed' PROVE WrittenOK(i)'
      <3>1. CASE i = id
        <4>1. stepped \/ w.aad.prev_sector_id = NoId \/ w.aad.prev_sector_id < id
          <5>1. ASSUME ~stepped, w.aad.prev_sector_id # NoId PROVE w.aad.prev_sector_id < id
            <6>. DEFINE q == w.aad.prev_sector_id
            <6>1. q \in DOMAIN sealed /\ q \in Nat
              BY <5>1, <1>4
            <6>2. WrittenOK(q)
              BY <6>1, <1>4 DEF SealsOK
            <6>3. q =< last_id
              BY <6>2, <5>1 DEF WrittenOK
            <6>. QED
              BY <6>1, <6>3, <1>1, <1>4
          <5>. QED
            BY <5>1
        <4>. QED
          BY <3>1, <4>1, <1>1, <1>2, <1>4 DEF WrittenOK, S2
      <3>2. CASE i # id
        <4>1. i \in DOMAIN sealed /\ sealed'[i] = sealed[i] /\ i \in Nat
          BY <3>2, <1>2, <1>4 DEF S2
        <4>2. WrittenOK(i)
          BY <4>1, <1>4 DEF SealsOK
        <4>. QED
          BY <4>1, <4>2, <1>1, <1>2, <1>4 DEF WrittenOK, S2
      <3>. QED
        BY <3>1, <3>2
    <2>. QED
      BY <2>1, <1>1, <1>2, <1>4 DEF SealsOK, S2
  <1>8. ContactsOK(cf_contacts', rotations')
    BY <1>1 DEF StoreInv
  <1>. QED
    BY <1>5, <1>6, <1>7, <1>8 DEF StoreInv, db2, S2

\* Deleting a sector.
LEMMA DeleteKeeps ==
    ASSUME StoreInv, NEW sc \in Scopes, NEW id \in 1 .. MaxSectorId,
           delete_sector(sc[1], sc[2], id), UNCHANGED <<using, sdk>>
    PROVE  /\ StoreInv'
           /\ ToSet(Chain(cf_sectors', sc)) = But(id, ToSet(Chain(cf_sectors, sc)))
           /\ \A sd \in Scopes : sd # sc => Chain(cf_sectors', sd) = Chain(cf_sectors, sd)
           /\ id \notin Held(cf_sectors, sealed, sc) =>
                 Chain(cf_sectors', sc) = Chain(cf_sectors, sc)
  <1>1. /\ cf_sectors' = delete_cf(cf_sectors, make_sector_key(sc[1], sc[2], id))
        /\ UNCHANGED <<cf_contacts, last_id, rotations, stepped, sealed>>
    BY DEF delete_sector
  <1>2. SectorsOK(cf_sectors, sealed) /\ DOMAIN sealed \subseteq Nat /\ id \in Nat
    BY StoreConstants DEF StoreInv, SealsOK
  <1>3. PICK D : D = cf_sectors'
    OBVIOUS
  <1>4. /\ SectorsOK(D, sealed)
        /\ ToSet(Chain(D, sc)) = But(id, ToSet(Chain(cf_sectors, sc)))
        /\ \A sd \in Scopes : sd # sc => Chain(D, sd) = Chain(cf_sectors, sd)
        /\ id \notin Held(cf_sectors, sealed, sc) => Chain(D, sc) = Chain(cf_sectors, sc)
    <2>1. D = delete_cf(cf_sectors, make_sector_key(sc[1], sc[2], id))
      BY <1>1, <1>3
    <2>. QED
      BY <2>1, <1>2, RemovesSector
  <1>5. SealsOK'
    BY <1>1 DEF StoreInv, SealsOK, WrittenOK
  <1>. QED
    BY <1>1, <1>3, <1>4, <1>5 DEF StoreInv

\* Adding a contact.
LEMMA AddKeeps ==
    ASSUME StoreInv, NEW a \in Identities, NEW c \in Contact, add_contact(a, c),
           UNCHANGED <<using, sdk>>
    PROVE  /\ StoreInv'
           /\ Book(cf_contacts', a) = NotFor(c.identity_id, Book(cf_contacts, a)) \cup {c}
           /\ \A b \in Identities : b # a => Book(cf_contacts', b) = Book(cf_contacts, b)
  <1>1. /\ cf_contacts' = put_cf(cf_contacts, make_key(a, c.identity_id), encode_contact(c))
        /\ UNCHANGED <<cf_sectors, last_id, rotations, stepped, sealed>>
    BY DEF add_contact
  <1>0. PICK p \in Peers :
           c \in [identity_id : {p}, label : Labels,
                  machine_keys : {ContactMachineKey(p),
                      [ContactMachineKey(p) EXCEPT !.mlkem_encap_key = Truncated]}]
    BY DEF Contact
  <1>. DEFINE given == {ContactMachineKey(p),
                        [ContactMachineKey(p) EXCEPT !.mlkem_encap_key = Truncated]}
  <1>2. PICK label \in Labels, keys \in given :
           c = [identity_id |-> p, label |-> label, machine_keys |-> keys]
    <2>. HIDE DEF given
    <2>1. c \in [identity_id : {p}, label : Labels, machine_keys : given]
      BY <1>0 DEF given
    <2>2. /\ c.identity_id = p /\ c.label \in Labels /\ c.machine_keys \in given
          /\ c = [identity_id |-> c.identity_id, label |-> c.label, machine_keys |-> c.machine_keys]
      BY <2>1
    <2>. QED
      BY <2>2
  <1>3. c = Entry(p, label, keys) /\ c.identity_id = p
    BY <1>2 DEF Entry
  <1>4. ContactMachineKey(p) = PublicKeys(p, rotations[p])
    BY DEF ContactMachineKey, PublicKeys, KeysOf, make_keypair
  <1>5. keys \in KnownKeys(p, rotations[p])
    BY <1>2, <1>4 DEF KnownKeys
  <1>6. rotations[p] \in 0 .. rotations[p] /\ ContactsOK(cf_contacts, rotations)
    BY DEF StoreInv, SealsOK
  <1>7. PICK D : D = cf_contacts'
    OBVIOUS
  <1>8. /\ ContactsOK(D, rotations)
        /\ Book(D, a) = NotFor(p, Book(cf_contacts, a)) \cup {c}
        /\ \A b \in Identities : b # a => Book(D, b) = Book(cf_contacts, b)
    <2>1. D = put_cf(cf_contacts, make_key(a, p), encode_contact(c))
      BY <1>1, <1>3, <1>7
    <2>. QED
      BY <2>1, <1>3, <1>5, <1>6, AddsEntry
  <1>9. SealsOK'
    BY <1>1 DEF StoreInv, SealsOK, WrittenOK
  <1>. QED
    BY <1>1, <1>3, <1>7, <1>8, <1>9 DEF StoreInv

\* Removing a contact.
LEMMA RemoveKeeps ==
    ASSUME StoreInv, NEW a \in Identities, NEW p \in Peers, remove_contact(a, p),
           UNCHANGED <<using, sdk>>
    PROVE  /\ StoreInv'
           /\ Book(cf_contacts', a) = NotFor(p, Book(cf_contacts, a))
           /\ \A b \in Identities : b # a => Book(cf_contacts', b) = Book(cf_contacts, b)
  <1>1. /\ cf_contacts' = delete_cf(cf_contacts, make_key(a, p))
        /\ UNCHANGED <<cf_sectors, last_id, rotations, stepped, sealed>>
    BY DEF remove_contact
  <1>2. PICK D : D = cf_contacts'
    OBVIOUS
  <1>3. ContactsOK(cf_contacts, rotations)
    BY DEF StoreInv
  <1>4. /\ ContactsOK(D, rotations)
        /\ Book(D, a) = NotFor(p, Book(cf_contacts, a))
        /\ \A b \in Identities : b # a => Book(D, b) = Book(cf_contacts, b)
    <2>1. D = delete_cf(cf_contacts, make_key(a, p))
      BY <1>1, <1>2
    <2>. QED
      BY <2>1, <1>3, RemovesEntry
  <1>5. SealsOK'
    BY <1>1 DEF StoreInv, SealsOK, WrittenOK
  <1>. QED
    BY <1>1, <1>2, <1>4, <1>5 DEF StoreInv

\* Somebody elsewhere generates new keys.
LEMMA RotateKeeps ==
    ASSUME StoreInv, NEW p \in Peers, rotate_keys(p), UNCHANGED <<using, sdk>>
    PROVE  StoreInv'
  <1>1. /\ rotations' = [rotations EXCEPT ![p] = @ + 1] /\ rotations \in [Peers -> Nat]
        /\ UNCHANGED <<cf_sectors, cf_contacts, last_id, stepped, sealed>>
    BY DEF rotate_keys, StoreInv, SealsOK
  <1>2. rotations' \in [Peers -> Nat] /\ \A q \in Peers : rotations[q] =< rotations'[q]
    BY <1>1
  <1>3. PICK R \in [Peers -> Nat] : R = rotations'
    BY <1>2
  <1>4. ContactsOK(cf_contacts, R)
    BY <1>1, <1>2, <1>3, ContactsKept DEF StoreInv
  <1>5. ASSUME NEW id \in DOMAIN sealed PROVE WrittenOK(id)'
    <2>1. WrittenOK(id)
      BY DEF StoreInv, SealsOK
    <2>2. sealed[id].recipient \in Peers
      BY <2>1 DEF WrittenOK
    <2>3. 0 .. rotations[sealed[id].recipient] \subseteq 0 .. rotations'[sealed[id].recipient]
      BY <2>2, <1>1, <1>2
    <2>4. \E n \in 0 .. rotations'[sealed[id].recipient] :
             sealed[id].keys = PublicKeys(sealed[id].recipient, n)
      BY <2>1, <2>3 DEF WrittenOK
    <2>. QED
      BY <2>1, <2>4, <1>1 DEF WrittenOK
  <1>6. SealsOK'
    BY <1>1, <1>2, <1>5 DEF StoreInv, SealsOK
  <1>. QED
    BY <1>1, <1>3, <1>4, <1>6 DEF StoreInv

\* The process stops; the clock may be set back.
LEMMA StopKeeps ==
    ASSUME StoreInv, Stop
    PROVE  StoreInv' /\ UNCHANGED <<cf_sectors, cf_contacts>>
  <1>1. /\ UNCHANGED <<cf_sectors, cf_contacts, rotations, sealed, using>> /\ sdk' = NotRunning
        /\ \/ UNCHANGED <<last_id, stepped>>
           \/ last_id' = 0 /\ stepped' = TRUE
    BY DEF Stop, StoreRestart
  <1>2. ASSUME NEW id \in DOMAIN sealed PROVE WrittenOK(id)'
    <2>1. WrittenOK(id)
      BY DEF StoreInv, SealsOK
    <2>2. CASE UNCHANGED <<last_id, stepped>>
      BY <2>1, <2>2, <1>1 DEF WrittenOK
    <2>3. CASE stepped'
      BY <2>1, <2>3, <1>1 DEF WrittenOK
    <2>. QED
      BY <2>2, <2>3, <1>1
  <1>4. /\ last_id \in Nat /\ stepped \in BOOLEAN /\ rotations \in [Peers -> Nat]
        /\ DOMAIN sealed \subseteq 1 .. MaxSectorId
    BY DEF StoreInv, SealsOK
  <1>5. last_id' \in Nat
    BY <1>1, <1>4
  <1>6. stepped' \in BOOLEAN
    BY <1>1, <1>4, Zenon
  <1>3. SealsOK'
    BY <1>1, <1>2, <1>4, <1>5, <1>6 DEF SealsOK
  <1>. QED
    BY <1>1, <1>3 DEF StoreInv

\* The process starts, with the identity of a NeuralKey.
LEMMA StartKeeps ==
    ASSUME StoreInv, KeysInv, NEW k \in NeuralKey, shares[k] # NoShares,
           NEW picked \in Picked(k), NEW threshold, Start(picked, threshold)
    PROVE  StoreInv' /\ UNCHANGED storeVars
  <1>1. PICK r \in recover_neural_key(picked, threshold) :
           "ok" \in DOMAIN r /\ sdk' = open(r.ok)
    BY DEF Start
  <1>2. r.ok \in NeuralKey
    BY <1>1, RecoversKey DEF KeysInv
  <1>3. sdk'.identity_id \in Identities
    BY <1>1, <1>2 DEF open, Identities
  <1>4. UNCHANGED <<cf_sectors, cf_contacts, last_id, rotations, stepped, sealed, using>>
    BY DEF Start, storeVars
  <1>. QED
    BY <1>3, <1>4 DEF StoreInv, SealsOK, WrittenOK, storeVars

\* Steps of other parts.
LEMMA ElsewhereKeeps ==
    ASSUME StoreInv, UNCHANGED <<storeVars, using, sdk>>
    PROVE  StoreInv'
  BY DEF StoreInv, SealsOK, WrittenOK, storeVars

----------------------------------------------------------------------------
(* Theorems about sectors and contacts *)

\* Every step of the node keeps the sectors and the contacts as they should be.
LEMMA StoreNext ==
    ASSUME StoreInv, KeysInv, [NodeNext]_nodeVars
    PROVE  StoreInv'
  <1>1. using.accounts \subseteq NeuralKey /\ using.peers \subseteq Peers
    BY StoreConstants DEF StoreInv
  <1>2. ASSUME NEW k \in using.accounts, NEW cfg \in using.configs, SetUp(k, cfg)
        PROVE  StoreInv'
    BY <1>2, ElsewhereKeeps DEF SetUp
  <1>3. ASSUME NEW k \in using.accounts, shares[k] # NoShares, NEW picked \in Picked(k),
               NEW threshold \in 0 .. MAX_SHARES, Start(picked, threshold)
        PROVE  StoreInv'
    BY <1>1, <1>3, StartKeeps
  <1>4. CASE Stop
    BY <1>4, StopKeeps
  <1>5. ASSUME NEW t \in KeyThreads, KeyStep(t) PROVE StoreInv'
    BY <1>5, ElsewhereKeeps DEF KeyStep
  <1>6. CASE ContactStep
    <2>1. sdk.identity_id \in Identities /\ UNCHANGED <<using, sdk>>
      BY <1>6 DEF ContactStep, Uses, StoreInv
    <2>2. ASSUME NEW c \in Contact, add_contact(sdk.identity_id, c) PROVE StoreInv'
      BY <2>1, <2>2, AddKeeps
    <2>3. ASSUME NEW p \in using.peers, remove_contact(sdk.identity_id, p) PROVE StoreInv'
      BY <2>1, <2>3, <1>1, RemoveKeeps
    <2>. QED
      BY <1>6, <2>2, <2>3 DEF ContactStep
  <1>7. CASE SectorStep
    <2>1. sdk.identity_id \in Identities /\ UNCHANGED <<using, sdk>>
      BY <1>7 DEF SectorStep, Uses, StoreInv
    <2>2. ASSUME NEW sc \in Scopes, NEW id \in 1 .. MaxSectorId, NEW p \in using.peers,
                 NEW text \in Plaintexts,
                 append_sector(sdk.identity_id, sdk.machine_id, sc, p, text, id)
          PROVE  StoreInv'
      BY <2>1, <2>2, <1>1, AppendStep, AppendKeeps
    <2>3. ASSUME NEW sc \in Scopes, NEW id \in 1 .. MaxSectorId, delete_sector(sc[1], sc[2], id)
          PROVE  StoreInv'
      BY <2>1, <2>3, DeleteKeeps
    <2>. QED
      BY <1>7, <2>2, <2>3 DEF SectorStep
  <1>8. ASSUME NEW t \in Threads, OutboxStep(t) PROVE StoreInv'
    BY <1>8, ElsewhereKeeps DEF OutboxStep
  <1>9. CASE PeerStep
    BY <1>9, <1>1, RotateKeeps DEF PeerStep
  <1>10. CASE UNCHANGED nodeVars
    BY <1>10, ElsewhereKeeps DEF nodeVars
  <1>. QED
    BY <1>2, <1>3, <1>4, <1>5, <1>6, <1>7, <1>8, <1>9, <1>10 DEF NodeNext

\* On a device the two column families hold what was written and nothing else,
\* however processes, accounts and rotations of keys interleave (put_sector,
\* delete_sector, add_contact, remove_contact, ZeroSdk::open).
THEOREM StoreInvariant == NodeSpec => []StoreInv
  BY StoreStart, StoreNext, KeysInvariant, PTL DEF NodeSpec

\* A sector of a chain as the invariant knows it.
LEMMA StoredSector ==
    ASSUME StoreInv, NEW sc \in Scopes, NEW s \in ToSet(iter_chain(sc[1], sc[2]))
    PROVE  /\ s.id \in Held(cf_sectors, sealed, sc) /\ s = TheSector(sealed, sc, s.id)
           /\ WrittenOK(s.id) /\ s.id \in DOMAIN sealed
           /\ LET w == sealed[s.id]
              IN  \E n \in 0 .. rotations[w.recipient] :
                     /\ w.keys = PublicKeys(w.recipient, n)
                     /\ s.payload = SealedFor(w.plaintext, w.aad, <<w.recipient, n>>,
                                              w.aad.sender_identity, <<s.id>>)
  <1>1. iter_chain(sc[1], sc[2]) = Chain(cf_sectors, sc)
    BY DEF iter_chain, Chain
  <1>2. SectorsOK(cf_sectors, sealed) /\ DOMAIN sealed \subseteq Nat
    BY StoreConstants DEF StoreInv, SealsOK
  <1>3. PICK id \in Held(cf_sectors, sealed, sc) : s = TheSector(sealed, sc, id)
    BY <1>1, <1>2, ChainSet
  <1>4. s.id = id
    BY <1>3 DEF TheSector
  <1>5. WrittenOK(id) /\ id \in DOMAIN sealed
    BY <1>3 DEF StoreInv, SealsOK, Held
  <1>6. PICK w : w = sealed[id]
    OBVIOUS
  <1>7. PICK n \in 0 .. rotations[w.recipient] : w.keys = PublicKeys(w.recipient, n)
    BY <1>5, <1>6 DEF WrittenOK
  <1>8. w.keys = make_keypair(<<w.recipient, n>>).public /\ w.plaintext \in Plaintexts
    BY <1>5, <1>6, <1>7 DEF PublicKeys, KeysOf, WrittenOK
  <1>9. s.payload = seal_envelope(w.plaintext, w.aad, w.keys,
                                  SigningKeys(w.aad.sender_identity), <<id>>).ok
    BY <1>3, <1>6 DEF TheSector
  <1>10. s.payload = Ok(SealedFor(w.plaintext, w.aad, <<w.recipient, n>>,
                                  w.aad.sender_identity, <<id>>)).ok
    BY <1>8, <1>9, SealMakes
  <1>11. \A v : Ok(v).ok = v
    BY DEF Ok
  <1>. QED
    BY <1>3, <1>4, <1>5, <1>6, <1>7, <1>10, <1>11

\* A sector that is read back (get_sector, iter_chain) opens for its recipient's
\* keys to what was sealed, is refused once they changed, and names itself and
\* its predecessor as the chain does (seal_envelope, open_envelope).
THEOREM NodeOpensAsSealed == NodeSpec => []OpensAsSealed
  <1>1. StoreInv => OpensAsSealed
    <2>. SUFFICES ASSUME StoreInv, NEW sc \in Scopes, NEW s \in ToSet(iter_chain(sc[1], sc[2])),
                         NEW w, w = sealed[s.id]
                  PROVE  /\ Opened(s) = IF w.keys = ContactMachineKey(w.recipient)
                                        THEN Ok(<<w.plaintext, w.aad>>)
                                        ELSE Err("DecryptionFailed")
                         /\ get_sector(sc[1], sc[2], s.id) = s
                         /\ w.aad.sector_id = s.id /\ w.aad.prev_sector_id = s.prev
                         /\ stepped \/ s.prev = NoId \/ s.prev < s.id
      BY DEF OpensAsSealed
    <2>1. /\ s.id \in Held(cf_sectors, sealed, sc) /\ s = TheSector(sealed, sc, s.id)
          /\ WrittenOK(s.id) /\ s.id \in DOMAIN sealed
      BY StoredSector
    <2>2. PICK n \in 0 .. rotations[w.recipient] :
             /\ w.keys = PublicKeys(w.recipient, n)
             /\ s.payload = SealedFor(w.plaintext, w.aad, <<w.recipient, n>>,
                                      w.aad.sender_identity, <<s.id>>)
      BY StoredSector
    <2>3. /\ w.plaintext \in Plaintexts /\ w.aad = [f \in DOMAIN ReadAs |-> w.aad[f]]
          /\ w.aad.sector_id = s.id
          /\ stepped \/ w.aad.prev_sector_id = NoId \/ w.aad.prev_sector_id < s.id
      BY <2>1 DEF WrittenOK
    <2>4. s.prev = w.aad.prev_sector_id
      BY <2>1 DEF TheSector
    <2>5. get_sector(sc[1], sc[2], s.id) = s
      <3>1. make_sector_key(sc[1], sc[2], s.id) \in DOMAIN cf_sectors
        BY <2>1 DEF Held
      <3>2. SectorsOK(cf_sectors, sealed) /\ DOMAIN sealed \subseteq Nat
        BY StoreConstants DEF StoreInv, SealsOK
      <3>3. decode_sector(cf_sectors[make_sector_key(sc[1], sc[2], s.id)])
               = TheSector(sealed, sc, s.id)
        BY <2>1, <3>2, SectorAt
      <3>. QED
        BY <3>1, <3>3, <2>1 DEF get_sector
    <2>6. PICK x, y : x = <<w.recipient, n>> /\ y = <<w.recipient, rotations[w.recipient]>>
      OBVIOUS
    <2>7. Opened(s) = IF x = y THEN Ok(<<w.plaintext, w.aad>>) ELSE Err("DecryptionFailed")
      <3>1. Opened(s) = open_envelope(SealedFor(w.plaintext, w.aad, x, w.aad.sender_identity, <<s.id>>),
                                      make_keypair(y).private,
                                      VerifyingKeys(w.aad.sender_identity))
        BY <2>2, <2>6 DEF Opened, KeysOf
      <3>. QED
        BY <3>1, <2>3, EnvelopeOpens
    <2>8. x = y <=> w.keys = ContactMachineKey(w.recipient)
      <3>1. w.keys = [x25519 |-> <<"X25519", x>>, mlkem_encap_key |-> <<"MLKEM", x>>]
        BY <2>2, <2>6 DEF PublicKeys, KeysOf, make_keypair, generate_x25519_keypair,
                          generate_mlkem_keypair
      <3>2. ContactMachineKey(w.recipient) =
              [x25519 |-> <<"X25519", y>>, mlkem_encap_key |-> <<"MLKEM", y>>]
        BY <2>6 DEF ContactMachineKey, KeysOf, make_keypair, generate_x25519_keypair,
                    generate_mlkem_keypair
      <3>. QED
        BY <3>1, <3>2
    <2>. QED
      BY <2>3, <2>4, <2>5, <2>7, <2>8
  <1>. QED
    BY <1>1, StoreInvariant, PTL

\* No envelope that is put together from stored ones, or damaged, opens
\* (open_envelope), unless it is one of them.
THEOREM NodeOnlySealedOpens == NodeSpec => []OnlySealedOpens
  <1>1. StoreInv => OnlySealedOpens
    <2>. SUFFICES ASSUME StoreInv,
                         NEW sc \in Scopes, NEW s1 \in ToSet(iter_chain(sc[1], sc[2])),
                         NEW sd \in Scopes, NEW s2 \in ToSet(iter_chain(sd[1], sd[2])),
                         NEW e \in Mixed(s1.payload, s2.payload),
                         IsOk(Opened([s1 EXCEPT !.payload = e]))
                  PROVE  e = s1.payload
      BY DEF OnlySealedOpens
    <2>1. PICK w1, w2 : w1 = sealed[s1.id] /\ w2 = sealed[s2.id]
      OBVIOUS
    <2>2. /\ WrittenOK(s1.id) /\ s1 = TheSector(sealed, sc, s1.id)
          /\ WrittenOK(s2.id) /\ s2 = TheSector(sealed, sd, s2.id)
      BY StoredSector
    <2>3. PICK n1 \in 0 .. rotations[w1.recipient] :
             s1.payload = SealedFor(w1.plaintext, w1.aad, <<w1.recipient, n1>>,
                                    w1.aad.sender_identity, <<s1.id>>)
      BY <2>1, StoredSector
    <2>4. PICK n2 \in 0 .. rotations[w2.recipient] :
             s2.payload = SealedFor(w2.plaintext, w2.aad, <<w2.recipient, n2>>,
                                    w2.aad.sender_identity, <<s2.id>>)
      BY <2>1, StoredSector
    <2>5. /\ w1.plaintext \in Plaintexts /\ w1.aad.sector_id = s1.id
          /\ w2.plaintext \in Plaintexts /\ w2.aad.sector_id = s2.id
      BY <2>1, <2>2 DEF WrittenOK
    <2>6. s1.id = s2.id => s1.payload = s2.payload
      BY <2>2 DEF TheSector
    <2>7. encode(w1.aad) = encode(w2.aad) => s1.id = s2.id
      BY <2>5 DEF encode, Bytes
    <2>8. <<s1.id>> = <<s2.id>> => s1.id = s2.id
      OBVIOUS
    <2>9. PICK y : y = <<w1.recipient, rotations[w1.recipient]>>
      OBVIOUS
    <2>10. IsOk(open_envelope(e, make_keypair(y).private, VerifyingKeys(w1.aad.sender_identity)))
      <3>1. [s1 EXCEPT !.payload = e].id = s1.id /\ [s1 EXCEPT !.payload = e].payload = e
        BY <2>2 DEF TheSector
      <3>. QED
        BY <3>1, <2>1, <2>9 DEF Opened, KeysOf
    <2>11. PICK e1, e2, x1, x2, r1, r2 :
             /\ e1 = s1.payload /\ e2 = s2.payload
             /\ x1 = <<w1.recipient, n1>> /\ x2 = <<w2.recipient, n2>>
             /\ r1 = <<s1.id>> /\ r2 = <<s2.id>>
      OBVIOUS
    <2>12. /\ e1 = SealedFor(w1.plaintext, w1.aad, x1, w1.aad.sender_identity, r1)
           /\ e2 = SealedFor(w2.plaintext, w2.aad, x2, w2.aad.sender_identity, r2)
           /\ encode(w1.aad) = encode(w2.aad) => e1 = e2
           /\ r1 = r2 => e1 = e2
           /\ e \in Mixed(e1, e2)
      BY <2>3, <2>4, <2>6, <2>7, <2>8, <2>11
    <2>13. e = e1
      BY <2>5, <2>10, <2>12, MixedRefused
    <2>. QED
      BY <2>11, <2>13
  <1>. QED
    BY <1>1, StoreInvariant, PTL

\* The books and the chains, as ImplementsAccountStore has them.
Books(db) == [a \in Identities |-> Book(db, a)]
Chains(db) == [sc \in Scopes |-> Chain(db, sc)]

\* They are what the refinement mapping says, before and after a step.
LEMMA Mapped ==
    /\ [a \in Identities |-> ToSet(list_contacts(a))] = Books(cf_contacts)
    /\ [sc \in Scopes |-> iter_chain(sc[1], sc[2])] = Chains(cf_sectors)
    /\ [a \in Identities |-> ToSet(list_contacts(a))]' = Books(cf_contacts')
    /\ [sc \in Scopes |-> iter_chain(sc[1], sc[2])]' = Chains(cf_sectors')
  BY DEF Books, Book, Chains, Chain, list_contacts, iter_chain

\* A contact that is added is an AddEntry of the abstract store.
LEMMA EntryAdded ==
    ASSUME NEW a \in Identities, NEW e,
           Book(cf_contacts', a) = NotFor(e.identity_id, Book(cf_contacts, a)) \cup {e},
           \A b \in Identities : b # a => Book(cf_contacts', b) = Book(cf_contacts, b),
           UNCHANGED cf_sectors
    PROVE  Store!AddEntry(a)
  <1>1. PICK B, B2, C, C2 : /\ B = Books(cf_contacts) /\ B2 = Books(cf_contacts')
                            /\ C = Chains(cf_sectors) /\ C2 = Chains(cf_sectors')
    OBVIOUS
  <1>2. e \in B2[a] /\ B2 = [B EXCEPT ![a] = {o \in B[a] : o.identity_id # e.identity_id} \cup {e}]
    BY <1>1 DEF Books, NotFor
  <1>3. C2 = C
    BY <1>1
  <1>. QED
    BY <1>1, <1>2, <1>3, Mapped DEF Store!AddEntry, Store!Without

\* One that is removed is a RemoveEntry, or nothing if it was not there.
LEMMA EntryRemoved ==
    ASSUME NEW a \in Identities, NEW p,
           Book(cf_contacts', a) = NotFor(p, Book(cf_contacts, a)),
           \A b \in Identities : b # a => Book(cf_contacts', b) = Book(cf_contacts, b),
           UNCHANGED cf_sectors
    PROVE  Store!RemoveEntry(a) \/ UNCHANGED Store!vars
  <1>1. PICK B, B2, C, C2 : /\ B = Books(cf_contacts) /\ B2 = Books(cf_contacts')
                            /\ C = Chains(cf_sectors) /\ C2 = Chains(cf_sectors')
    OBVIOUS
  <1>2. B2 = [B EXCEPT ![a] = {o \in B[a] : o.identity_id # p}]
    BY <1>1 DEF Books, NotFor
  <1>3. C2 = C
    BY <1>1
  <1>4. CASE \E e \in B[a] : e.identity_id = p
    <2>1. PICK e \in B[a] : e.identity_id = p
      BY <1>4
    <2>2. B2 = [B EXCEPT ![a] = {o \in B[a] : o.identity_id # e.identity_id}]
      BY <1>2, <2>1
    <2>3. Store!Without(a, e.identity_id) = {o \in B[a] : o.identity_id # e.identity_id}
      BY <1>1, Mapped DEF Store!Without
    <2>4. Store!RemoveEntry(a)
      BY <1>1, <1>3, <2>1, <2>2, <2>3, Mapped DEF Store!RemoveEntry
    <2>. QED
      BY <2>4
  <1>5. CASE \A e \in B[a] : e.identity_id # p
    <2>1. B2 = B
      BY <1>1, <1>2, <1>5 DEF Books
    <2>. QED
      BY <1>1, <1>3, <2>1, Mapped DEF Store!vars
  <1>. QED
    BY <1>4, <1>5

\* A chain after a step has its sectors in order, and the others are untouched.
LEMMA ChainBecomes ==
    ASSUME StoreInv', NEW sc \in Scopes, NEW sectors,
           ToSet(Chain(cf_sectors', sc)) = sectors,
           \A sd \in Scopes : sd # sc => Chain(cf_sectors', sd) = Chain(cf_sectors, sd)
    PROVE  Store!Becomes(sc, sectors)
  <1>1. PICK C, C2 : C = Chains(cf_sectors) /\ C2 = Chains(cf_sectors')
    OBVIOUS
  <1>2. C2[sc] = Chain(cf_sectors', sc) /\ C2 = [C EXCEPT ![sc] = C2[sc]]
    BY <1>1 DEF Chains
  <1>3. PICK D, S : D = cf_sectors' /\ S = sealed'
    OBVIOUS
  <1>4. SectorsOK(D, S) /\ DOMAIN S \subseteq Nat
    BY <1>3, StoreConstants DEF StoreInv, SealsOK
  <1>5. /\ Chain(D, sc) \in Seq(ToSet(Chain(D, sc))) /\ InOrder(Chain(D, sc))
    BY <1>4, ChainSet
  <1>6. C2[sc] \in Seq(sectors) /\ InOrder(C2[sc]) /\ ToSet(C2[sc]) = sectors
    BY <1>2, <1>3, <1>5
  <1>7. Store!InOrder(C2[sc]) /\ Store!ToSet(C2[sc]) = sectors
    BY <1>6 DEF Store!InOrder, InOrder, Store!ToSet, ToSet
  <1>. QED
    BY <1>1, <1>2, <1>6, <1>7, Mapped DEF Store!Becomes

\* The column families, with their byte keys, prefixes and scans (db.rs,
\* sector.rs, contacts/), implement the address books and the chains of
\* AccountStore: accounts and scopes never see each other's entries, a write
\* replaces one entry, a delete removes one, and a restart changes nothing.
THEOREM StoreRefinement == NodeSpec => ImplementsAccountStore
  <1>1. NodeInit => Store!Init
    <2>. SUFFICES ASSUME NodeInit PROVE Store!Init
      OBVIOUS
    <2>1. StoreInv /\ DOMAIN cf_contacts = {} /\ DOMAIN cf_sectors = {}
      <3>1. cf_contacts = <<>> /\ cf_sectors = <<>>
        BY DEF NodeInit, StoreInit
      <3>. QED
        BY <3>1, StoreStart
    <2>2. ASSUME NEW a \in Identities PROVE Book(cf_contacts, a) = {}
      BY <2>1, BookHolds DEF StoreInv, Kept
    <2>3. ASSUME NEW sc \in Scopes PROVE Chain(cf_sectors, sc) = <<>>
      <3>1. DOMAIN sealed \subseteq Nat /\ SectorsOK(cf_sectors, sealed)
        BY <2>1, StoreConstants DEF StoreInv, SealsOK
      <3>2. ToSet(Chain(cf_sectors, sc)) = {}
        BY <2>1, <3>1, ChainSet DEF Held
      <3>3. Chain(cf_sectors, sc) \in Seq({})
        BY <3>1, <3>2, ChainSet
      <3>. QED
        BY <3>3
    <2>4. /\ Books(cf_contacts) = [a \in Identities |-> {}]
          /\ Chains(cf_sectors) = [sc \in Scopes |-> <<>>]
      BY <2>2, <2>3 DEF Books, Chains
    <2>. QED
      BY <2>4, Mapped DEF Store!Init
  <1>2. ASSUME StoreInv, StoreInv', KeysInv, [NodeNext]_nodeVars
        PROVE  [Store!Next]_(Store!vars)
    <2>1. using.peers \subseteq Peers /\ using.accounts \subseteq NeuralKey
      BY <1>2, StoreConstants DEF StoreInv
    <2>2. ASSUME UNCHANGED <<cf_sectors, cf_contacts>> PROVE UNCHANGED Store!vars
      BY <2>2, Mapped DEF Store!vars
    <2>3. CASE ContactStep
      <3>1. sdk.identity_id \in Identities /\ UNCHANGED <<using, sdk>>
        BY <1>2, <2>3 DEF ContactStep, Uses, StoreInv
      <3>2. ASSUME NEW c \in Contact, add_contact(sdk.identity_id, c)
            PROVE  Store!AddEntry(sdk.identity_id)
        <4>1. UNCHANGED cf_sectors
          BY <3>2 DEF add_contact
        <4>. QED
          BY <4>1, <3>1, <3>2, <1>2, AddKeeps, EntryAdded
      <3>3. ASSUME NEW p \in using.peers, remove_contact(sdk.identity_id, p)
            PROVE  Store!RemoveEntry(sdk.identity_id) \/ UNCHANGED Store!vars
        <4>1. UNCHANGED cf_sectors
          BY <3>3 DEF remove_contact
        <4>. QED
          BY <4>1, <3>1, <3>3, <2>1, <1>2, RemoveKeeps, EntryRemoved
      <3>. QED
        BY <2>3, <3>1, <3>2, <3>3 DEF ContactStep, Store!Next
    <2>4. CASE SectorStep
      <3>1. sdk.identity_id \in Identities /\ UNCHANGED <<using, sdk>>
        BY <1>2, <2>4 DEF SectorStep, Uses, StoreInv
      <3>2. ASSUME NEW sc \in Scopes, NEW id \in 1 .. MaxSectorId, NEW p \in using.peers,
                   NEW text \in Plaintexts,
                   append_sector(sdk.identity_id, sdk.machine_id, sc, p, text, id)
            PROVE  Store!AddSector(sc)
        <4>1. PICK w : /\ AppendsAs(sc, id, w)
                       /\ w.plaintext \in Plaintexts /\ w.recipient \in Peers
                       /\ w.aad = [f \in DOMAIN ReadAs |-> w.aad[f]]
                       /\ \E n \in 0 .. rotations[w.recipient] : w.keys = PublicKeys(w.recipient, n)
                       /\ w.aad.prev_sector_id \in DOMAIN sealed \cup {NoId}
          BY <3>1, <3>2, <2>1, <1>2, AppendStep
        <4>2. PICK s : s = TheSector(sealed', sc, id)
          OBVIOUS
        <4>3. /\ s.id = id /\ ToSet(Chain(cf_sectors', sc)) = But(id, ToSet(Chain(cf_sectors, sc))) \cup {s}
              /\ \A sd \in Scopes : sd # sc => Chain(cf_sectors', sd) = Chain(cf_sectors, sd)
          BY <4>1, <4>2, <3>1, <1>2, AppendKeeps
        <4>4. <<s.identity_id, s.machine_id>> = sc
          BY <4>2, StoreConstants DEF TheSector
        <4>5. UNCHANGED cf_contacts
          BY <4>1 DEF AppendsAs
        <4>6. PICK C, C2 : C = Chains(cf_sectors) /\ C2 = Chains(cf_sectors')
          OBVIOUS
        <4>7. C[sc] = Chain(cf_sectors, sc) /\ C2[sc] = Chain(cf_sectors', sc)
          BY <4>6 DEF Chains
        <4>8. Store!Becomes(sc, But(s.id, ToSet(C[sc])) \cup {s}) /\ s \in ToSet(C2[sc])
          BY <4>3, <4>7, <1>2, ChainBecomes
        <4>9. /\ Store!Others(sc, s.id) = But(s.id, ToSet(C[sc]))
              /\ Store!ToSet(C2[sc]) = ToSet(C2[sc])
          BY <4>6, Mapped DEF But, Store!Others, Store!ToSet, ToSet
        <4>. QED
          BY <4>4, <4>5, <4>6, <4>8, <4>9, Mapped DEF Store!AddSector
      <3>3. ASSUME NEW sc \in Scopes, NEW id \in 1 .. MaxSectorId, delete_sector(sc[1], sc[2], id)
            PROVE  Store!RemoveSector(sc) \/ UNCHANGED Store!vars
        <4>1. /\ ToSet(Chain(cf_sectors', sc)) = But(id, ToSet(Chain(cf_sectors, sc)))
              /\ \A sd \in Scopes : sd # sc => Chain(cf_sectors', sd) = Chain(cf_sectors, sd)
              /\ id \notin Held(cf_sectors, sealed, sc) =>
                    Chain(cf_sectors', sc) = Chain(cf_sectors, sc)
          BY <3>1, <3>3, <1>2, DeleteKeeps
        <4>2. UNCHANGED cf_contacts
          BY <3>3 DEF delete_sector
        <4>3. PICK C, C2 : C = Chains(cf_sectors) /\ C2 = Chains(cf_sectors')
          OBVIOUS
        <4>4. C[sc] = Chain(cf_sectors, sc)
          BY <4>3 DEF Chains
        <4>5. CASE id \in Held(cf_sectors, sealed, sc)
          <5>1. DOMAIN sealed \subseteq Nat /\ SectorsOK(cf_sectors, sealed)
            BY <1>2, StoreConstants DEF StoreInv, SealsOK
          <5>2. PICK s \in ToSet(C[sc]) : s.id = id
            <6>1. TheSector(sealed, sc, id) \in ToSet(C[sc])
              BY <4>4, <4>5, <5>1, ChainSet
            <6>. QED
              BY <6>1 DEF TheSector
          <5>3. Store!Becomes(sc, But(s.id, ToSet(C[sc])))
            BY <4>1, <4>4, <5>2, <1>2, ChainBecomes
          <5>4. /\ Store!Others(sc, s.id) = But(s.id, ToSet(C[sc]))
                /\ Store!ToSet(C[sc]) = ToSet(C[sc])
            BY <4>3, Mapped DEF But, Store!Others, Store!ToSet, ToSet
          <5>5. Store!RemoveSector(sc)
            BY <4>2, <4>3, <5>3, <5>4, Mapped DEF Store!RemoveSector
          <5>. QED
            BY <5>5
        <4>6. CASE id \notin Held(cf_sectors, sealed, sc)
          <5>1. C2 = C
            BY <4>1, <4>3, <4>6 DEF Chains
          <5>. QED
            BY <4>2, <4>3, <5>1, Mapped DEF Store!vars
        <4>. QED
          BY <4>5, <4>6
      <3>. QED
        BY <2>4, <3>2, <3>3 DEF SectorStep, Store!Next
    <2>5. CASE ~ContactStep /\ ~SectorStep
      <3>1. UNCHANGED <<cf_sectors, cf_contacts>>
        BY <1>2, <2>5, StopKeeps DEF NodeNext, nodeVars, storeVars, SetUp, Start, KeyStep, OutboxStep,
             PeerStep, rotate_keys
      <3>. QED
        BY <3>1, <2>2
    <2>. QED
      BY <2>3, <2>4, <2>5
  <1>. QED
    BY <1>1, <1>2, StoreInvariant, KeysInvariant, PTL DEF NodeSpec, ImplementsAccountStore, Store!Spec
====
