---- MODULE MachineKeys ----
(***************************************************************************)
(* MachineKeyStore (zero-identity: machine_key.rs): the machine keys of a  *)
(* process and the sealed blob that carries them over a restart.           *)
(*                                                                         *)
(* The store lives in memory behind a mutex.  generate_machine_key_with    *)
(* derives the pair before it takes the lock, to_sealed_bytes seals after  *)
(* it has released it, and the application writes the blob to disk later   *)
(* still, so the threads of a process overtake each other at those points. *)
(* Signing runs under the lock, on a thread of its own whose panic comes   *)
(* back as an error: no panic ever poisons the mutex.                      *)
(*                                                                         *)
(* Labels and creation times are left out; a blob is the record of what    *)
(* the cipher protects and of the key it was encrypted with.               *)
(***************************************************************************)
EXTENDS NeuralKeys

CONSTANTS
    KeyThreads,     \* threads of the process that use the store
    Requests,       \* <<capability bits, epoch>> asked of generate_machine_key_with
    KnownBits,      \* bits that MachineKeyCapabilities defines
    MaxKeys,        \* bound: machine keys generated
    Idle            \* the thread is between calls

SEAL_VERSION == 1

NoBlob == <<>>

VARIABLES
    entries,    \* the records in the store's mutex, in order
    busy,       \* busy[t]: a record to push, a blob to write, or Idle
    blob,       \* blob[k]: the file of k's machine keys, <<bytes>>, or NoBlob
    drawn,      \* how many keys were drawn from OsRng
    issued,     \* history: the records generate_machine_key_with returned
    held,       \* history: the machine ids that callers in this process have
    durable     \* history: durable[k]: the machine ids that k's file must have

keyVars == <<entries, busy, blob, drawn, issued, held, durable>>

KeysInit ==
    /\ entries = <<>>
    /\ busy = [t \in KeyThreads |-> Idle]
    /\ blob = [k \in NeuralKey |-> NoBlob]
    /\ drawn = 0
    /\ issued = {}
    /\ held = {}
    /\ durable = [k \in NeuralKey |-> {}]

----------------------------------------------------------------------------
(* Records *)

Seeds == {"sign", "encrypt", "pq_sign", "pq_encrypt"}

from_bits_truncate(bits) == bits \cap KnownBits

\* MachineKeyPair::from_seeds, and the public halves taken from the pair.
derive_pair_and_public(seeds, capabilities, epoch) ==
    [pair |-> [seeds |-> seeds, capabilities |-> capabilities, epoch |-> epoch],
     ed25519_pub |-> <<"Ed25519", seeds.sign>>,
     mldsa65_pub |-> <<"MLDSA", seeds.pq_sign>>]

\* An EntryRecord for the n-th draw, four seeds and a machine id.
EntryRecord(key, n, bits, epoch) ==
    LET seeds == [f \in Seeds |-> <<n, f>>]
        caps == from_bits_truncate(bits)
        derived == derive_pair_and_public(seeds, caps, epoch)
    IN  [identity_id |-> identity_id(key), machine_id |-> n, capabilities |-> caps,
         epoch |-> epoch, seeds |-> seeds, pair |-> derived.pair,
         ed25519_pub |-> derived.ed25519_pub, mldsa65_pub |-> derived.mldsa65_pub]

\* The MachineKeyRecord, with the identity it was generated for.
MachineKeyRecord(r) ==
    [identity_id |-> r.identity_id, machine_id |-> r.machine_id,
     capabilities |-> r.capabilities, epoch |-> r.epoch,
     ed25519_pub |-> r.ed25519_pub, mldsa65_pub |-> r.mldsa65_pub]

\* list_machine_records: those of one identity, each at its place in the store,
\* hence in the order of insertion.
list_machine_records(key) ==
    LET own == {i \in DOMAIN entries : entries[i].identity_id = identity_id(key)}
    IN  [i \in own |-> MachineKeyRecord(entries[i])]

\* with_pair: the first record with the machine id, or KeyNotFound.
with_pair(machine_id) ==
    LET found == {i \in DOMAIN entries : entries[i].machine_id = machine_id}
    IN  IF found = {} THEN [err |-> "KeyNotFound"]
        ELSE [ok |-> entries[CHOOSE i \in found : \A j \in found : i =< j].pair]

\* run_on_big_stack: the thread may not start, and it may panic.
run_on_big_stack(result) == {[ok |-> result], [err |-> "SealError"]}

\* A derivation of a record's pair on that thread, which zid may refuse.
Derivation(record) == run_on_big_stack(record) \cup {[err |-> "Zid"]}

\* sign_with and ml_dsa_sign_with, as the sets of results they may have.
sign_with(machine_id, payload) ==
    LET p == with_pair(machine_id)
    IN  IF "err" \in DOMAIN p THEN {p}
        ELSE run_on_big_stack(<<"Ed25519", p.ok.seeds.sign, payload>>)

ml_dsa_sign_with(machine_id, payload) ==
    LET p == with_pair(machine_id)
    IN  IF "err" \in DOMAIN p THEN {p}
        ELSE run_on_big_stack(<<"MLDSA", p.ok.seeds.pq_sign, payload>>)

----------------------------------------------------------------------------
(* Sealing *)

\* SealedEntry::from_record keeps the seeds, not the pair.
from_record(r) ==
    [identity_id |-> r.identity_id, machine_id |-> r.machine_id,
     capabilities |-> r.capabilities, epoch |-> r.epoch,
     sign_seed |-> r.seeds.sign, encrypt_seed |-> r.seeds.encrypt,
     pq_sign_seed |-> r.seeds.pq_sign, pq_encrypt_seed |-> r.seeds.pq_encrypt]

SealedSeeds(e) == [sign |-> e.sign_seed, encrypt |-> e.encrypt_seed,
                   pq_sign |-> e.pq_sign_seed, pq_encrypt |-> e.pq_encrypt_seed]

\* Mutant: two seeds change places.
RecordOf_M(e) ==
    LET seeds == [SealedSeeds(e) EXCEPT !.sign = e.encrypt_seed, !.encrypt = e.sign_seed]
        derived == derive_pair_and_public(seeds, from_bits_truncate(e.capabilities), e.epoch)
    IN  [identity_id |-> e.identity_id, machine_id |-> e.machine_id,
         capabilities |-> e.capabilities, epoch |-> e.epoch, seeds |-> seeds,
         pair |-> derived.pair, ed25519_pub |-> derived.ed25519_pub,
         mldsa65_pub |-> derived.mldsa65_pub]

\* The record of a sealed entry, its pair derived again.
RecordOf(e) ==
    LET seeds == SealedSeeds(e)
        derived == derive_pair_and_public(seeds, from_bits_truncate(e.capabilities), e.epoch)
    IN  [identity_id |-> e.identity_id, machine_id |-> e.machine_id,
         capabilities |-> e.capabilities, epoch |-> e.epoch, seeds |-> seeds,
         pair |-> derived.pair, ed25519_pub |-> derived.ed25519_pub,
         mldsa65_pub |-> derived.mldsa65_pub]

\* SealedEntry::into_record, as the set of results it may have.
into_record(e) == Derivation(RecordOf(e))

\* The cipher's key: an HKDF of the identity id.
aead_from_neural_key(key) == <<"machine-key-store/v1", identity_id(key)>>

\* The whole store, whosever the keys in it are.
to_sealed_bytes(key) ==
    [aead |-> aead_from_neural_key(key), version |-> SEAL_VERSION,
     entries |-> [i \in DOMAIN entries |-> from_record(entries[i])]]

\* The set of results: a store with all the entries, or the error of the first
\* one that cannot be derived.
from_sealed_bytes(key, bytes) ==
    IF bytes.aead # aead_from_neural_key(key) \/ bytes.version # SEAL_VERSION
    THEN {[err |-> "UnsealError"]}
    ELSE LET e == bytes.entries
         IN  {[ok |-> [i \in DOMAIN e |-> RecordOf(e[i])]]}
             \cup {r \in UNION {into_record(e[i]) : i \in DOMAIN e} : "err" \in DOMAIN r}

----------------------------------------------------------------------------
(* The calls of a thread *)

\* Mutant: the caller has the key before the store has it.
derive_machine_key_M(t, key, request) ==
    /\ busy[t] = Idle
    /\ drawn < MaxKeys
    /\ drawn' = drawn + 1
    /\ LET record == EntryRecord(key, drawn', request[1], request[2])
       IN  /\ busy' = [busy EXCEPT ![t] = [push |-> record]]
           /\ issued' = issued \cup {MachineKeyRecord(record)}
           /\ held' = held \cup {record.machine_id}
    /\ UNCHANGED <<entries, blob, durable>>

\* generate_machine_key_with: seeds and id are drawn and the pair is derived.
\* When that fails, or the clock is before 1970, nothing is left of them.
derive_machine_key(t, key, request) ==
    /\ busy[t] = Idle
    /\ drawn < MaxKeys
    /\ drawn' = drawn + 1
    /\ \E r \in Derivation(EntryRecord(key, drawn', request[1], request[2])) :
          busy' = [busy EXCEPT ![t] = IF "ok" \in DOMAIN r THEN [push |-> r.ok] ELSE Idle]
    /\ UNCHANGED <<entries, blob, issued, held, durable>>

\* ... and pushed under the lock; the caller gets the record.
push_machine_key(t) ==
    /\ busy[t] # Idle /\ "push" \in DOMAIN busy[t]
    /\ entries' = Append(entries, busy[t].push)
    /\ issued' = issued \cup {MachineKeyRecord(busy[t].push)}
    /\ held' = held \cup {busy[t].push.machine_id}
    /\ busy' = [busy EXCEPT ![t] = Idle]
    /\ UNCHANGED <<blob, drawn, durable>>

\* to_sealed_bytes: the store as it is under the lock, sealed for `key`.  For
\* the histories: the machine ids that callers have, and the file that the
\* blob is meant to replace.
seal(t, key) ==
    /\ busy[t] = Idle
    /\ busy' = [busy EXCEPT ![t] = [write |-> to_sealed_bytes(key), file |-> key,
                                   returned |-> held, over |-> blob[key]]]
    /\ UNCHANGED <<entries, blob, drawn, issued, held, durable>>

\* The application replaces the file with the blob it got.  What the file had
\* is still owed, unless another thread has replaced it since the sealing.
write_blob(t) ==
    LET file == busy[t].file
    IN  /\ busy[t] # Idle /\ "write" \in DOMAIN busy[t]
        /\ blob' = [blob EXCEPT ![file] = <<busy[t].write>>]
        /\ durable' = [durable EXCEPT ![file] =
                         busy[t].returned \cup IF blob[file] = busy[t].over THEN @ ELSE {}]
        /\ busy' = [busy EXCEPT ![t] = Idle]
        /\ UNCHANGED <<entries, drawn, issued, held>>

\* A process starts with the store of the key's file, or with
\* MachineKeyStore::new() when there is none.  When the file gives an error it
\* does not start.
LoadKeys(key) ==
    /\ \E r \in IF blob[key] = NoBlob THEN {[ok |-> <<>>]}
             ELSE from_sealed_bytes(key, blob[key][1]) :
          "ok" \in DOMAIN r /\ entries' = r.ok
    /\ held' = {entries'[i].machine_id : i \in DOMAIN entries'}
    /\ UNCHANGED <<busy, blob, drawn, issued, durable>>

\* The process is gone and its memory with it.
DropKeys ==
    /\ entries' = <<>>
    /\ held' = {}
    /\ busy' = [t \in KeyThreads |-> Idle]
    /\ UNCHANGED <<blob, drawn, issued, durable>>
====
