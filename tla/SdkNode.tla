---- MODULE SdkNode ----
(***************************************************************************)
(* A device with the SDK on it (zero-sdk: builder.rs, lib.rs): a process   *)
(* that recovers a NeuralKey from shares, opens the database with it, and  *)
(* uses machine keys, contacts, sectors and the outbox until it stops.     *)
(*                                                                         *)
(* ZeroSdk::open wires the services around one database handle; the        *)
(* application drives them, and is left free here.  One database may be    *)
(* opened by one account after another, by one process at a time (RocksDB  *)
(* locks it).  The services meet in the database, the identity and the     *)
(* moment the process stops, so a run explores a workload, a few services  *)
(* together with the accounts and people they meet, at a time.             *)
(***************************************************************************)
EXTENDS Outbox, MachineKeys, SectorStore

CONSTANTS
    Workloads,      \* records [services, accounts, configs, peers]
    NotRunning,
    NoShares

ASSUME StoreConstants ==
    /\ U16 \in Nat
    /\ Scopes \subseteq Seq(Nat) \X Seq(Nat)
    /\ \A sc \in Scopes : Len(sc[1]) < U16 /\ Len(sc[2]) < U16
    /\ Peers \subseteq Seq(Nat)
    /\ \A k \in NeuralKey : identity_id(k) \in Seq(Nat)
    /\ \A k1, k2 \in NeuralKey : Len(identity_id(k1)) = Len(identity_id(k2))
    /\ MaxSectorId \in Nat /\ MaxRotations \in Nat /\ NoId \notin Nat
    /\ \A w \in Workloads : /\ w.accounts \subseteq NeuralKey \ {Stranger} /\ w.peers \subseteq Peers
                          /\ w.configs \subseteq [threshold : Nat, total : Nat]

VARIABLES
    using,      \* the workload
    shares,     \* shares[k]: what split_neural_key gave for account k
    sdk         \* the ZeroSdk of the running process, with its NeuralKey

nodeVars == <<vars, keyVars, storeVars, using, shares, sdk>>

NodeInit ==
    /\ Init /\ KeysInit /\ StoreInit
    /\ using \in Workloads
    /\ shares = [k \in NeuralKey |-> NoShares]
    /\ sdk = NotRunning

Uses(service) == sdk # NotRunning /\ service \in using.services

----------------------------------------------------------------------------

\* NeuralKey::generate and split_neural_key, when an account is set up.
SetUp(k, cfg) ==
    LET split == split_neural_key(k, cfg)
    IN  /\ shares[k] = NoShares
        /\ "ok" \in DOMAIN split
        /\ shares' = [shares EXCEPT ![k] = split.ok]
        /\ UNCHANGED <<vars, keyVars, storeVars, using, sdk>>

\* The shares somebody may come up with: some of an account's, in order, or
\* with one twice, or with bytes that are no share at the end.
Picked(k) ==
    LET own == shares[k].shares
        some == {[i \in 1 .. n |-> own[i]] : n \in 1 .. Len(own)}
    IN  some \cup {Append(s, s[1]) : s \in some} \cup {Append(s, NotAShare) : s \in some}

derive_default_machine_id(identity) == <<"zero-sdk:machine-id:v1", identity>>

open(key) ==
    [identity_id |-> identity_id(key),
     machine_id |-> derive_default_machine_id(identity_id(key)),
     key |-> key]

\* A process is started, recovers a key from the shares it is given and opens
\* the database with it.
Start(picked, threshold) ==
    /\ sdk = NotRunning
    /\ \E r \in recover_neural_key(picked, threshold) :
          /\ "ok" \in DOMAIN r
          /\ LoadKeys(r.ok)
          /\ sdk' = open(r.ok)
    /\ UNCHANGED <<vars, storeVars, using, shares>>

\* The process stops, in the middle of whatever its threads are doing.
Stop ==
    /\ sdk # NotRunning
    /\ sdk' = NotRunning
    /\ call' = [t \in Threads |-> NoCall]
    /\ DropKeys
    /\ StoreRestart
    /\ UNCHANGED <<cf, ret, using, shares>>

KeyStep(t) ==
    /\ Uses("keys")
    /\ \/ \E k \in using.accounts, r \in Requests : derive_machine_key(t, k, r)
       \/ push_machine_key(t)
       \/ seal(t, sdk.key)
       \/ write_blob(t)
    /\ UNCHANGED <<vars, storeVars, using, shares, sdk>>

ContactStep ==
    /\ Uses("contacts")
    /\ \/ \E c \in Contact : c.identity_id \in using.peers /\ add_contact(sdk.identity_id, c)
       \/ \E p \in using.peers : remove_contact(sdk.identity_id, p)
    /\ UNCHANGED <<vars, keyVars, using, shares, sdk>>

SectorStep ==
    /\ Uses("sectors")
    /\ \E sc \in Scopes, id \in 1 .. MaxSectorId :
          \/ \E p \in using.peers, text \in Plaintexts :
                append_sector(sdk.identity_id, sdk.machine_id, sc, p, text, id)
          \/ delete_sector(sc[1], sc[2], id)
    /\ UNCHANGED <<vars, keyVars, using, shares, sdk>>

OutboxStep(t) ==
    /\ Uses("outbox")
    /\ ThreadStep(t)
    /\ UNCHANGED <<keyVars, storeVars, using, shares, sdk>>

\* Elsewhere, somebody generates new keys.
PeerStep ==
    /\ \E p \in using.peers : rotate_keys(p)
    /\ UNCHANGED <<vars, keyVars, using, shares, sdk>>

NodeNext ==
    \/ \E k \in using.accounts :
        \/ \E cfg \in using.configs : SetUp(k, cfg)
        \/ /\ shares[k] # NoShares
           /\ \E picked \in Picked(k), threshold \in 0 .. MAX_SHARES :
                 Start(picked, threshold)
    \/ Stop
    \/ \E t \in KeyThreads : KeyStep(t)
    \/ ContactStep
    \/ SectorStep
    \/ \E t \in Threads : OutboxStep(t)
    \/ PeerStep

NodeSpec == NodeInit /\ [][NodeNext]_nodeVars

----------------------------------------------------------------------------
(* Properties *)

\* Unless the signing thread fails, its signature verifies.
Verifies(public, payload, results) ==
    \A r \in results :
        r \in {[ok |-> <<public[1], public[2], payload>>], [err |-> "SealError"]}

\* Whatever was sealed, restored and sealed again before, and by whichever
\* thread: list_machine_records returns records as generate_machine_key_with
\* returned them, each once, and what sign_with and ml_dsa_sign_with sign for
\* them verifies under the public keys that were handed out.
ListedAsIssued ==
    \A k \in NeuralKey :
        LET listed == list_machine_records(k)
        IN  \A i \in DOMAIN listed :
              LET id == listed[i].machine_id
              IN  /\ listed[i] \in issued
                  /\ \A j \in DOMAIN listed : listed[j].machine_id = id => j = i
                  /\ Verifies(listed[i].ed25519_pub, "m", sign_with(id, "m"))
                  /\ Verifies(listed[i].mldsa65_pub, "m", ml_dsa_sign_with(id, "m"))

\* Shares of an account that reach its threshold give its key or, when more
\* are asked for, an error; fewer never give it, whatever threshold the caller
\* names.
SharesGiveKey(k) ==
    \A n \in 1 .. Len(shares[k].shares), threshold \in 0 .. MAX_SHARES :
        LET results == recover_neural_key(SubSeq(shares[k].shares, 1, n), threshold)
        IN  /\ \A r \in results : "ok" \in DOMAIN r => (r.ok = k <=> n >= shares[k].threshold)
            /\ (n >= threshold /\ threshold = shares[k].threshold) => results = {[ok |-> k]}

\* What the file of an account gives: to its key a store or the error of a
\* derivation, to any other key nothing.
FileGives(k, ids) ==
    /\ \A r \in from_sealed_bytes(k, blob[k][1]) :
          IF "ok" \in DOMAIN r
          THEN ids \subseteq {r.ok[i].machine_id : i \in DOMAIN r.ok}
          ELSE r.err \in {"SealError", "Zid"}
    /\ \A other \in NeuralKey \ {k} :
          from_sealed_bytes(other, blob[k][1]) = {[err |-> "UnsealError"]}

\* Whoever recovers the NeuralKey gets the machine keys back: what unseals from
\* the account's file has every machine key whose caller had it when the file
\* was sealed, and those of the files before it, through all starts, also of
\* processes that recovered a wrong key from too few shares, unless a blob was
\* written over a newer one.
SealCoversReturned ==
    \A k \in NeuralKey :
        /\ shares[k] # NoShares => SharesGiveKey(k)
        /\ IF blob[k] = NoBlob THEN durable[k] = {} ELSE FileGives(k, durable[k])

Identities == {identity_id(k) : k \in NeuralKey}

\* The storage layer keeps its promise: books of accounts and chains of scopes
\* that share two column families stay apart, in order, and outlive the
\* process.
Store == INSTANCE AccountStore WITH
    Accounts <- Identities,
    book <- [a \in Identities |-> ToSet(list_contacts(a))],
    chain <- [sc \in Scopes |-> iter_chain(sc[1], sc[2])]

ImplementsAccountStore == Store!Spec

\* What open_envelope returns to the recipient of a sector, with its keys of
\* the moment.
Opened(s) ==
    LET w == sealed[s.id]
    IN  open_envelope(s.payload, KeysOf(w.recipient, rotations[w.recipient]).private,
                      VerifyingKeys(w.aad.sender_identity))

\* A sector read back from its chain opens, for a recipient whose keys are
\* still the ones the contact had, to the plaintext and the AAD that were
\* sealed; after the recipient has changed keys it is refused.  The AAD names
\* the sector and its predecessor as the chain does, and the predecessor has
\* the smaller id, hence the earlier place, unless the clock was set back.
OpensAsSealed ==
    \A sc \in Scopes : \A s \in ToSet(iter_chain(sc[1], sc[2])) :
        LET w == sealed[s.id]
        IN  /\ Opened(s) = IF w.keys = ContactMachineKey(w.recipient)
                           THEN Ok(<<w.plaintext, w.aad>>) ELSE Err("DecryptionFailed")
            /\ get_sector(sc[1], sc[2], s.id) = s
            /\ w.aad.sector_id = s.id /\ w.aad.prev_sector_id = s.prev
            /\ stepped \/ s.prev = NoId \/ s.prev < s.id

\* Envelopes put together from two stored ones, or from one and damaged parts,
\* also with the border between AAD and kem_output moved: the signed message
\* is the same then.
Mixed(e1, e2) ==
    LET ct == e1.ciphertext
    IN  {[e1 EXCEPT !.aad = e2.aad],
         [e1 EXCEPT !.ciphertext = e2.ciphertext],
         [e1 EXCEPT !.signature = e2.signature],
         [e1 EXCEPT !.ciphertext.ciphertext = e2.ciphertext.ciphertext],
         [e1 EXCEPT !.ciphertext.ciphertext = Damaged],
         [e1 EXCEPT !.ciphertext.nonce = e2.ciphertext.nonce],
         [e1 EXCEPT !.ciphertext.kem_output = <<@[1], Damaged>>],
         [e1 EXCEPT !.signature.mldsa = e2.signature.mldsa],
         [e1 EXCEPT !.signature.mldsa = Truncated],
         [e1 EXCEPT !.signature.ed25519 = e2.signature.ed25519],
         [e1 EXCEPT !.aad = Append(@, ct.kem_output[1]),
                    !.ciphertext.kem_output = Tail(@)],
         [e1 EXCEPT !.aad = SubSeq(@, 1, Len(@) - 1),
                    !.ciphertext.kem_output = <<Last(e1.aad)>> \o @]}

\* open_envelope returns nothing from an envelope that nobody sealed, although
\* neither the cipher's output nor the borders between the signed parts are
\* covered by the signatures.
OnlySealedOpens ==
    LET stored == UNION {ToSet(iter_chain(sc[1], sc[2])) : sc \in Scopes}
    IN  \A s1, s2 \in stored : \A e \in Mixed(s1.payload, s2.payload) :
            e \in {s.payload : s \in stored}
            \/ ~IsOk(Opened([s1 EXCEPT !.payload = e]))
====
