# TLA+ specification of zero-sdk

This directory specifies the stateful parts of zero-sdk (`crates/`): what its
calls and background tasks do to the database, the network and each other, what
they promise, and which of those promises hold when calls overlap, messages are
lost or repeated, and processes stop half way.

TLC checks each specification on a small instance (`*.cfg`). TLAPS proves a
number of theorems for every value of the constants (`*Proofs.tla`).
`PROJECT.json` has, definition by definition, the source lines that are modelled.

## 1. The system

zero-sdk is a Rust workspace for end-to-end encrypted messaging between machines
that belong to identities.

| crate | part | state | operations |
|---|---|---|---|
| zero-messaging | group membership (`group/mod.rs`, `permissions.rs`, `types.rs`) | a manifest per group in `CF_GROUPS`: members with roles, MLS epoch, time of update | `create_group`, `promote`, `demote`, `add_member`, `remove_member`, `load_manifest`, `persist_manifest` |
| | manifest merge (`group/manifest.rs`) | – | `merge_manifest`, `merge_manifests` |
| | group messages (`group/mod.rs`) | messages with a status in `CF_GROUPS` | `send_message`, `receive_message`, `process_receipt`, `mark_delivered`, `mark_read`, `list_messages` |
| | direct messages (`dm/service.rs`, `receive.rs`, `receipt.rs`) | a conversation with its last sector and an index of messages in `CF_CHAINS`; a receive loop | `open_conversation`, `send_text`, `update_status`, `acknowledge_sent`, `process_receipt`, `mark_read`, `mark_read_and_emit`, `process_inbound_dm`, `start_receive_loop` |
| | pagination (`dm/service.rs`, `dm/paginate.rs`) | – | `history`, `paginate_messages` |
| | inbox (`inbox/`) | an ordered index of conversations in `CF_INBOX_INDEX` | `upsert`, `mark_read`, `list_inbox`, `stats`, `unread_total` |
| | contacts (`contacts/`) | address books in `CF_CONTACTS`, keyed by owner then contact | `add_contact`, `get_contact`, `remove_contact`, `list_contacts` |
| zero-storage | outbox (`outbox.rs`) | entries by sector with their attempts in `CF_OUTBOX` | `enqueue`, `dequeue_due`, `mark_attempted`, `remove`, `count` |
| | dedupe cache (`dedupe.rs`) | the latest sector ids, in memory | `seen`, `mark` |
| | database, sectors (`db.rs`, `sector.rs`) | RocksDB column families; sectors in `CF_SECTORS` under length-prefixed scope names and ids | `put_cf`, `get_cf`, `delete_cf`, `prefix_scan`; `put_sector`, `get_sector`, `delete_sector`, `iter_chain` |
| zero-network | GRID client (`real.rs`) | connection, command channel, map of topics to broadcast senders | `connect`, `publish`, `subscribe`, `unsubscribe`, the event loop |
| | in-memory broker (`mock.rs`) | subscribers by topic, configured faults | `publish`, `subscribe`, `unsubscribe` |
| | retry pump (`retry.rs`) | a polling task over an `OutboxHandle` | `start`, `pump_loop`, `compute_backoff_ms` |
| zero-crypto | envelopes (`aad.rs`, `encrypt.rs`, `sign.rs`, `envelope.rs`) | – | `seal_envelope`, `open_envelope` and the calls they are made of |
| | MLS group keys (`group_key.rs`) | the group state of openmls, in memory | `MlsMember::new`, `key_package`, `create_group`, `add_member`, `join_group`, `encrypt_for_group`, `decrypt_from_group`, `process_commit`, `epoch_secret` |
| zero-identity | neural keys (`neural_key.rs`) | – | `split_neural_key`, `recover_neural_key`, `identity_id` |
| | machine keys (`machine_key.rs`) | a list of key records behind a mutex; a sealed blob the application keeps | `generate_machine_key_with`, `list_machine_records`, `sign_with`, `ml_dsa_sign_with`, `to_sealed_bytes`, `from_sealed_bytes` |
| zero-sdk | the facade (`builder.rs`, `lib.rs`) | the identity and one database handle | `open`, accessors to the services |

How they interact. `send_text` stores a message, puts a sector into the outbox
and saves the conversation. The application's publisher, or the retry pump,
takes sectors from an outbox to `GridClient::publish` and removes them; the
application then calls `acknowledge_sent`. At the other node the receive loop
takes bytes from a subscription, asks the dedupe cache, and calls
`process_inbound_dm`, which stores the message and puts a Delivered receipt into
its own outbox. Receipts travel back the same way and reach `process_receipt`.
Everything meets in one `Arc<ZeroDb>`, whose single accesses are atomic and which
has no transactions and no locks above them. `ZeroSdk::open` makes that handle and
the services around it for the identity of a NeuralKey, which the application has
put together from shares; the same key unseals the machine keys. What a sector
carries is an envelope, sealed for the keys in the recipient's contact entry; its
AAD names the sector and the one before it in the chain. MLS groups share nothing
with the database: their providers are in memory.

What is hard about it. Almost every operation reads from the database, decides,
and writes later, and every service is `Clone` or takes `&Arc`, so two callers
may decide on the same old state. Two writes that belong together (delete and
put of the inbox, store and enqueue and save of `send_text`) are not a batch, so
a process can stop between them. The dedupe cache is bounded and lost at a
restart. The retry pump names entries by topic across an `await`. The event loop
of the GRID client and its callers share a map that each side changes at another
point of a call. Key records are derived before the lock and sealed after it. Each
member of an MLS group merges its own commit at once. Books and chains of all
accounts lie under byte keys of shared column families, found by prefix. `hazards` in `PROJECT.json` lists these at their lines.

What makes each part correct:

- group membership: nobody changes what their rank does not allow; the size
  limit; an epoch for every commit; owners do not come out of nowhere;
- manifest merge: commutative, associative, idempotent; replicas converge;
- group messages: only members send; statuses go forward; one receipt for a
  change; pages leave nothing out;
- direct messages: a status never claims more than the recipient did; statuses go
  forward; what was queued arrives; `last_sector` exists;
- pagination: complete, without overlap, within one conversation;
- inbox: one entry per conversation, the latest; newest first;
- outbox: bounded; attempts are not forgotten; removed entries stay removed;
- retry pump: attempts bounded and spaced; everything settles; an ack removes
  what was published;
- GRID client: connected to the peer that was asked for; every call returns;
  nobody's subscription is lost;
- contacts, sectors: an account sees its own book and a scope its own chain, in
  the order of the ids, also after a restart by another account;
- envelopes: what was sealed opens to the same text and AAD, and nothing else
  opens;
- keys: enough shares and no fewer give the key, and what the key unseals from the
  account's file has every machine key that callers had when it was sealed; what is
  listed is what was handed out;
- MLS groups: the same epoch means the same secret; everybody follows the commits.

## 2. Modules

| module | models | composed of |
|---|---|---|
| `GroupManifest` | manifest, permission table, checks and changes, merge rule: operators only | |
| `GroupService` | the group operations of one node, several threads | `GroupManifest` |
| `GroupReplicas` | manifests on several machines that change and merge them | `GroupManifest` |
| `GroupMessages` | the messages of a group at one node, several threads | |
| `Outbox` | the persistent outbox, several threads | |
| `RetryPump` | `pump_loop`, its handle, producers and time | |
| `GridClient` | dialling, event loop, command channel, callers | |
| `DmService` | the direct-message service and the receive loop of a node, with the dedupe cache: state and actions | |
| `DmDelivery` | two nodes with publishers and a faulty network: the specification | `DmService` |
| `DmHistory` | `history` and `paginate_messages` over ordered keys, read while messages are stored | |
| `Inbox` | the ordered inbox index, several threads | |
| `MessageLifecycle` | abstract: written, held, read, and what the author knows of it | implemented by `DmDelivery` |
| `AccountStore` | abstract: a book per account, an ordered chain per scope | implemented by `SdkNode` |
| `Envelope` | AAD, hybrid encryption, dual signatures, envelopes: operators only | |
| `SectorStore` | column families, sector chains, contacts, sealed sectors | `Envelope` |
| `NeuralKeys` | splitting and recovering a NeuralKey: operators only | |
| `MachineKeys` | the machine key store, several threads, and its sealed blob | `NeuralKeys` |
| `SdkNode` | a device: a process that is started for an account, uses keys, contacts, sectors and the outbox, and stops anywhere | `Outbox`, `MachineKeys`, `SectorStore` |
| `MlsGroup` | devices that create an MLS group, add each other and exchange texts | |
| `MC*` | instances for TLC: functions as constants, symmetry sets | the module named |
| `*Proofs` | theorems and proofs; `MessageStoresProofs` those on `GroupMessages`, `Inbox` and `DmHistory` | the module named |

Conventions. An action bears the name of the function it models. Where a function
makes several database accesses, the first action has the function's name, does
everything up to the first write that others can see, and leaves in `call[t]`
what the code keeps in local variables; the actions that follow (`put`,
`Persist`, `count`, `delete`, ...) are the later accesses. A check that fails is
an early return: it is an outcome (`ret`) where the result is of interest and a
disabled action where it changes nothing. `Crash`, and `Restart` in DmService,
drop what is in memory and keep the database. Data is reduced to what the
properties tell apart: labels, texts, previews, machines and payload bytes are
left out, and identities, messages and sectors are model values. Variables
marked *history* are read by properties only.

How the models follow the code, where it is not obvious:

- **Manifest members** are a function from slots `<<identity, k>>` to roles. The
  code keeps a `Vec` sorted by a stable sort, from which `find` takes the first
  entry of an identity; `create_group` does not remove repeated founders, so an
  identity may have several.
- **The manifest in GroupMessages** is its epoch and members. `CommitEpoch` writes
  the epoch after any that a change under way may have loaded, not only after the
  current one, as the group operations do without a lock (GroupService).
- **Ids** of group messages are numbers whose quotient by `IdsPerMs` is the
  millisecond a UUIDv7 starts with. `now_v7` never goes back within one process;
  `now_ms` reads the clock again, later.
- **Inbox keys** are pairs (inverted timestamp, conversation) in lexicographic
  order, which is the byte order of the encoded keys; `MaxTs` is `u64::MAX`.
- **Conversation keys** in DmHistory are byte sequences with `MaxByte` for 0xFF,
  so the carry of `increment_bytes` is modelled by what it does. That the
  literals "dm:" and "dm_msg:" sort in this order is the first byte.
- **DmDelivery's glue**: the repository leaves to the application who publishes
  from the outbox and who calls `acknowledge_sent` and `process_receipt`. The
  glue is the publish-then-remove order of the pump and the steps of
  `tests/dm_e2e.rs`; these definitions are marked external. The receipt that
  `mark_read` returns may be passed on by its caller (`pass_receipt`) or be dropped.
- **RetryPump** takes the `OutboxHandle` trait from the way `pump_loop` uses it
  and from the in-memory handle of the module's tests, a map keyed by topic.
  `Tick` shortens every wait by one instead of advancing an unbounded clock. A pump
  may end at any `await`, the one between the removal of an exhausted entry and its
  event included; whether pumps have a channel for events is chosen at the start.
- **Cryptographic primitives** are free constructors: what they return is equal
  only for equal inputs, and each opens or verifies exactly what its counterpart
  made. What the code does around them (what is signed, what is bound as AAD,
  which check comes first, which error is returned) is as in the source.
- **Database keys** in SectorStore are sequences of bytes, compared byte by byte;
  a length and a sector id are one element each, the length modulo `U16` as in the
  cast. `prefix_scan` returns the neighbours above the prefix up to the first key
  that does not start with it.
- **Workloads** in SdkNode: the services share the database, the identity and the
  moment the process stops, and otherwise no state, so a behaviour explores the
  services of one workload. Contacts and sectors are explored together, because
  an envelope is sealed for the keys in a contact entry. `append_sector` (read the
  chain, seal, put), `write_blob`, `LoadKeys`, `Start` and `rotate_keys` are what an
  application does with these calls and are marked external.
- **Machine keys**: a derivation runs on a thread of its own that may fail, and zid
  may refuse the seeds, when a key is generated and when a blob is unsealed; one
  entry that fails makes `from_sealed_bytes` fail, and the process does not start.
  The history `durable` is what a file owes: the ids that callers had when the blob in
  it was sealed, and what the file owed before, unless that was written after the
  sealing.
- **MlsGroup**: a group's state is the sequence of its commits, which determines
  its secrets. Messages stay in `net`, so any may be handed to any device and
  function, repeatedly, late or never. What openmls does is external: by default it
  keeps no past epochs and refuses a secret that was used; whether a commit that
  `decrypt_from_group` has processed and dropped can be processed again depends on
  the wire format, and both happen.
- **GridClient**: the libp2p `NetworkService` and the tokio channels are
  external: the service may refuse a command, deliver on any subscribed topic,
  and end. The command channel keeps its bound.

## 3. Runs

All passing runs end with no state left. The bounds of each are in its `.cfg`.

| run | states | what it shows |
|---|---|---|
| `group_concurrent` | 157k | two threads, three identities, a cap of two, up to two commits, and crashes. A change about to be written is within the rank its caller has in the manifest that was read (`PendingWithinRank`); the size never exceeds the larger of cap and founders (`SizeBounded`); lost updates lose epochs but never invent any (`EpochWithinCommits`); an ownerless group gets an owner only from a write based on an older manifest (`NoOwnerIsFinal`) |
| `group_merge` | 6k | two replicas whose clocks never read the same, two changes deep. The merge commutes on every reachable pair, no replica falls back (`VersionsAdvance`), and once changes stop all agree (`Converges`) |
| `gmsg_concurrent` | 193k | two threads that send, receive, mark and acknowledge, and a process that stops. Manifests are persisted meanwhile, each the epoch after one that some change has loaded, so that two of one epoch with different members follow each other; the clock advances up to twice between `now_v7` and `now_ms` of one call, while another message is stored; a message of another node comes in. `SentByMemberOfEpoch`: the sender was in a manifest of the epoch the message names; `StatusForward` and `ReceiptOnce` for messages no two calls raced for; `PagesSkipNothing` for every cursor but a message whose two readings are of different milliseconds |
| `inbox_concurrent` | 319k | two threads, two conversations, crashes. One entry per conversation, and the latest, for conversations on which calls did not overlap (and, for the latest, were not cut short), whatever happens to others; the order of `list_inbox` and its limit always; the totals |
| `pump_own_topics` | 483k | a payload per topic, four attempts, two replaced pumps, with and without a channel for `RetryExhausted`. No entry is published more often than allowed, and none is given up earlier (`AttemptBudget`); the n-th publish and the next are at least half the n-th delay apart (`RetryWaits`); `PublishedOnce`; under fairness, `Settles`: published, reported as exhausted, or removed unreported, which happens only without a channel or when the pump ends between the removal and the event |
| `pump_shared_topic` | violation | see section 5 |
| `grid_concurrent` | 25k | a dial through a relay; then two callers, one topic, a command channel of one place, refusals, the end of the loop. `ConnectedToTarget`, `NothingDropped` unless an unsubscribe overlapped or failed, `SubscribersKept`, `CallsReturn` under fairness |
| `dm_faults` | 1.4M | one message, two threads at its author, outboxes with room for one sector, two network faults, and a stop of either node, anywhere. The recipient may mark the message as read and so may its author, with `mark_read`, whose receipt the caller may pass on or drop, or with `mark_read_and_emit`, whose receipt can fill the outbox before the message gets there. `NoPhantomReceipts`, `LastSectorWasQueued`, and `ImplementsLifecycle`: every step is a step of `MessageLifecycle` or none |
| `dm_sender_crash` | 8k | a sender that stops anywhere, twice, and publishes again what it had published. `Monotonic` (the dedupe cache absorbs the duplicates), `EventuallyStored`, and `EventuallyDelivered` for a sender that does not stop |
| `dm_history` | 103k | three conversations whose prefixes are neighbours, one across a carry and one with nothing above it, three messages each, stored while a reader pages with limits 0 to 2. `WalkComplete`, `PagesDescend` |
| `sdk_node` | 99k | a device that is started with shares (also too few, repeated or broken ones) and stops anywhere, under four workloads: machine keys of two accounts used by two threads, with derivations that fail (`ListedAsIssued`, `SealCoversReturned`); the outbox with two threads, three sectors and room for one (`BoundedOvershoot` is reached and not exceeded; `AttemptsNeverDecrease` but for writes based on an older read); two accounts with address books of two people; sectors of two scopes whose names are the same when joined, sealed for a contact who changes keys, with a clock that is set back (`OpensAsSealed`, `OnlySealedOpens`). `ImplementsAccountStore`: the shared column families behave as a book per account and a chain per scope |
| `mls_group` | 119k | three devices, one founder, commits from the same epoch, one restart or dropped key package among them, messages in any order and to the wrong function. `EpochAgreement` unless the group was forked at an epoch both went through, and `EverybodyCatchesUp` under fairness |

`TypeOK` is proved for GroupService, GroupReplicas, Outbox, DmDelivery, GridClient,
GroupMessages, Inbox and DmHistory, and for RetryPump and MlsGroup in the part
their invariants need (section 4). In the other modules it documents the types.

Two abstract specifications say what a user of the SDK relies on.
`MessageLifecycle` has no nodes, outboxes or network: a message is written, then
held by its recipient, then read, and its author learns of each only after it
happened, unless it marks its own message as read, which `mark_read` lets it do.
DmDelivery implements it with the recipient's stored messages, the messages read by
recipients and by authors and the author's stored statuses as the abstract state;
that an author's status may be taken back by a duplicate (section 5) is allowed
there.
`AccountStore` has a set of entries per account and a sequence of sectors per
scope. SdkNode implements it with what `list_contacts` and `iter_chain` return as
the abstract state, so that encodings, prefixes and order are under test.

Why the bounds are enough for these questions. A race between read and write
needs two callers; what two threads show is proved for any number of them where
section 4 lists the property. Two commits let a write be based on a manifest that
one other commit has replaced; two epochs let a message be sent between two
manifests of the second. Three milliseconds let the clock tick twice between the
two readings of a `send_message`, so that its message passes one with a later id.
The statuses of one message are followed, the one from the other node: no code asks
whose message it is. An outbox for one sector is full when another thread has put a
receipt there. In `dm_faults` the dedupe cache forgets by a restart; what an id that
another message evicts does to statuses is left to the proofs, which are for any
capacity. Timestamps 0 and `MaxTs` are the edges of the inverted key. Four attempts
with a cap of six ticks pass through the uncapped, the capped and the last delay.
Three MLS devices are the fewest of which two can commit at one epoch while a third
follows either; three epochs let a fork go on. Two machine keys let one be pushed between the sealing and
the writing of the other's blob. Three sector ids give a predecessor in either
direction of a clock that was set back. One plaintext is enough, since no code
branches on it. Counters that the code does not bound (epochs, ids,
receipts, restarts, faults, channels) have a constant of their own, named in the
module (`MaxCommits`, `MaxEpoch`, `MaxTime`, `MaxReceipts`, `MaxRestarts`,
`MaxFaults`, `MaxChannels`, `MaxUnread`, `MaxKeys`, `MaxSectorId`, `MaxRotations`,
`MaxMembers`, `MaxPackages`, `MaxTexts`; `Marked` is a set of messages). `U16` is the range of a length field.

`CHECK_DEADLOCK FALSE` is set where a system may stop: all messages sent, ids
used up, the client's loop ended, every MLS commit processed.

Symmetry is used for threads of one node and for identities, in runs with invariants,
action properties and a refinement without fairness only.

Fairness.

- `RetryPump`: the task is scheduled, each publish answers in the end with either
  result, and time passes. The code has no timeout around publish; the broker
  and the event loop both answer, which is the assumption.
- `GridClient`: weak fairness for a loop with a command waiting (`select!` polls
  its branches in random order, so no branch starves), for callers with an answer,
  and strong fairness for a caller waiting for room (tokio's semaphore is first
  come, first served). No fairness for incoming messages, refusals or the end.
- `DmDelivery`: calls that began go on, the receive loop, the publisher and the
  forwarding of receipts keep running. Nobody has to send, read or report a
  message as sent.
- `GroupReplicas`: each machine keeps hearing from each other one.
- `MlsGroup`: commits and welcomes reach every device, whose application hands each
  to the function it is for. Nobody has to commit, send or read.
- `SdkNode` has no liveness property and no fairness.

## 4. Proofs

The constants are those of the modules with their `ASSUME`s and nothing else: any
finite sets of identities, threads, sectors, messages, any capacities and bounds.
The values for "nothing" are assumed to differ from the data (`NoCallIsNoCall`,
`NoValues`, `NoCallIsNoDmCall`, `NoEntryIsNone`, `NoCallIsNone`, `NoneIsNone`,
`InboxNoneIsNone`, `HistoryNoneIsNone`, `NoGroupIsNone`; in `KeyConstants`, bytes that
are no share differ from the shares; in `StoreConstants`, the absent predecessor from
the ids). `StoreConstants` also says that identities, names and contacts are byte
strings, that identities are of one length, and that names are below 2^16 bytes.
`HistoryConstants` says that ConversationIds are of one length, and that `MaxByte` is
above the bytes of the literal that starts a key: were they 0xFF, the carry of
`increment_bytes` could run out of the prefix.
What a theorem needs beyond them is a hypothesis of its statement: `OwnTopics`,
one thread, distinct clocks. GroupMessages, Inbox and DmHistory share lemmas on
orders and their proofs a module; so that one module can extend all three, the
names of Inbox and DmHistory bear the component's name (`InboxSpec`, `HistorySpec`).

| theorem | statement | argument |
|---|---|---|
| `GroupReplicasProofs` `MergesAgree`, `MergeIdempotent`, `MergeAssociative`, `MergeCommutesWithoutTie` | the algebra of `merge_manifest`, and that `merge_manifests` chooses as it does | from its definition; commutativity needs manifests that differ in epoch or time |
| `GroupServiceProofs!TypeCorrect` | `Spec => []TypeOK` | inductive |
| `PendingRank` | `Spec => []PendingWithinRank` | one lemma per operation: what the permission table, the moderator rule and the direction checks allow together; inductive with `TypeOK`, since a pending call carries the manifest it read |
| `SizeStaysBounded` | `Spec => []SizeBounded` | `SizeInv`: also the copies that calls are about to write are within the bound, because each adds one entry to a manifest that was below it |
| `EpochBounded` | `Spec => []EpochWithinCommits` | `EpochInv`: a copy about to be written is at most one ahead of the commits |
| `NoOwnerComesBack` | `Spec => NoOwnerIsFinal` | from `TypeOK` and the ranks: without an Owner nobody passes the check for making one |
| `SequentialEpochs`, `SequentialRank` | with one thread, the epoch counts the commits, and every change respects the rank in the manifest it replaces | `SequentialInv`: the one thread's base is the stored manifest. These are the strong forms that two threads break |
| `GroupReplicasProofs!TypeCorrect`, `VersionsOnlyAdvance` | `Spec => VersionsAdvance` | a change raises the epoch, a merge keeps the newer |
| `MergeCommutesWithDistinctClocks` | if no two machines' clocks can read the same, and none reads the creation time, `Spec => []MergeCommutes` | `VersionInv`: equal versions are equal manifests, and a version with a time of machine r's clock is known to r, so r never makes it again |
| `SdkNodeProofs!TypeCorrect` | `Spec => []TypeOK` of the outbox | `attempt_count` saturates |
| `OvershootBounded` | `Spec => []BoundedOvershoot` | `BoundInv`: counts what is present or about to be written; a count below the capacity leaves room for the other threads' writes |
| `SequentialCapacity` | with one thread, `WithinCapacity` | the bound for one thread |
| `AttemptsKept`, `AckKept` | `Spec => AttemptsNeverDecrease`, `Spec => AppearsOnlyFresh` | `ReadInv`: what a call is about to write follows from what it read |
| `NodeImplementsOutbox` | `NodeSpec => Spec` | a step of the device is a step of the outbox or leaves it alone; a process that stops is the outbox's own `Crash` |
| `NodeOvershootBounded`, `NodeAttemptsKept` | `NodeSpec => []BoundedOvershoot`, `NodeSpec => AttemptsNeverDecrease` | from the theorems on the outbox |
| `KeysInvariant` | `NodeSpec => [](KeysInv /\ DurableInv)` | see below |
| `NodeListsIssued`, `NodeSealCovers` | `NodeSpec => []ListedAsIssued`, `NodeSpec => []SealCoversReturned` | from both invariants and lemmas on what `into_record`, `from_sealed_bytes`, `split_neural_key` and `recover_neural_key` return, errors of a derivation and thresholds other than the account's included |
| `EnvelopeOpens` | `open_envelope` of what `seal_envelope` made for keys x is the plaintext and the AAD for x, `DecryptionFailed` for other keys | each layer is inverted by a lemma: `AadRoundTrip`, `SignaturesVerify`, `CipherOpens` |
| `StoreInvariant` | `NodeSpec => []StoreInv` | see below |
| `NodeOpensAsSealed` | `NodeSpec => []OpensAsSealed` | a chain holds what was written (`ChainHolds`), and that opens |
| `NodeOnlySealedOpens` | `NodeSpec => []OnlySealedOpens` | `MixedRefused`: signatures cover AAD, kem_output and nonce, the cipher covers AAD, nonce and key, so each mixture fails at one of them; a moved border gives a kem_output of another length |
| `StoreRefinement` | `NodeSpec => ImplementsAccountStore` | with `StoreInv`, adding or removing a contact or a sector is the abstract operation on one book or chain, and every other step leaves both column families alone |
| `DmDeliveryProofs!DeliveryInvariant` | `Spec => []DeliveryInv` | see below |
| `TypeCorrect`, `ReceiptsAreTrue`, `LastSectorTrue` | `TypeOK`, `NoPhantomReceipts`, `LastSectorWasQueued` | conjuncts of `DeliveryInv` |
| `WrittenInvariant` | `Spec => []WrittenInv` | what a node stores, queues or publishes of a message is what its author wrote |
| `LifecycleRefinement` | `Spec => ImplementsLifecycle` | the initial states map to the initial state, and with both invariants each action maps to one of `MessageLifecycle` or to a stutter |
| `StatusesMonotonic` | if a node has one application thread, the dedupe cache has room for every message and no recipient restarts, `Spec => Monotonic` | `ForwardInv`, see below |
| `RetryPumpProofs!PumpInvariant` | `Spec => []PumpInv` | every entry is in the place of its topic, and the pump has at most one handle to a topic |
| `RetriesWait` | if `OwnTopics`, `Spec => RetryWaits` | `WaitInv`: while no pump was replaced, the time since the last failed publish and what the entry has left to wait add up to the delay; with `BudgetInv`, which says that the entry counts all attempts |
| `NoSecondPublish` | `Spec => PublishedOnce` | `PublishedInv`: while no pump was replaced, what was published has left the snapshot, and the outbox once its ack is done |
| `BudgetKept` | if no two payloads share a topic (`OwnTopics`), `Spec => []AttemptBudget` | `BudgetInv`: the attempts an entry has counted, the attempt in hand and the replaced pumps account for every call of publish |
| `OwnTopicsAckPublished` | if `OwnTopics`, `Spec =>` the property that `pump_shared_topic` refutes without it | as `BudgetKept`: the entry in the outbox is still the one in hand |
| `GridClientProofs!ClientInvariant` | `Spec => []ClientInv` | see below |
| `ClientTypes`, `TargetReached`, `MessagesHeard`, `StreamsKept` | `TypeOK`, `ConnectedToTarget`, `NothingDropped`, `Spec => SubscribersKept` | conjuncts of `ClientInv`; for the last, only `finish` of an unsubscribe removes a sender, and none is replaced |
| `MessageStoresProofs!MessagesInvariant` | `Spec => []MessagesInv` | what a call carries was true when it read: the sender was in a manifest of the epoch (the current members are among those of their epoch), the new status is above the one read |
| `SendersWereMembers`, `OneReceipt`, `StatusesForward` | `SentByMemberOfEpoch`, `ReceiptOnce`, `Spec => StatusForward` | from `MessagesInv`: a receipt that was handed out is for a status the message has reached, and a call that did not race finds what it read |
| `NothingSkipped` | `Spec => []PagesSkipNothing` | `PageOf`: `list_messages` returns the beginning of all messages below the cursor in their order; what comes after the page's last message in that order has a smaller id, if that message has the time of its id, because no time is before its id's millisecond |
| `BoxInvariant` | `InboxSpec => []BoxInv` | see below |
| `InboxOneEntry`, `InboxShowsLatest` | `InboxSpec => []OneEntryPerConversation`, `InboxSpec => []IndexShowsLatest` | from `BoxInv`; for the totals, the scan lists every conversation with an entry once |
| `InboxNewestFirst` | `InboxSpec => []ListsNewestFirst` | an entry is under its own key, whose inverted timestamp turns the order of bytes into newest first |
| `HistoryInvariant` | `HistorySpec => []HistoryInv` | see below |
| `HistoryWalkComplete`, `HistoryPagesDescend` | `HistorySpec => []WalkComplete`, `HistorySpec => PagesDescend` | from `HistoryInv` and `DmWindow`, which says what a page is |
| `MlsGroupProofs!MlsInvariant` | `Spec => []MlsInv` | see below |
| `EpochsAgree` | `Spec => []EpochAgreement` | from `MlsInv` |

`NoPhantomReceipts` is far from inductive: the status a sender writes comes from
a receipt that was made long before, by another process. `DeliveryInv` follows
the evidence: what a receipt claims is true in the recipient's database (or, for
Read, the author's own doing) while the
receipt is in the recipient's call (`CallsOK`), in its outbox (`OutboxOK`), on
the network (`NetOK`) and in the sender's call. It stays true because a
recipient's message is never deleted and `read` and `own` never shrink. The proof has one
lemma per action (`StepSend`, `StepPutStatus`, ...) over a few lemmas that carry
unaffected parts (`CallStable`, `OutboxStable`, `NetStable`). It holds for any
number of threads, messages, faults and restarts, and so also where the statuses
themselves are not monotonic.

`Monotonic` fails in general (section 5): `update_status` writes what it decided
from an older read, and `process_inbound_dm` writes Delivered without a read. The
hypotheses of `StatusesMonotonic` are what keeps each of them harmless, and
`ForwardInv` says how: a status about to be written is above the stored one,
because only the same thread could have raised it meanwhile (`Ahead`); a message
about to be stored as Delivered is not stored yet (`Fresh`), because the dedupe
cache knows every message received (`KnowsReceived`) and evicts none, having no
message twice and room for all of them (`NoRepetition`).

`BoxInv` says what the index holds in the middle of a call. For a conversation on
which no two calls overlapped there is at most one key, at most one call, and that
call either has still to delete the only key or finds none (`AloneOK`); between
calls, and if none was cut short, the only entry is the one the last call wrote
(`LatestOK`). One entry alone is not inductive: a put adds a key whatever is there.

`HistoryInv` is about a reader with a cursor: it has been shown nothing below the
cursor and, of the messages that were there when it began, everything above it.
That a page continues exactly there rests on the order of the keys. Keys are
compared at the first place where they differ (`DmCompare`); a key of another
conversation departs from the prefix, and so is on one side of all keys of this
one (`DmApart`); `increment_bytes` gives a bound above the prefix's keys and not
above any larger key (`DmIncrement`, `DmUpper`). So the reverse scan from the seek
key ends at the border of the conversation and not before (`DmScan`), and the first
of it are the newest below the cursor (`Tops`, `DmNewest`).

The orders in both need no induction: a finite set with a strict total order has
as many ranks as members (`Ranks`), so it has a first and a last one (`Ends`) and
can be listed in that order (`Sorts`), and a list without repetitions of the right
length has all members (`Lists`). The sorted results of the code are therefore
written as the listing that is in order.

`MlsInv` makes the sequence of commits that stands for a group's secrets an object
one can argue about: each history around (a device's, a message's) is a path
through commits that were made, all start at one root, and a signer commits at
most once on a history, because `add_member` merges its own commit and so leaves
the history. For `EpochsAgree` take two different histories of one length and the
least place where they differ (`LeastNumber`): up to there they are one history, so
the two entries are commits of that history, by two different signers, which is
`ForkAt`.

`ClientInv` has the three links between a topic's sender and the network's
subscription: a subscriber finds its sender until it has its answer, an unsubscriber
with an answer finds the network unsubscribed, and two calls that overlap, one of
them an unsubscribe, have marked the topic. Each is broken by a step of another
caller unless the others hold.

`KeysInv` ties the store of machine keys, the threads that are about to add to it or
to write a blob, and the blobs on disk: each holds records that were returned to a
caller, at one place each, with public keys of the seeds they carry, and a blob
restores, if every derivation succeeds, to a store with all ids that callers had when
it was sealed. `DurableInv` adds what is owed: a file's blob has the ids of
`durable`, and a running process's callers and a blob about to be written over the
file as it is have them too, since the process loaded that file. An id is
fresh because it is the number of the draw, and so unlike any in the store, the
blobs and the hands of another thread.

`StoreInv` says what is in the two column families: under the key of a scope and an
id the sector that was written for them, under the key of an account and a contact
an entry with keys that the contact has or had, and nothing else. That chains and
books stay apart is then about keys. `SectorKeys` compares two of them place by
place: the lengths in front put both names of a scope at places of their own, so a
prefix of one scope begins no key of another, and within a scope the order of the
keys is that of the ids. `ContactKeys` does it for identities of one length. The
order of a scan needs no induction: each of n keys has a different number of keys
before it, from 0 to n - 1 (`Ranks`, from `BeforeOrder` and cardinalities), and
`prefix_scan` returns the i-th by that number (`Scan`).

The invariants that are new in these arguments (`DeliveryInv`, `WrittenInv`,
`PumpInv`, `ClientInv`, `MessagesInv`, `MlsInv`, `KeysInv`, `StoreInv`, `ForwardInv`)
were checked with TLC on the instances of section 3 before they were proved.

`AppearsOnlyFresh` and the `TypeOK`s are proved and no longer among the runs.

Only model-checked:

- everything about liveness (`Settles`, `CallsReturn`, `Converges`,
  `EventuallyStored`, `EventuallyDelivered`, `EverybodyCatchesUp`), which the prover
  does not do;
- what rests on what a fold computes for every input, which would need induction
  over data: that the `Count` of DmService is the number of entries of the outbox;
- that powers are numbers, which the prover cannot know: `PowersAreNumbers` assumes
  it of RetryPump's delays, and TLC evaluates it.

Every invariant and every action property of a passing run is stated by a theorem.

## 5. Findings

A promise in the documentation that does not hold is shown by a run of its own:

- `pump_shared_topic`: `pump_loop` acknowledges by topic after the `await` of
  publish (`retry.rs:164`). An entry enqueued on the topic meanwhile is removed
  without having been published; the doc of `ack` says "Mark an entry as
  successfully delivered; removes it from the outbox." (`retry.rs:68`).

The conditions in the other properties are there because the unconditional
statement, close to what a doc or comment says, is refuted by TLC on the same
model:

| condition | without it | code | says |
|---|---|---|---|
| one thread in `SequentialEpochs` | two calls that both return Ok leave one epoch and one of their changes | `group/mod.rs:229` | "On success the manifest epoch is incremented and persisted." |
| one thread in `SequentialRank` | a Moderator's removal, checked earlier, removes someone made Admin since | `group/mod.rs:291` | "a Moderator may only remove a Member" |
| founders in `SizeBounded` | `create_group` does not look at `MAX_GROUP_SIZE` | `group/mod.rs:33` | "Maximum number of members in a group" |
| distinct clocks in `group_merge` | with equal epoch and time the first argument wins on each side, and replicas never agree | `group/manifest.rs:83` | "deterministic, commutative" |
| `raced` in `StatusForward`, `ReceiptOnce` | two calls that both read first take a status back, or make two receipts | `group/mod.rs:527` | "forward-only (Sent -> Delivered -> Read)" |
| the cursor's readings in `PagesSkipNothing` | cursor and order are different readings of the clock: a message is on no page | `group/mod.rs:503` | "UUIDv7 ids are time-ordered, so this provides natural pagination" |
| `inbox_raced` in `OneEntryPerConversation` | two upserts leave two entries | `inbox/service.rs:35` | "keeping the index consistent" |
| `cut` in `IndexShowsLatest` | a crash between delete and put removes the conversation from the inbox | `inbox/service.rs:36` | the same |
| threads in `BoundedOvershoot` | two threads at the last free place both write | `outbox.rs:53` | "The queue is bounded" |
| `StaleWrite` | `mark_attempted` writes back an entry removed meanwhile | `outbox.rs:76` | – |
| `unsettled` in `NothingDropped` | an unsubscribe that overlaps a subscribe removes the new sender; the topic stays subscribed, unheard | `real.rs:338` | "so subsequent `subscribe` calls re-register cleanly" |
| one application thread per node in `Monotonic` | `acknowledge_sent` and a receipt race, and Delivered becomes Sent | `dm/service.rs:207` | "Advance a message's status monotonically." |
| a cache that remembers in `Monotonic` | a duplicate that the bounded dedupe cache no longer knows takes Read back to Delivered | `dm/receive.rs:106` | "Monotonic message delivery status." (`types.rs:73`) |
| `restarts` and large outboxes in `EventuallyDelivered` | a receipt that finds the outbox full, or a stopped sender, is never made again | `dm/receive.rs:153` | "3. Enqueue a `Delivered` receipt in the outbox." |
| limits above 0 in `WalkComplete` | `history` answers a limit of zero with one message, `paginate_messages` with none | `dm/service.rs:172` | "Returns up to `limit` messages" |
| `ForkAt` in `EpochAgreement`, `EverybodyCatchesUp` | two members that add someone at one epoch have the same epoch number and different secrets from then on | `group_key.rs:101` | "ready for transport" |
| a kept package in `EverybodyCatchesUp` | a package of `generate_key_package` can be added and never joined with: its private part went with the provider | `group_key.rs:72` | – |
| `disturbed` in `EverybodyCatchesUp` | a restarted device has lost its group, and a commit given to `decrypt_from_group` may be used up | `group_key.rs:147` | – |
| `stepped` in `OpensAsSealed` | after the clock is set back a sector sorts before its predecessor | `sector.rs:20` | "Byte-level comparison preserves chronological ordering" |
| names below 2^16 bytes (`StoreConstants`) | the length of a scope name is cast to 16 bits, and two scopes may share a prefix | `db.rs:15` | – |
| writes over a newer blob in `SealCoversReturned` | a blob sealed earlier and written later replaces one with more keys | `machine_key.rs:420` | – |
| the account's threshold in `SharesGiveKey` | the shares do not carry it: with a smaller one, too few shares may give a key nobody made (never the account's, nor one that unseals its file) | `neural_key.rs:139` | – |
| `own` in `NoPhantomReceipts`, `MessageLifecycle` | an author that calls `mark_read` on its own message has it Read with no recipient | `dm/service.rs:242` | "Mark a message as `Read` locally" |
| `unreported` in `Settles` | a pump that ends between the removal of an entry and its event, or has no channel, tells nobody | `retry.rs:168` | – |
| `restarts = 0` in `RetryWaits`, `PublishedOnce` | a pump that ends before the failure or the ack is recorded is followed by one that publishes at once | `retry.rs:162` | – |

More that no property here covers: publish has no timeout, so a call that never
answers stops the pump for every topic (`retry.rs:161`); when the GRID client's
event loop ends its senders stay in the map and the subscribers' streams do not end
(`real.rs:236`); the receive loop ends on the first error of its stream
(`dm/receive.rs:155`); a receipt that `mark_status` of a group returns is lost when the
process stops before it is sent (`group/mod.rs:615`); `open_conversation` writes an empty
conversation over one that another caller has opened and used since
(`dm/service.rs:70`); `created_at_ms` is read before the id is made, so the pages
that follow the ids are not always in descending `created_at_ms` order
(`dm/service.rs:285`); and the delay before the n-th retry is half the documented
one below the cap, since `compute_backoff_ms` raises to `attempts - 1` and its doc
says `attempts` (`retry.rs:129`).

## 6. Not modelled

- **Inside the primitives and openmls**: the ciphers, KEMs, signatures, hashes and
  polynomials; openmls's ratchet windows for messages out of order, its extensions
  and its own validation beyond what the wrappers rely on.
- **Data nothing depends on**: labels (but for their length), previews, creation
  times of keys, the bytes of nonces beyond their being fresh.
- **Reading and plumbing**: `Display`, `Default`, conversions, constructors that
  only keep their arguments, and the facade's accessors.
- **RocksDB**: each access is one atomic step, and what was written is there after
  the process stops. Its errors are results of calls that change nothing.
- **Scope names of 2^16 bytes and more** (section 5).
- **Examples and test helpers.**

## 7. Plan

Done: group membership and merge, group messages, outbox, retry pump, direct
messages between two nodes, pagination, inbox, GRID client, contacts, sectors,
envelopes, keys, the device that runs them, MLS groups; two abstract
specifications and their refinements; the theorems of section 4.

Left for the model: DmDelivery with RetryPump in place of its publisher; an inbox
whose operations are atomic, which Inbox implements while calls on a conversation
do not overlap.
