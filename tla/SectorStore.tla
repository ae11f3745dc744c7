---- MODULE SectorStore ----
(***************************************************************************)
(* The database (zero-storage: db.rs, sector.rs) and the address book kept *)
(* in it (zero-messaging: contacts/).                                      *)
(*                                                                         *)
(* Every column family maps byte strings to byte strings.  A byte string   *)
(* is a sequence of numbers here; the two bytes of a length and the 16 of  *)
(* a SectorId count as one number each, which keeps their order.  Several  *)
(* identities may share a database.                                        *)
(*                                                                         *)
(* The repository leaves it to the application to seal a message for the   *)
(* keys of a contact (Envelope) and to append it to a chain as a sector:   *)
(* append_sector is that glue.                                             *)
(***************************************************************************)
EXTENDS Envelope, SequencesExt

CONSTANTS
    U16,            \* 2^16: lengths in a key are cast to u16
    MAX_LABEL,      \* the longest label of a contact
    Scopes,         \* pairs of strings: identity and machine of a sector
    Peers,          \* IdentityIds of other people
    Labels,         \* lengths of labels
    MaxSectorId,    \* bound: SectorIds are 1 .. MaxSectorId
    MaxRotations    \* bound: how often a peer generates new keys

VARIABLES
    cf_sectors,     \* CF_SECTORS
    cf_contacts,    \* CF_CONTACTS
    last_id,        \* the last SectorId::new() of this process
    rotations,      \* rotations[p]: how often p has generated new keys
    stepped,        \* history: the clock was set back while the process was down
    sealed          \* history: sealed[id]: what append_sector sealed under the id

storeVars == <<cf_sectors, cf_contacts, last_id, rotations, stepped, sealed>>

StoreInit ==
    /\ cf_sectors = <<>>
    /\ cf_contacts = <<>>
    /\ last_id = 0
    /\ rotations = [p \in Peers |-> 0]
    /\ stepped = FALSE
    /\ sealed = <<>>

----------------------------------------------------------------------------
(* Column families *)

put_cf(cf, key, value) ==
    [k \in DOMAIN cf \cup {key} |-> IF k = key THEN value ELSE cf[k]]

delete_cf(cf, key) == Restrict(cf, DOMAIN cf \ {key})

\* The order of bytes, in which RocksDB iterates.
Before(a, b) ==
    \E i \in DOMAIN b :
        /\ \A j \in 1 .. i - 1 : j \in DOMAIN a /\ a[j] = b[j]
        /\ i \in DOMAIN a => a[i] < b[i]

\* prefix_iterator_cf starts at the prefix, and the loop around it breaks at
\* the first key that does not start with the prefix; in the order of bytes
\* those that do are neighbours.  The i-th of them has i - 1 before it.
Under(cf, prefix) == {k \in DOMAIN cf : IsPrefix(prefix, k)}
Rank(keys, k) == Cardinality({j \in keys : Before(j, k)})
KeyAt(keys, i) == CHOOSE k \in keys : Rank(keys, k) = i - 1

prefix_scan(cf, prefix) ==
    LET keys == Under(cf, prefix)
    IN  [i \in 1 .. Cardinality(keys) |-> cf[KeyAt(keys, i)]]

----------------------------------------------------------------------------
(* Sectors *)

\* Mutant: names follow each other without their lengths.
make_scope_prefix_M(identity_id, machine_id) == identity_id \o machine_id

make_scope_prefix(identity_id, machine_id) ==
    <<Len(identity_id) % U16>> \o identity_id \o <<Len(machine_id) % U16>> \o machine_id

make_sector_key(identity_id, machine_id, sector_id) ==
    make_scope_prefix(identity_id, machine_id) \o <<sector_id>>

\* postcard writes the fields in order, an Option behind a tag.
encode_sector(s) ==
    <<s.id, s.identity_id, s.machine_id, s.payload,
      IF s.prev = NoId THEN <<0>> ELSE <<1, s.prev>>>>

decode_sector(bytes) ==
    [id |-> bytes[1], identity_id |-> bytes[2], machine_id |-> bytes[3],
     payload |-> bytes[4], prev |-> IF bytes[5][1] = 0 THEN NoId ELSE bytes[5][2]]

put_sector(s) ==
    cf_sectors' = put_cf(cf_sectors, make_sector_key(s.identity_id, s.machine_id, s.id),
                         encode_sector(s))

get_sector(identity_id, machine_id, id) ==
    LET key == make_sector_key(identity_id, machine_id, id)
    IN  IF key \in DOMAIN cf_sectors THEN decode_sector(cf_sectors[key]) ELSE NoId

delete_sector(identity_id, machine_id, id) ==
    /\ cf_sectors' = delete_cf(cf_sectors, make_sector_key(identity_id, machine_id, id))
    /\ UNCHANGED <<cf_contacts, last_id, rotations, stepped, sealed>>

iter_chain(identity_id, machine_id) ==
    LET values == prefix_scan(cf_sectors, make_scope_prefix(identity_id, machine_id))
    IN  [i \in DOMAIN values |-> decode_sector(values[i])]

\* SectorId::new(): a UUIDv7, unique, and increasing within a process.
SectorId_new(id) ==
    /\ id \notin DOMAIN sealed
    /\ id > last_id
    /\ last_id' = id

----------------------------------------------------------------------------
(* contacts/: identities are of one length *)

make_key(owner, contact) == owner \o contact

owner_prefix(owner) == owner

\* postcard again.
encode_contact(c) == <<c.identity_id, c.label, c.machine_keys>>
decode_contact(bytes) ==
    [identity_id |-> bytes[1], label |-> bytes[2], machine_keys |-> bytes[3]]

\* add_contact: replaces an entry, refuses a label that is too long.
add_contact(owner, contact) ==
    /\ contact.label =< MAX_LABEL
    /\ cf_contacts' = put_cf(cf_contacts, make_key(owner, contact.identity_id),
                             encode_contact(contact))
    /\ UNCHANGED <<cf_sectors, last_id, rotations, stepped, sealed>>

\* Whether get_contact finds one, and what it returns then.
has_contact(owner, id) == make_key(owner, id) \in DOMAIN cf_contacts
get_contact(owner, id) == decode_contact(cf_contacts[make_key(owner, id)])

remove_contact(owner, id) ==
    /\ cf_contacts' = delete_cf(cf_contacts, make_key(owner, id))
    /\ UNCHANGED <<cf_sectors, last_id, rotations, stepped, sealed>>

list_contacts(owner) ==
    LET values == prefix_scan(cf_contacts, owner_prefix(owner))
    IN  [i \in DOMAIN values |-> decode_contact(values[i])]

----------------------------------------------------------------------------
(* People and their keys *)

\* The keys p has after n rotations; those before them are gone.
KeysOf(p, n) == make_keypair(<<p, n>>)

\* What p has published, as a ContactMachineKey holds it.
ContactMachineKey(p) ==
    [x25519 |-> KeysOf(p, rotations[p]).public.x25519,
     mlkem_encap_key |-> KeysOf(p, rotations[p]).public.mlkem_encap_key]

\* Contacts an application may add: for the keys of the moment, or with one
\* that was cut short on its way.
Contact ==
    UNION {[identity_id : {p}, label : Labels,
            machine_keys : {ContactMachineKey(p),
                [ContactMachineKey(p) EXCEPT !.mlkem_encap_key = Truncated]}] :
           p \in Peers}

rotate_keys(p) ==
    /\ rotations[p] < MaxRotations
    /\ rotations' = [rotations EXCEPT ![p] = @ + 1]
    /\ UNCHANGED <<cf_sectors, cf_contacts, last_id, stepped, sealed>>

\* The application of owner seals a message for its contact p and appends it
\* to the chain of a scope.
append_sector(owner, machine, scope, p, plaintext, id) ==
    LET chain == iter_chain(scope[1], scope[2])
        prev == IF chain = <<>> THEN NoId ELSE Last(chain).id
        aad == [schema_tag |-> 1, sector_id |-> id, sender_identity |-> owner,
                sender_machine |-> machine, epoch |-> 0, prev_sector_id |-> prev]
        env == seal_envelope(plaintext, aad, get_contact(owner, p).machine_keys,
                             SigningKeys(owner), <<id>>)
    IN  /\ has_contact(owner, p)
        /\ IsOk(env)
        /\ SectorId_new(id)
        /\ put_sector([id |-> id, identity_id |-> scope[1], machine_id |-> scope[2],
                       payload |-> env.ok, prev |-> prev])
        /\ sealed' = [i \in DOMAIN sealed \cup {id} |->
                         IF i # id THEN sealed[i]
                         ELSE [plaintext |-> plaintext, aad |-> aad, recipient |-> p,
                               keys |-> get_contact(owner, p).machine_keys]]
        /\ UNCHANGED <<cf_contacts, rotations, stepped>>

\* The process comes back; its clock may have been set back meanwhile.
StoreRestart ==
    /\ \/ UNCHANGED <<last_id, stepped>>
       \/ last_id > 0 /\ last_id' = 0 /\ stepped' = TRUE
    /\ UNCHANGED <<cf_sectors, cf_contacts, rotations, sealed>>
====
