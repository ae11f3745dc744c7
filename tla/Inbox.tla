---- MODULE Inbox ----
(***************************************************************************)
(* The inbox index of one (identity, machine) pair (inbox/service.rs and   *)
(* inbox/index.rs): CF_INBOX_INDEX, whose keys hold the inverted timestamp *)
(* of a conversation's last message and then the conversation, so that a   *)
(* forward scan lists the newest first.                                    *)
(*                                                                         *)
(* upsert and mark_read find a conversation's entry, delete its key and    *)
(* write another one: three accesses of the database, each one step, from  *)
(* any number of threads.  Of an entry only last_ts and unread are kept;   *)
(* kind and preview are carried along unchanged.                           *)
(***************************************************************************)
EXTENDS Integers, Sequences, FiniteSets, SequencesExt

CONSTANTS
    InboxThreads,        \* threads that use the InboxService
    InboxConversations,  \* ConversationIds, numbers in the order of their bytes
    MaxTs,               \* u64::MAX, the largest timestamp
    MaxUnread,           \* bound on the unread count
    NoEntry,             \* no entry
    NoInboxCall          \* the thread is between calls

ASSUME InboxConstants ==
    /\ IsFiniteSet(InboxConversations) /\ InboxConversations \subseteq Nat
    /\ MaxTs \in Nat /\ MaxUnread \in Nat

InboxEntry == [conversation_id : InboxConversations, last_ts : 0 .. MaxTs,
               unread : 0 .. MaxUnread]

Keys == (0 .. MaxTs) \X InboxConversations

\* Mutant: the timestamp is not inverted.
encode_key_M(entry) == <<entry.last_ts, entry.conversation_id>>

encode_key(entry) == <<MaxTs - entry.last_ts, entry.conversation_id>>

\* The byte order of the keys.
KeyPrecedes(j, k) == j[1] < k[1] \/ (j[1] = k[1] /\ j[2] < k[2])

\* "delete": an old key is about to be deleted; "put": the entry is about to
\* be written.
InboxCall == [pc : {"delete"}, old : Keys, entry : InboxEntry]
             \cup [pc : {"put"}, entry : InboxEntry]

ASSUME InboxNoneIsNone == NoEntry \notin InboxEntry /\ NoInboxCall \notin InboxCall

VARIABLES
    cf,             \* CF_INBOX_INDEX
    inbox_call,     \* inbox_call[t]: what thread t is in the middle of
    latest,         \* latest[c]: the entry that the last upsert or mark_read of c
                    \* to return had made of it
    inbox_raced,    \* history: conversations that two calls worked on at once
    cut             \* history: conversations that a call was stopped on

inbox_vars == <<cf, inbox_call, latest, inbox_raced, cut>>

\* Every variable has its type.
InboxTypeOK ==
    /\ cf \in [Keys -> InboxEntry \cup {NoEntry}]
    /\ inbox_call \in [InboxThreads -> InboxCall \cup {NoInboxCall}]
    /\ latest \in [InboxConversations -> InboxEntry \cup {NoEntry}]
    /\ inbox_raced \subseteq InboxConversations
    /\ cut \subseteq InboxConversations

InboxInit ==
    /\ cf = [k \in Keys |-> NoEntry]
    /\ inbox_call = [t \in InboxThreads |-> NoInboxCall]
    /\ latest = [c \in InboxConversations |-> NoEntry]
    /\ inbox_raced = {}
    /\ cut = {}

----------------------------------------------------------------------------

\* prefix_scan_raw with the owner's prefix: the keys in byte order.
ScanIndex ==
    CHOOSE s \in SetToSeqs({k \in Keys : cf[k] # NoEntry}) :
        \A i, j \in DOMAIN s : i < j => KeyPrecedes(s[i], s[j])

KeysOf(c) == {k \in Keys : cf[k] # NoEntry /\ cf[k].conversation_id = c}

\* find_raw_entry: the key of the conversation that the scan meets first.
find_raw_entry(c) ==
    CHOOSE k \in KeysOf(c) : \A j \in KeysOf(c) \ {k} : KeyPrecedes(k, j)

\* The conversations that calls are at work on.
Busy ==
    {inbox_call[t].entry.conversation_id :
        t \in {t \in InboxThreads : inbox_call[t] # NoInboxCall}}

\* Thread t goes on to call c after its scan.
BeginCall(t, c) ==
    /\ inbox_call' = [inbox_call EXCEPT ![t] = c]
    /\ inbox_raced' = inbox_raced \cup (Busy \cap {c.entry.conversation_id})
    /\ UNCHANGED <<cf, latest, cut>>

\* Mutant: the old key is left behind.
upsert_M(t, entry) ==
    /\ inbox_call[t] = NoInboxCall
    /\ BeginCall(t, [pc |-> "put", entry |-> entry])

\* upsert, its scan.
upsert(t, entry) ==
    /\ inbox_call[t] = NoInboxCall
    /\ \/ /\ KeysOf(entry.conversation_id) # {}
          /\ BeginCall(t, [pc |-> "delete", entry |-> entry,
                           old |-> find_raw_entry(entry.conversation_id)])
       \/ /\ KeysOf(entry.conversation_id) = {}
          /\ BeginCall(t, [pc |-> "put", entry |-> entry])

\* Mutant: the entry that is written is a new one, under a key of its own.
mark_read_M(t, c) ==
    /\ inbox_call[t] = NoInboxCall
    /\ KeysOf(c) # {}
    /\ BeginCall(t, [pc |-> "put",
                     entry |-> [conversation_id |-> c, last_ts |-> 0, unread |-> 0]])

\* mark_read, its scan: nothing to do without an entry or without unread
\* messages.
mark_read(t, c) ==
    /\ inbox_call[t] = NoInboxCall
    /\ KeysOf(c) # {}
    /\ LET old == find_raw_entry(c) IN
        /\ cf[old].unread > 0
        /\ BeginCall(t, [pc |-> "delete", old |-> old,
                         entry |-> [cf[old] EXCEPT !.unread = 0]])

\* Their delete_raw of the old key.
delete(t) ==
    /\ inbox_call[t] # NoInboxCall /\ inbox_call[t].pc = "delete"
    /\ cf' = [cf EXCEPT ![inbox_call[t].old] = NoEntry]
    /\ inbox_call' = [inbox_call EXCEPT ![t] = [pc |-> "put", entry |-> inbox_call[t].entry]]
    /\ UNCHANGED <<latest, inbox_raced, cut>>

\* Their put_raw of the new key.
put_entry(t) ==
    /\ inbox_call[t] # NoInboxCall /\ inbox_call[t].pc = "put"
    /\ LET entry == inbox_call[t].entry IN
        /\ cf' = [cf EXCEPT ![encode_key(entry)] = entry]
        /\ latest' = [latest EXCEPT ![entry.conversation_id] = entry]
    /\ inbox_call' = [inbox_call EXCEPT ![t] = NoInboxCall]
    /\ UNCHANGED <<inbox_raced, cut>>

\* The process stops; CF_INBOX_INDEX survives.
InboxCrash ==
    /\ \E t \in InboxThreads : inbox_call[t] # NoInboxCall
    /\ inbox_call' = [t \in InboxThreads |-> NoInboxCall]
    /\ cut' = cut \cup Busy
    /\ UNCHANGED <<cf, latest, inbox_raced>>

InboxNext ==
    \/ \E t \in InboxThreads :
        \/ \E entry \in InboxEntry : upsert(t, entry)
        \/ \E c \in InboxConversations : mark_read(t, c)
        \/ delete(t)
        \/ put_entry(t)
    \/ InboxCrash

InboxSpec == InboxInit /\ [][InboxNext]_inbox_vars

----------------------------------------------------------------------------
(* Reading *)

\* list_inbox and list_conversations: the first entries of the scan.
list_inbox(limit) ==
    [i \in 1 .. (IF Len(ScanIndex) < limit THEN Len(ScanIndex) ELSE limit) |-> cf[ScanIndex[i]]]

\* stats and unread_total: one scan that counts and adds up.
Total(counts) == FoldSeq(LAMBDA m, n : m + n, 0, counts)

stats ==
    [total_unread |-> Total([i \in DOMAIN ScanIndex |-> cf[ScanIndex[i]].unread]),
     conversation_count |-> Len(ScanIndex)]

----------------------------------------------------------------------------
(* Properties *)

\* "If an entry already exists for the same conversation, the old key is
\* deleted and the new one is written, keeping the index consistent": a
\* conversation that no two calls worked on at once never shows twice, also
\* when calls are stopped half way.
OneEntryPerConversation ==
    \A c \in InboxConversations \ inbox_raced : Cardinality(KeysOf(c)) =< 1

Known == {c \in InboxConversations : latest[c] # NoEntry}
Undisturbed == InboxConversations \ (inbox_raced \cup cut \cup Busy)

\* Between calls the index holds what the calls have left, whatever happens to
\* other conversations, and the totals that stats and unread_total read from it
\* are those of the conversations, in some order: an upsert that arrives with
\* an older timestamp, or a mark_read of a conversation that has since moved,
\* loses or doubles nothing.
IndexShowsLatest ==
    /\ \A c \in Undisturbed :
        {cf[k] : k \in KeysOf(c)} = {latest[c]} \ {NoEntry}
    /\ Undisturbed = InboxConversations =>
        \E s \in SetToSeqs(Known) :
            stats = [total_unread |-> Total([i \in DOMAIN s |-> latest[s[i]].unread]),
                     conversation_count |-> Len(s)]

\* list_inbox: "sorted by last_ts descending, capped at limit".  Whatever
\* entries there are, no entry that it leaves out is newer than one it lists.
ListsNewestFirst ==
    \A limit \in 0 .. Cardinality(InboxConversations) :
        LET shown == list_inbox(limit)
            left  == {cf[k] : k \in {k \in Keys : cf[k] # NoEntry}} \ ToSet(shown)
        IN  /\ Len(shown) =< limit
            /\ Len(shown) < limit => left = {}
            /\ \A i, j \in DOMAIN shown : i < j => shown[i].last_ts >= shown[j].last_ts
            /\ \A i \in DOMAIN shown, e \in left : shown[i].last_ts >= e.last_ts
====
