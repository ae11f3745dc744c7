---- MODULE DmHistory ----
(***************************************************************************)
(* Reading a direct-message conversation page by page (dm/service.rs:      *)
(* history, and its twin in dm/paginate.rs): a reverse scan of CF_CHAINS   *)
(* from a seek key, while messages of this and of other conversations keep *)
(* being stored.                                                           *)
(*                                                                         *)
(* Keys are sequences of bytes in the database's order: a byte for the     *)
(* literal that starts them ("dm:" sorts before "dm_msg:"), the            *)
(* conversation, and for messages the id, which is one element.            *)
(***************************************************************************)
EXTENDS Integers, Sequences, FiniteSets

CONSTANTS
    DmConversations,  \* ConversationIds, as byte sequences
    MaxByte,          \* 0xFF
    MessageIds,
    Limits,           \* the page sizes that readers ask for
    None              \* no cursor, and no walk

\* The bytes of "dm_msg:" are below 0xFF.
ASSUME HistoryConstants ==
    /\ MaxByte \in Nat /\ MaxByte > 1
    /\ \A c \in DmConversations : c \in Seq(0 .. MaxByte)
    /\ \A c, d \in DmConversations : Len(c) = Len(d)
    /\ MessageIds \subseteq Nat /\ IsFiniteSet(MessageIds)
    /\ Limits \subseteq Nat

make_msg_prefix(c) == <<1>> \o c
make_msg_key(c, id) == make_msg_prefix(c) \o <<id>>
storage_key(c) == <<0>> \o c

MsgKeys == {make_msg_key(c, id) : c \in DmConversations, id \in MessageIds}

\* The byte order of keys.
Precedes(a, b) ==
    \E i \in DOMAIN b :
        /\ \A j \in 1 .. i - 1 : j \in DOMAIN a /\ a[j] = b[j]
        /\ i \in DOMAIN a => a[i] < b[i]

StartsWith(k, prefix) == Len(k) >= Len(prefix) /\ SubSeq(k, 1, Len(prefix)) = prefix
IdOf(k) == k[Len(k)]

VARIABLES
    index,      \* the keys of CF_CHAINS
    walk        \* a reader on its way through a conversation, or None

history_vars == <<index, walk>>

Walk == [conv : DmConversations, limit : Limits, cursor : MessageIds \cup {None},
         start : SUBSET MsgKeys, page : SUBSET MsgKeys,
         shown : SUBSET MsgKeys, done : BOOLEAN]

ASSUME HistoryNoneIsNone == None \notin MessageIds /\ None \notin Walk

\* Every variable has its type; a reader is only ever shown messages.
HistoryTypeOK ==
    /\ index \subseteq MsgKeys \cup {storage_key(c) : c \in DmConversations}
    /\ walk = None \/ walk \in Walk

HistoryInit ==
    /\ index = {storage_key(c) : c \in DmConversations}
    /\ walk = None

----------------------------------------------------------------------------

\* Mutant: the carry is lost.
increment_bytes_M(v) ==
    [v EXCEPT ![Len(v)] = IF @ = MaxByte THEN 0 ELSE @ + 1]

\* increment_bytes: v as a big-endian number, plus one.
increment_bytes(v) ==
    LET last == {i \in DOMAIN v : /\ v[i] < MaxByte
                                  /\ \A j \in i + 1 .. Len(v) : v[j] = MaxByte}
    IN  IF last = {} THEN <<1>> \o [i \in DOMAIN v |-> 0]
        ELSE LET n == CHOOSE i \in last : TRUE
             IN  [i \in DOMAIN v |-> IF i < n THEN v[i]
                                     ELSE IF i = n THEN v[i] + 1 ELSE 0]

\* Where the reverse iterator starts.
Seek(c, before) ==
    IF before = None THEN increment_bytes(make_msg_prefix(c))
    ELSE make_msg_key(c, before)

\* The keys a reverse iterator meets, up to the first without the prefix.
Scan(seek, prefix) ==
    LET below == {k \in index : k = seek \/ Precedes(k, seek)}
    IN  {k \in below : \A j \in below : (j = k \/ Precedes(k, j)) => StartsWith(j, prefix)}

\* The first n keys of a reverse scan.
Newest(keys, n) == {k \in keys : Cardinality({j \in keys : Precedes(k, j)}) < n}

\* Mutant: the message of the cursor is not left out.
history_M(c, before, limit) ==
    Newest(Scan(Seek(c, before), make_msg_prefix(c)), IF limit = 0 THEN 1 ELSE limit)

\* history: the cursor's own key is skipped, and the length is compared with
\* the limit after each push.
history(c, before, limit) ==
    LET hits == {k \in Scan(Seek(c, before), make_msg_prefix(c)) :
                    before # None => k # Seek(c, before)}
    IN  Newest(hits, IF limit = 0 THEN 1 ELSE limit)

\* paginate_messages, the same scan after a test of the limit.
paginate_messages(c, before, limit) ==
    IF limit = 0 THEN {} ELSE history(c, before, limit)

\* store_message of a new message.
Store(c, id) ==
    /\ make_msg_key(c, id) \notin index
    /\ index' = index \cup {make_msg_key(c, id)}
    /\ UNCHANGED walk

MessagesOf(c) == {k \in index : StartsWith(k, make_msg_prefix(c))}

Begin(c, limit) ==
    /\ walk # None => walk.done
    /\ walk' = [conv |-> c, limit |-> limit, cursor |-> None,
                start |-> MessagesOf(c), page |-> {}, shown |-> {}, done |-> FALSE]
    /\ UNCHANGED index

\* The reader asks for the next page, from either function, with the oldest
\* id it was shown, and is done when the page is empty.
NextPage ==
    /\ walk # None /\ ~walk.done
    /\ \E page \in {history(walk.conv, walk.cursor, walk.limit),
                   paginate_messages(walk.conv, walk.cursor, walk.limit)} :
        walk' = IF page = {} THEN [walk EXCEPT !.page = {}, !.done = TRUE]
                ELSE [walk EXCEPT
                        !.cursor = IdOf(CHOOSE k \in page :
                                            \A j \in page \ {k} : Precedes(k, j)),
                        !.page = page,
                        !.shown = @ \cup page]
    /\ UNCHANGED index

HistoryNext ==
    \/ \E c \in DmConversations, id \in MessageIds : Store(c, id)
    \/ \E c \in DmConversations, limit \in Limits : Begin(c, limit)
    \/ NextPage

HistorySpec == HistoryInit /\ [][HistoryNext]_history_vars

----------------------------------------------------------------------------
(* Properties *)

\* "Successive calls where the caller passes the oldest returned message's id
\* as `before` yield contiguous ... windows over the full conversation
\* history": a walk that has ended has shown every message that was there when
\* it began, although messages were stored on the way.  A caller that asks for
\* no messages is told nothing, by paginate_messages, or one at a time.
WalkComplete ==
    (walk # None /\ walk.done /\ walk.limit > 0) => walk.start \subseteq walk.shown

\* "... non-overlapping windows": every page is of the conversation and older
\* than all that was shown before it.
PagesDescend ==
    [][walk # None /\ walk' # None /\ walk' # walk =>
          \A k \in walk'.page :
              /\ StartsWith(k, make_msg_prefix(walk'.conv))
              /\ \A j \in walk.shown : Precedes(k, j)]_history_vars
====
