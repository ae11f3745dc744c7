---- MODULE MessageLifecycle ----
(***************************************************************************)
(* What direct messaging promises, without nodes, outboxes or a network:   *)
(* a message is written by its author, then held by its recipient, then    *)
(* read, and its author comes to know of each only after it happened,      *)
(* unless it marks its own message as read.                                *)
(* Module DmDelivery is shown to implement this.                           *)
(***************************************************************************)
EXTENDS Integers

CONSTANTS
    Msgs,
    Absent, Written, Transmitted, Delivered, Read   \* statuses, in order

VARIABLES
    held,       \* messages the recipient has stored
    read,       \* messages the recipient has marked as read
    own,        \* messages their own author has marked as read
    known       \* known[m]: the status of m its author has stored

vars == <<held, read, own, known>>

Init ==
    /\ held = {}
    /\ read = {}
    /\ own = {}
    /\ known = [m \in Msgs |-> Absent]

\* The author stores a new message.
Write(m) ==
    /\ known[m] = Absent
    /\ known' = [known EXCEPT ![m] = Written]
    /\ UNCHANGED <<held, read, own>>

\* The recipient stores a message that its author has stored.
Deliver(m) ==
    /\ known[m] # Absent
    /\ held' = held \cup {m}
    /\ UNCHANGED <<read, own, known>>

\* The recipient reads a message it holds.
MarkRead(m) ==
    /\ m \in held
    /\ read' = read \cup {m}
    /\ UNCHANGED <<held, own, known>>

\* The author learns that its message was published, delivered or read.
Learn(m, st) ==
    /\ known[m] # Absent
    /\ st = Delivered => m \in held
    /\ st = Read => m \in own \/ m \in held \cap read
    /\ known' = [known EXCEPT ![m] = st]
    /\ UNCHANGED <<held, read, own>>

\* The author marks its own message as read.
MarkOwn(m) ==
    /\ known[m] # Absent
    /\ known' = [known EXCEPT ![m] = Read]
    /\ own' = own \cup {m}
    /\ UNCHANGED <<held, read>>

Next ==
    \E m \in Msgs :
        \/ Write(m)
        \/ Deliver(m)
        \/ MarkRead(m)
        \/ MarkOwn(m)
        \/ \E st \in {Transmitted, Delivered, Read} : Learn(m, st)

Spec == Init /\ [][Next]_vars
====
