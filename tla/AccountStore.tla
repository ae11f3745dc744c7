---- MODULE AccountStore ----
(***************************************************************************)
(* What the storage layer promises an application: each account has an     *)
(* address book of its own, each scope a chain of sectors in the order of  *)
(* their ids, and both outlive the process.  Module SectorStore, which     *)
(* keeps everything under byte keys of two shared column families, is      *)
(* shown to implement this.                                                *)
(***************************************************************************)
EXTENDS Integers, Sequences, SequencesExt

CONSTANTS
    Accounts,   \* identities that keep an address book
    Scopes      \* pairs of an identity's and a machine's name

VARIABLES
    book,       \* book[a]: the entries of a's address book
    chain       \* chain[sc]: the sectors of scope sc

vars == <<book, chain>>

Init ==
    /\ book = [a \in Accounts |-> {}]
    /\ chain = [sc \in Scopes |-> <<>>]

\* The entries other than the one for `who`.
Without(a, who) == {e \in book[a] : e.identity_id # who}

\* A new entry replaces the one for the same identity.
AddEntry(a) ==
    /\ \E e \in book'[a] :
          book' = [book EXCEPT ![a] = Without(a, e.identity_id) \cup {e}]
    /\ UNCHANGED chain

RemoveEntry(a) ==
    /\ \E e \in book[a] : book' = [book EXCEPT ![a] = Without(a, e.identity_id)]
    /\ UNCHANGED chain

\* The sectors other than the one with this id.
Others(sc, id) == {s \in ToSet(chain[sc]) : s.id # id}

InOrder(sectors) == \A i, j \in DOMAIN sectors : i < j => sectors[i].id < sectors[j].id

\* The chain of sc holds these sectors next, in the order of their ids.
Becomes(sc, sectors) ==
    /\ chain'[sc] \in Seq(sectors)
    /\ ToSet(chain'[sc]) = sectors
    /\ InOrder(chain'[sc])
    /\ chain' = [chain EXCEPT ![sc] = chain'[sc]]

\* A new sector goes where its id belongs.
AddSector(sc) ==
    /\ UNCHANGED book
    /\ \E s \in ToSet(chain'[sc]) :
          /\ <<s.identity_id, s.machine_id>> = sc
          /\ Becomes(sc, Others(sc, s.id) \cup {s})

RemoveSector(sc) ==
    /\ UNCHANGED book
    /\ \E s \in ToSet(chain[sc]) : Becomes(sc, Others(sc, s.id))

Next ==
    \/ \E a \in Accounts : AddEntry(a) \/ RemoveEntry(a)
    \/ \E sc \in Scopes : AddSector(sc) \/ RemoveSector(sc)

Spec == Init /\ [][Next]_vars
====
