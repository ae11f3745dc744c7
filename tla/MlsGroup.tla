---- MODULE MlsGroup ----
(***************************************************************************)
(* MLS group keys (zero-crypto: group_key.rs): devices that create a group,*)
(* add each other to it and exchange texts.  What openmls does is modelled *)
(* from how the wrappers use it: free constructors for its secrets, and    *)
(* its defaults (no past epochs are kept, a secret is used once).          *)
(*                                                                         *)
(* A group's state is its history: the creation and the commits since.     *)
(* Its length is the epoch, and two devices have the same secrets exactly  *)
(* when they have the same history.                                        *)
(*                                                                         *)
(* Messages stay in `net`: the application may hand any of them to any     *)
(* device and to any wrapper, in any order, repeatedly or never.  Calls    *)
(* that return an error and change nothing are left out.                   *)
(***************************************************************************)
EXTENDS Integers, Sequences, SequencesExt

CONSTANTS
    Members,
    Founders,       \* members that may create the group
    NoGroup,
    MaxMembers,     \* bound: calls of MlsMember::new after everybody's first
    MaxPackages,    \* bound: key packages per MlsMember
    MaxEpoch,       \* bound: commits in a history
    MaxTexts        \* bound: texts sent

\* The signature keys, one per MlsMember, and what a group's state may be.
Signer == Members \X (Nat \ {0})
History == Seq([by : Signer, adds : Signer]) \ {<<>>}

ASSUME NoGroupIsNone == NoGroup \notin History

VARIABLES
    lives,      \* lives[m]: how often m has called MlsMember::new
    signer,     \* signer[m]: the MlsMember m has in memory, <<m, number>>
    provider,   \* provider[m]: key packages whose private part is in its storage
    group,      \* group[m]: the history of m's MlsGroup, or NoGroup
    used,       \* used[m]: messages of this epoch whose secrets m has used up
    packages,   \* key packages handed out
    net,        \* messages returned to applications
    disturbed   \* history: a device restarted, or a commit went to the wrong call

vars == <<lives, signer, provider, group, used, packages, net, disturbed>>

TypeOK ==
    /\ lives \in [Members -> 1 .. MaxMembers + 1]
    /\ \A m \in Members : signer[m] \in {m} \X (1 .. lives[m])
    /\ \A m \in Members : provider[m] \subseteq packages /\ used[m] \subseteq net
    /\ group \in [Members -> History \cup {NoGroup}]
    /\ disturbed \in BOOLEAN

Init ==
    /\ lives = [m \in Members |-> 1]
    /\ signer = [m \in Members |-> <<m, 1>>]
    /\ provider = [m \in Members |-> {}]
    /\ group = [m \in Members |-> NoGroup]
    /\ used = [m \in Members |-> {}]
    /\ packages = {}
    /\ net = {}
    /\ disturbed = FALSE

KeyPackage(s, n) == [signer |-> s, number |-> n]

\* The tree of a history: those it was created with or that were added.
Tree(history) == {history[i].adds : i \in DOMAIN history}

epoch(m) == Len(group[m]) - 1
epoch_secret(m) == <<"exporter", group[m]>>

----------------------------------------------------------------------------

\* MlsMember::new, with a signature key of its own.
MlsMember_new(m) ==
    /\ SumFunction(lives) < Cardinality(Members) + MaxMembers
    /\ lives' = [lives EXCEPT ![m] = @ + 1]

\* MlsMember::key_package: the private part goes into m's provider.
key_package(m) ==
    LET own == {kp \in packages : kp.signer = signer[m]}
        kp == KeyPackage(signer[m], Cardinality(own) + 1)
    IN  /\ Cardinality(own) < MaxPackages
        /\ packages' = packages \cup {kp}
        /\ provider' = [provider EXCEPT ![m] = @ \cup {kp}]
        /\ UNCHANGED <<lives, signer, group, used, net, disturbed>>

\* generate_key_package: the package of an MlsMember that is dropped with its
\* provider when the function returns.
generate_key_package(m) ==
    /\ MlsMember_new(m)
    /\ packages' = packages \cup {KeyPackage(<<m, lives'[m]>>, 1)}
    /\ UNCHANGED <<signer, provider, group, used, net, disturbed>>

\* create_group; there is one group here.
create_group(m) ==
    /\ m \in Founders
    /\ \A o \in Members : group[o] = NoGroup
    /\ net = {}
    /\ group' = [group EXCEPT ![m] = <<[by |-> signer[m], adds |-> signer[m]]>>]
    /\ UNCHANGED <<lives, signer, provider, used, packages, net, disturbed>>

Commit(m, kp) == [kind |-> "commit", history |-> group[m], by |-> signer[m],
                  adds |-> kp.signer]
Welcome(m, kp) == [kind |-> "welcome", package |-> kp,
                   history |-> Append(group[m], [by |-> signer[m], adds |-> kp.signer])]

\* Mutant: the pending commit is not merged.
add_member_Unmerged(m, kp) ==
    /\ group[m] # NoGroup /\ epoch(m) < MaxEpoch
    /\ kp.signer \notin Tree(group[m])
    /\ net' = net \cup {Commit(m, kp), Welcome(m, kp)}
    /\ UNCHANGED <<lives, signer, provider, group, used, packages, disturbed>>

\* add_member merges its own commit at once, whatever the others commit at the
\* same epoch.  openmls refuses a signature key that is in the tree.
add_member(m, kp) ==
    /\ group[m] # NoGroup /\ epoch(m) < MaxEpoch
    /\ kp.signer \notin Tree(group[m])
    /\ net' = net \cup {Commit(m, kp), Welcome(m, kp)}
    /\ group' = [group EXCEPT ![m] = Append(@, [by |-> signer[m], adds |-> kp.signer])]
    /\ used' = [used EXCEPT ![m] = {}]
    /\ UNCHANGED <<lives, signer, provider, packages, disturbed>>

\* join_group: needs the private part of the package, which is deleted; a
\* provider that has the group already refuses it.
join_group(m, msg) ==
    /\ msg.kind = "welcome"
    /\ msg.package \in provider[m]
    /\ group[m] = NoGroup
    /\ group' = [group EXCEPT ![m] = msg.history]
    /\ provider' = [provider EXCEPT ![m] = @ \ {msg.package}]
    /\ UNCHANGED <<lives, signer, used, packages, net, disturbed>>

encrypt_for_group(m) ==
    LET texts == {msg \in net : msg.kind = "text"}
    IN  /\ group[m] # NoGroup
        /\ Cardinality(texts) < MaxTexts
        /\ net' = net \cup {[kind |-> "text", history |-> group[m], by |-> signer[m],
                             number |-> Cardinality(texts) + 1]}
        /\ UNCHANGED <<lives, signer, provider, group, used, packages, disturbed>>

\* MlsGroup::process_message accepts what others made at the device's own
\* epoch and history, once.
process_message(m, msg) ==
    /\ group[m] # NoGroup
    /\ msg.kind # "welcome"
    /\ msg.history = group[m]
    /\ msg.by # signer[m]
    /\ msg \notin used[m]

\* decrypt_from_group: a commit is processed too, and dropped with an error;
\* whether its secret can be used again is up to the wire format.
decrypt_from_group(m, msg) ==
    /\ process_message(m, msg)
    /\ \/ /\ msg.kind = "text"
          /\ used' = [used EXCEPT ![m] = @ \cup {msg}]
          /\ UNCHANGED disturbed
       \/ /\ msg.kind = "commit"
          /\ used' \in {used, [used EXCEPT ![m] = @ \cup {msg}]}
          /\ disturbed' = TRUE
    /\ UNCHANGED <<lives, signer, provider, group, packages, net>>

\* Mutant: the staged commit is not merged.
process_commit_Unmerged(m, msg) ==
    /\ process_message(m, msg)
    /\ used' = [used EXCEPT ![m] = @ \cup {msg}]
    /\ UNCHANGED <<lives, signer, provider, group, packages, net, disturbed>>

\* process_commit: a text is decrypted too, and dropped with an error.
process_commit(m, msg) ==
    /\ process_message(m, msg)
    /\ \/ /\ msg.kind = "commit"
          /\ group' = [group EXCEPT ![m] = Append(@, [by |-> msg.by, adds |-> msg.adds])]
          /\ used' = [used EXCEPT ![m] = {}]
       \/ /\ msg.kind = "text"
          /\ used' = [used EXCEPT ![m] = @ \cup {msg}]
          /\ UNCHANGED group
    /\ UNCHANGED <<lives, signer, provider, packages, net, disturbed>>

\* A device restarts.  Provider and group are in memory; the new process makes
\* a new MlsMember.
Restart(m) ==
    /\ MlsMember_new(m)
    /\ signer' = [signer EXCEPT ![m] = <<m, lives'[m]>>]
    /\ provider' = [provider EXCEPT ![m] = {}]
    /\ group' = [group EXCEPT ![m] = NoGroup]
    /\ used' = [used EXCEPT ![m] = {}]
    /\ disturbed' = TRUE
    /\ UNCHANGED <<packages, net>>

Next ==
    \E m \in Members :
        \/ key_package(m)
        \/ generate_key_package(m)
        \/ create_group(m)
        \/ \E kp \in packages : add_member(m, kp)
        \/ encrypt_for_group(m)
        \/ \E msg \in net :
            join_group(m, msg) \/ decrypt_from_group(m, msg) \/ process_commit(m, msg)
        \/ Restart(m)

\* Commits and welcomes reach every device, and its application hands each to
\* the function it is for.
Fairness ==
    \A m \in Members :
        /\ WF_vars(\E msg \in net : join_group(m, msg))
        /\ WF_vars(\E msg \in net : msg.kind = "commit" /\ process_commit(m, msg))

Spec == Init /\ [][Next]_vars /\ Fairness

----------------------------------------------------------------------------
(* Properties *)

Commits == {msg \in net : msg.kind = "commit"}

\* Two commits were made from one history.
ForkAt(history) ==
    \E c1, c2 \in Commits :
        c1.history = history /\ c2.history = history /\ c1.by # c2.by

\* Devices at the same epoch export the same secret and have the same tree,
\* unless two members added somebody at one epoch that both have gone through.
\* No device forks the group by itself.
EpochAgreement ==
    \A m1, m2 \in Members :
        (group[m1] # NoGroup /\ group[m2] # NoGroup /\ epoch(m1) = epoch(m2)) =>
            \/ /\ epoch_secret(m1) = epoch_secret(m2)
               /\ Tree(group[m1]) = Tree(group[m2])
            \/ \E n \in 1 .. epoch(m1) : /\ ForkAt(SubSeq(group[m1], 1, n))
                                         /\ IsPrefix(SubSeq(group[m1], 1, n), group[m2])

\* m's MlsGroup is as far as every commit that its own MlsMember is part of.
CaughtUp(m) ==
    \A c \in Commits :
        signer[m] \in Tree(c.history) \cup {c.adds} =>
            group[m] # NoGroup /\ Len(group[m]) > Len(c.history)

\* While nobody forks the group, restarts, or hands a commit to the wrong
\* function, everybody that was added with a package it kept joins, and
\* everybody follows every commit, in whatever order they arrive.
EverybodyCatchesUp ==
    \A m \in Members :
        []<>(disturbed \/ CaughtUp(m) \/ \E c \in Commits : ForkAt(c.history))
====
