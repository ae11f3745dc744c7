---- MODULE GroupReplicasProofs ----
(***************************************************************************)
(* Theorems about GroupReplicas, for any machines, identities and clocks.  *)
(***************************************************************************)
EXTENDS GroupReplicas, TLAPS

\* Copy 1 of every identity is a slot.
LEMMA FirstSlot == \A id \in Identities : <<id, 1>> \in Slots
  BY GroupConstants DEF Slots, Copies

\* create_group writes a manifest.
LEMMA NewGroupType ==
    ASSUME NEW founders \in [Identities -> 0 .. MaxCopies], NEW now \in Nat
    PROVE  NewGroup(founders, now) \in GroupManifest
  BY DEF NewGroup, GroupManifest, Members, Role

----------------------------------------------------------------------------
(* The merge rule *)

\* merge_manifest chooses one of its arguments.
LEMMA MergeChooses ==
    \A a, b : merge_manifest(a, b) \in {a, b}
  BY DEF merge_manifest

\* The two merge functions of manifest.rs choose alike, ties included: it does
\* not matter which of them a machine uses.
THEOREM MergesAgree ==
    \A a, b \in GroupManifest : merge_manifests(a, b) = merge_manifest(a, b)
  BY DEF merge_manifest, merge_manifests, GroupManifest

\* merge_manifest is idempotent, as the property test of the repository
\* samples: merging a manifest with itself gives it back.
THEOREM MergeIdempotent == \A a : merge_manifest(a, a) = a
  BY MergeChooses

\* merge_manifest is associative, whatever the manifests: the result of
\* merging a list of manifests in its order does not depend on the grouping.
THEOREM MergeAssociative ==
    \A a, b, c \in GroupManifest :
        merge_manifest(merge_manifest(a, b), c) = merge_manifest(a, merge_manifest(b, c))
  BY DEF merge_manifest, GroupManifest

\* merge_manifest is commutative except on a tie: two manifests that differ in
\* epoch or in update time merge to the same one in either order.
THEOREM MergeCommutesWithoutTie ==
    \A a, b \in GroupManifest :
        (a.mls_epoch # b.mls_epoch \/ a.updated_at # b.updated_at \/ a = b) =>
            merge_manifest(a, b) = merge_manifest(b, a)
  BY DEF merge_manifest, GroupManifest

----------------------------------------------------------------------------
(* The replicas *)

\* Every step of a machine is a commit on its own manifest or a merge.
LEMMA NextCases ==
    ASSUME TypeOK, Next
    PROVE  \/ \E r \in Replicas : \E now \in ClockOf[r], members \in Members :
                /\ Commit(man[r], members, now) \in GroupManifest
                /\ man' = [man EXCEPT ![r] = Commit(man[r], members, now)]
           \/ \E r, q \in Replicas :
                man' = [man EXCEPT ![r] = merge_manifest(man[r], man[q])]
  <1>1. ASSUME NEW r \in Replicas, NEW outcome, NEW members \in Members,
               Change(r, outcome, members)
        PROVE  \E now \in ClockOf[r] :
                /\ Commit(man[r], members, now) \in GroupManifest
                /\ man' = [man EXCEPT ![r] = Commit(man[r], members, now)]
    <2>1. PICK now \in ClockOf[r] : man' = [man EXCEPT ![r] = Commit(man[r], members, now)]
      BY <1>1 DEF Change
    <2>2. now \in Nat /\ man[r] \in GroupManifest
      BY ReplicaConstants DEF TypeOK
    <2>3. Commit(man[r], members, now) \in GroupManifest
      BY <2>2 DEF Commit, GroupManifest
    <2>. QED
      BY <2>1, <2>3
  <1>2. ASSUME NEW r \in Replicas, NEW caller \in Identities, NEW target \in Identities,
               \/ \E new_role \in Role :
                    \/ promote(r, caller, target, new_role)
                    \/ demote(r, caller, target, new_role)
               \/ add_member(r, caller, target)
               \/ remove_member(r, caller, target)
        PROVE  \E outcome : \E members \in Members : Change(r, outcome, members)
    <2>1. man[r] \in GroupManifest
      BY DEF TypeOK
    <2>2. \A x \in Role : WithRole(man[r], target, x) \in Members
      BY <2>1, FirstSlot DEF WithRole, GroupManifest, Members
    <2>3. WithMember(man[r], target) \in Members /\ Without(man[r], target) \in Members
      BY <2>1, FirstSlot DEF WithMember, WithRole, Without, GroupManifest, Members, Role
    <2>. QED
      BY <1>2, <2>2, <2>3 DEF promote, demote, add_member, remove_member
  <1>3. ASSUME NEW r \in Replicas, NEW q \in Replicas, Reconcile(r, q)
        PROVE  man' = [man EXCEPT ![r] = merge_manifest(man[r], man[q])]
    BY <1>3 DEF Reconcile
  <1>. QED
    BY <1>1, <1>2, <1>3 DEF Next

\* Every machine always holds a well-formed manifest.
THEOREM TypeCorrect == Spec => []TypeOK
  <1>1. Init => TypeOK
    BY NewGroupType, ReplicaConstants DEF Init, TypeOK
  <1>2. TypeOK /\ [Next]_man => TypeOK'
    <2>. SUFFICES ASSUME TypeOK, [Next]_man
                  PROVE  TypeOK'
      OBVIOUS
    <2>1. CASE Next
      BY <2>1, NextCases, MergeChooses DEF TypeOK
    <2>. QED
      BY <2>1 DEF TypeOK
  <1>. QED
    BY <1>1, <1>2, PTL DEF Spec

\* No machine ever falls back to an older manifest.
THEOREM VersionsOnlyAdvance == Spec => VersionsAdvance
  <1>1. TypeOK /\ [Next]_man =>
            [\A r \in Replicas : man'[r] # man[r] => Newer(man'[r], man[r])]_man
    <2>. SUFFICES ASSUME TypeOK, Next, NEW p \in Replicas, man'[p] # man[p]
                  PROVE  Newer(man'[p], man[p])
      OBVIOUS
    <2>1. ASSUME NEW r \in Replicas, NEW now \in ClockOf[r], NEW members,
                 man' = [man EXCEPT ![r] = Commit(man[r], members, now)]
          PROVE  Newer(man'[p], man[p])
      BY <2>1 DEF TypeOK, Commit, Newer, GroupManifest
    <2>2. ASSUME NEW r \in Replicas, NEW q \in Replicas,
                 man' = [man EXCEPT ![r] = merge_manifest(man[r], man[q])]
          PROVE  Newer(man'[p], man[p])
      BY <2>2 DEF TypeOK, merge_manifest, Newer, GroupManifest
    <2>. QED
      BY <2>1, <2>2, NextCases
  <1>. QED
    BY <1>1, TypeCorrect, PTL DEF Spec, VersionsAdvance

----------------------------------------------------------------------------
(* Machines whose clocks never read the same *)

ClocksDiffer ==
    \A r, q \in Replicas : r # q => ClockOf[r] \cap ClockOf[q] = {}

\* A manifest is determined by its version; and the epochs stamped by r's
\* clock, wherever they are by now, are epochs r has reached, so r's next
\* commit has a version nobody has.
VersionInv ==
    /\ TypeOK
    /\ \A r, q \in Replicas :
          (man[r].mls_epoch = man[q].mls_epoch /\ man[r].updated_at = man[q].updated_at) =>
              man[r] = man[q]
    /\ \A r, q \in Replicas :
          man[q].mls_epoch = 0 \/ man[q].updated_at \notin ClockOf[r]
              \/ man[q].mls_epoch =< man[r].mls_epoch

LEMMA VersionInvariant ==
    ASSUME ClocksDiffer
    PROVE  Spec => []VersionInv
  <1>1. Init => VersionInv
    <2>. SUFFICES ASSUME NEW founders \in [Identities -> 0 .. MaxCopies],
                         man = [r \in Replicas |-> NewGroup(founders, CreatedAt)]
                  PROVE  VersionInv
      BY DEF Init
    <2>1. NewGroup(founders, CreatedAt) \in GroupManifest
      BY NewGroupType, ReplicaConstants
    <2>2. NewGroup(founders, CreatedAt).mls_epoch = 0
      BY DEF NewGroup
    <2>. QED
      BY <2>1, <2>2 DEF VersionInv, TypeOK
  <1>2. VersionInv /\ [Next]_man => VersionInv'
    <2>. SUFFICES ASSUME VersionInv, Next
                  PROVE  VersionInv'
      BY DEF VersionInv, TypeOK
    <2>1. ASSUME NEW p \in Replicas, NEW now \in ClockOf[p], NEW members,
                 Commit(man[p], members, now) \in GroupManifest,
                 man' = [man EXCEPT ![p] = Commit(man[p], members, now)]
          PROVE  VersionInv'
      <3>1. /\ man' \in [Replicas -> GroupManifest]
            /\ man'[p].mls_epoch = man[p].mls_epoch + 1
            /\ man'[p].updated_at = now
            /\ \A r \in Replicas : r # p => man'[r] = man[r]
            /\ man[p].mls_epoch \in Nat
        BY <2>1 DEF VersionInv, TypeOK, Commit, GroupManifest
      <3>2. \A q \in Replicas : man[q].mls_epoch \in Nat /\ man'[q].mls_epoch \in Nat
        BY <3>1 DEF VersionInv, TypeOK, GroupManifest
      <3>3. ASSUME NEW q \in Replicas, q # p,
                   man[q].mls_epoch = man'[p].mls_epoch, man[q].updated_at = now
            PROVE  FALSE
        BY <3>1, <3>2, <3>3 DEF VersionInv
      <3>4. \A r, q \in Replicas :
              (man'[r].mls_epoch = man'[q].mls_epoch /\ man'[r].updated_at = man'[q].updated_at) =>
                  man'[r] = man'[q]
        BY <3>1, <3>3 DEF VersionInv
      <3>5. \A r, q \in Replicas :
              man'[q].mls_epoch = 0 \/ man'[q].updated_at \notin ClockOf[r]
                  \/ man'[q].mls_epoch =< man'[r].mls_epoch
        BY <3>1, <3>2 DEF VersionInv, ClocksDiffer
      <3>. QED
        BY <3>1, <3>4, <3>5 DEF VersionInv, TypeOK
    <2>2. ASSUME NEW p \in Replicas, NEW o \in Replicas,
                 man' = [man EXCEPT ![p] = merge_manifest(man[p], man[o])]
          PROVE  VersionInv'
      <3>1. /\ man' \in [Replicas -> GroupManifest]
            /\ man'[p] = man[p] \/ man'[p] = man[o]
            /\ \A r \in Replicas : r # p => man'[r] = man[r]
        BY <2>2, MergeChooses DEF VersionInv, TypeOK
      <3>2. man'[p].mls_epoch >= man[p].mls_epoch
        BY <2>2 DEF merge_manifest, VersionInv, TypeOK, GroupManifest
      <3>3. \A q \in Replicas : man[q].mls_epoch \in Nat /\ man'[q].mls_epoch \in Nat
        BY <3>1 DEF VersionInv, TypeOK, GroupManifest
      <3>. QED
        BY <3>1, <3>2, <3>3 DEF VersionInv, TypeOK
    <2>. QED
      BY <2>1, <2>2, NextCases DEF VersionInv
  <1>. QED
    BY <1>1, <1>2, PTL DEF Spec

\* With clocks that never agree merge_manifest is commutative on every pair of
\* manifests the machines can hold, as its documentation says of all pairs.
THEOREM MergeCommutesWithDistinctClocks ==
    ASSUME ClocksDiffer
    PROVE  Spec => []MergeCommutes
  <1>1. VersionInv => MergeCommutes
    BY MergeCommutesWithoutTie, MergesAgree DEF VersionInv, TypeOK, MergeCommutes
  <1>2. Spec => []VersionInv
    BY VersionInvariant
  <1>. QED
    BY <1>1, <1>2, PTL
====
