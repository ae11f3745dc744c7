---- MODULE GroupServiceProofs ----
(***************************************************************************)
(* Theorems about GroupService, for every set of identities and threads    *)
(* and every MAX_GROUP_SIZE.                                               *)
(***************************************************************************)
EXTENDS GroupService, FiniteSetTheorems, TLAPS

\* Copy 1 of every identity is a slot.
LEMMA FirstSlot == \A id \in Identities : <<id, 1>> \in Slots
  BY GroupConstants DEF Slots, Copies

\* What each mutation leaves of a manifest is a manifest again.
LEMMA MutationTypes ==
    ASSUME NEW man \in GroupManifest, NEW now \in Nat, NEW id \in Identities,
           NEW r \in Role
    PROVE  /\ Commit(man, WithRole(man, id, r), now) \in GroupManifest
           /\ Commit(man, WithMember(man, id), now) \in GroupManifest
           /\ Commit(man, Without(man, id), now) \in GroupManifest
  <1>1. /\ WithRole(man, id, r) \in Members
        /\ WithMember(man, id) \in Members
        /\ Without(man, id) \in Members
    BY FirstSlot DEF WithRole, WithMember, Without, GroupManifest, Members, Role
  <1>2. QED
    BY <1>1 DEF Commit, GroupManifest

\* create_group writes a manifest.
LEMMA NewGroupType ==
    ASSUME NEW founders \in [Identities -> 0 .. MaxCopies], NEW now \in Nat
    PROVE  NewGroup(founders, now) \in GroupManifest
  BY DEF NewGroup, GroupManifest, Members, Role

\* A manifest occupies finitely many slots.
LEMMA SizeType ==
    ASSUME NEW man \in GroupManifest
    PROVE  IsFiniteSet(Occupied(man)) /\ GroupSize(man) \in Nat
  <1>1. IsFiniteSet(Slots)
    <2>1. IsFiniteSet(Copies)
      BY GroupConstants, FS_Interval DEF Copies
    <2>2. QED
      BY <2>1, GroupConstants, FS_Product, Zenon DEF Slots
  <1>2. IsFiniteSet(Occupied(man))
    BY <1>1, FS_Subset DEF Occupied
  <1>3. QED
    BY <1>2, FS_CardinalityType DEF GroupSize

----------------------------------------------------------------------------
(* Type correctness *)

\* The variables of the group service keep their types: in particular every
\* local copy a thread is about to persist is a well-formed manifest.
THEOREM TypeCorrect == Spec => []TypeOK
  <1>1. Init => TypeOK
    BY DEF Init, TypeOK, Outcome
  <1>2. TypeOK /\ [Next]_vars => TypeOK'
    <2> SUFFICES ASSUME TypeOK, [Next]_vars PROVE TypeOK'
      OBVIOUS
    <2> USE ServiceConstants, NoCallIsNoCall DEF TypeOK
    <2>1. ASSUME NEW t \in Threads, NEW caller \in Identities,
                 NEW outcome \in Outcome, NEW man,
                 manifest # NoManifest => man \in GroupManifest,
                 LoadAndCheck(t, caller, outcome, man)
          PROVE  TypeOK'
      BY <2>1 DEF LoadAndCheck, Return, Call, Outcome
    <2>2. ASSUME NEW t \in Threads, NEW now \in Times,
                 NEW label_fits \in BOOLEAN,
                 NEW founders \in [Identities -> 0 .. MaxCopies],
                 create_group(t, label_fits, founders, now)
          PROVE  TypeOK'
      <3>1. NewGroup(founders, now) \in GroupManifest
        BY NewGroupType
      <3>2. GroupSize(NewGroup(founders, now)) \in Nat
        BY <3>1, SizeType
      <3>3. QED
        BY <2>2, <3>1, <3>2 DEF create_group, Return, Outcome
    <2>3. ASSUME NEW t \in Threads, NEW now \in Times,
                 NEW caller \in Identities, NEW target \in Identities,
                 NEW new_role \in Role,
                 \/ promote(t, caller, target, new_role, now)
                 \/ demote(t, caller, target, new_role, now)
                 \/ add_member(t, caller, target, now)
                 \/ remove_member(t, caller, target, now)
          PROVE  TypeOK'
      <3>1. manifest # NoManifest =>
              /\ Commit(manifest, WithRole(manifest, target, new_role), now) \in GroupManifest
              /\ Commit(manifest, WithMember(manifest, target), now) \in GroupManifest
              /\ Commit(manifest, Without(manifest, target), now) \in GroupManifest
        BY MutationTypes
      <3>2. /\ PromoteCheck(manifest, caller, target, new_role) \in Outcome
            /\ DemoteCheck(manifest, caller, target, new_role) \in Outcome
            /\ AddCheck(manifest, caller, target) \in Outcome
            /\ RemoveCheck(manifest, caller, target) \in Outcome
        BY DEF PromoteCheck, DemoteCheck, AddCheck, RemoveCheck, Outcome
      <3>3. QED
        BY <2>1, <2>3, <3>1, <3>2 DEF promote, demote, add_member, remove_member
    <2>4. ASSUME NEW t \in Threads, Persist(t) PROVE TypeOK'
      BY <2>4 DEF Persist, Call, Outcome
    <2>5. CASE Crash
      BY <2>5 DEF Crash
    <2>6. CASE UNCHANGED vars
      BY <2>6 DEF vars
    <2>7. ASSUME NEW t \in Threads, NEW now \in Times,
                 NEW caller \in Identities, NEW target \in Identities,
                 \/ add_member(t, caller, target, now)
                 \/ remove_member(t, caller, target, now)
          PROVE  TypeOK'
      BY <2>3, <2>7 DEF Role
    <2>8. QED
      BY <2>2, <2>3, <2>4, <2>5, <2>6, <2>7 DEF Next
  <1>3. QED
    BY <1>1, <1>2, PTL DEF Spec

----------------------------------------------------------------------------
(* Rank: no call touches an entry its caller does not outrank *)

\* Everyone a manifest names has a role, and a non-member has none.
LEMMA RoleTypes ==
    ASSUME NEW man \in GroupManifest, NEW id \in Identities
    PROVE  /\ RoleOf(man, id) \in Role \cup {"None"}
           /\ IsMember(man, id) => RoleOf(man, id) \in Role
  BY FirstSlot DEF RoleOf, IsMember, GroupManifest, Members

\* The role every identity has after promote or demote.
LEMMA RolesAfterChange ==
    ASSUME NEW man \in GroupManifest, NEW now, NEW target \in Identities,
           NEW r \in Role
    PROVE  \A id \in Identities :
             RoleOf(Commit(man, WithRole(man, target, r), now), id)
                 = IF id = target THEN r ELSE RoleOf(man, id)
  BY FirstSlot DEF RoleOf, Commit, WithRole, GroupManifest, Members

\* The role every identity has after add_member or remove_member.
LEMMA RolesAfter ==
    ASSUME NEW man \in GroupManifest, NEW now, NEW target \in Identities
    PROVE  \A id \in Identities :
             /\ RoleOf(Commit(man, WithMember(man, target), now), id)
                   = IF id = target THEN "Member" ELSE RoleOf(man, id)
             /\ RoleOf(Commit(man, Without(man, target), now), id)
                   = IF id = target THEN "None" ELSE RoleOf(man, id)
  BY FirstSlot DEF RoleOf, Commit, WithRole, WithMember, Without, GroupManifest, Members

\* A promotion that passes its checks is within the caller's rank: only an
\* Owner may create an Admin or an Owner, and an Admin creates Moderators.
LEMMA PromoteWithinRank ==
    ASSUME NEW man \in GroupManifest, NEW caller \in Identities,
           NEW target \in Identities, NEW r \in Role, NEW now,
           PromoteCheck(man, caller, target, r) = "Ok"
    PROVE  WithinRank(caller, man, Commit(man, WithRole(man, target, r), now))
  <1>1. RoleOf(man, caller) \in Role /\ RoleOf(man, target) \in Role
    BY RoleTypes DEF PromoteCheck
  <1>2. ~(role_privilege(r) >= role_privilege(RoleOf(man, target)))
    BY DEF PromoteCheck
  <1>3. action_for_role_change(r) \in PERMISSION_TABLE[RoleOf(man, caller)]
    BY DEF PromoteCheck, check_permission
  <1>4. Outranks(man, caller, RoleOf(man, target), r)
    BY <1>1, <1>2, <1>3 DEF Outranks, PERMISSION_TABLE,
          action_for_role_change, role_privilege, Role, GroupAction
  <1>5. \A id \in Identities :
            RoleOf(Commit(man, WithRole(man, target, r), now), id)
                = IF id = target THEN r ELSE RoleOf(man, id)
    BY RolesAfterChange
  <1>6. QED
    BY <1>4, <1>5 DEF WithinRank

\* A demotion that passes its checks is within the caller's rank.
LEMMA DemoteWithinRank ==
    ASSUME NEW man \in GroupManifest, NEW caller \in Identities,
           NEW target \in Identities, NEW r \in Role, NEW now,
           DemoteCheck(man, caller, target, r) = "Ok"
    PROVE  WithinRank(caller, man, Commit(man, WithRole(man, target, r), now))
  <1>1. RoleOf(man, caller) \in Role /\ RoleOf(man, target) \in Role
    BY RoleTypes DEF DemoteCheck
  <1>2. ~(role_privilege(r) =< role_privilege(RoleOf(man, target)))
    BY DEF DemoteCheck
  <1>3. action_for_role_change(RoleOf(man, target)) \in PERMISSION_TABLE[RoleOf(man, caller)]
    BY DEF DemoteCheck, check_permission
  <1>4. Outranks(man, caller, RoleOf(man, target), r)
    BY <1>1, <1>2, <1>3 DEF Outranks, PERMISSION_TABLE,
          action_for_role_change, role_privilege, Role, GroupAction
  <1>5. \A id \in Identities :
            RoleOf(Commit(man, WithRole(man, target, r), now), id)
                = IF id = target THEN r ELSE RoleOf(man, id)
    BY RolesAfterChange
  <1>6. QED
    BY <1>4, <1>5 DEF WithinRank

\* Adding a Member is within the rank of Owners and Admins.
LEMMA AddWithinRank ==
    ASSUME NEW man \in GroupManifest, NEW caller \in Identities,
           NEW target \in Identities, NEW now,
           AddCheck(man, caller, target) = "Ok"
    PROVE  WithinRank(caller, man, Commit(man, WithMember(man, target), now))
  <1>1. Outranks(man, caller, RoleOf(man, target), "Member")
    BY RoleTypes DEF AddCheck, Outranks, check_permission, PERMISSION_TABLE,
          role_privilege, Role, GroupAction, IsMember
  <1>2. QED
    BY <1>1, RolesAfter DEF WithinRank

\* A removal that passes both the table and the rank check removes someone of
\* lower rank, unless an Owner makes it.
LEMMA RemoveWithinRank ==
    ASSUME NEW man \in GroupManifest, NEW caller \in Identities,
           NEW target \in Identities, NEW now,
           RemoveCheck(man, caller, target) = "Ok"
    PROVE  WithinRank(caller, man, Commit(man, Without(man, target), now))
  <1>1. Outranks(man, caller, RoleOf(man, target), "None")
    BY RoleTypes DEF RemoveCheck, Outranks, check_permission, PERMISSION_TABLE,
          role_privilege, Role, GroupAction
  <1>2. QED
    BY <1>1, RolesAfter DEF WithinRank

\* Any number of threads: the copy a call is about to persist differs from the
\* manifest it read only in entries its caller outranks.
THEOREM PendingRank == Spec => []PendingWithinRank
  <1>1. Init => PendingWithinRank
    BY DEF Init, PendingWithinRank
  <1>2. TypeOK /\ PendingWithinRank /\ [Next]_vars => PendingWithinRank'
    <2> SUFFICES ASSUME TypeOK, PendingWithinRank, [Next]_vars
                 PROVE  PendingWithinRank'
      OBVIOUS
    <2>1. ASSUME NEW t \in Threads, NEW caller \in Identities, NEW outcome, NEW man,
                 (manifest \in GroupManifest /\ outcome = "Ok")
                     => WithinRank(caller, manifest, man),
                 LoadAndCheck(t, caller, outcome, man)
          PROVE  PendingWithinRank'
      BY <2>1 DEF LoadAndCheck, Return, TypeOK, PendingWithinRank
    <2>2. ASSUME NEW t \in Threads, NEW now \in Times,
                 NEW label_fits \in BOOLEAN,
                 NEW founders \in [Identities -> 0 .. MaxCopies],
                 create_group(t, label_fits, founders, now)
          PROVE  PendingWithinRank'
      BY <2>2 DEF create_group, Return, PendingWithinRank
    <2>3. ASSUME NEW t \in Threads, NEW now \in Times,
                 NEW caller \in Identities, NEW target \in Identities,
                 NEW r \in Role, promote(t, caller, target, r, now)
          PROVE  PendingWithinRank'
      BY <2>1, <2>3, PromoteWithinRank DEF promote
    <2>4. ASSUME NEW t \in Threads, NEW now \in Times,
                 NEW caller \in Identities, NEW target \in Identities,
                 NEW r \in Role, demote(t, caller, target, r, now)
          PROVE  PendingWithinRank'
      BY <2>1, <2>4, DemoteWithinRank DEF demote
    <2>5. ASSUME NEW t \in Threads, NEW now \in Times,
                 NEW caller \in Identities, NEW target \in Identities,
                 add_member(t, caller, target, now)
          PROVE  PendingWithinRank'
      BY <2>1, <2>5, AddWithinRank DEF add_member
    <2>6. ASSUME NEW t \in Threads, NEW now \in Times,
                 NEW caller \in Identities, NEW target \in Identities,
                 remove_member(t, caller, target, now)
          PROVE  PendingWithinRank'
      BY <2>1, <2>6, RemoveWithinRank DEF remove_member
    <2>7. ASSUME NEW t \in Threads, Persist(t) PROVE PendingWithinRank'
      BY <2>7 DEF Persist, PendingWithinRank, TypeOK
    <2>8. CASE Crash
      BY <2>8 DEF Crash, PendingWithinRank
    <2>9. CASE UNCHANGED vars
      BY <2>9 DEF vars, PendingWithinRank
    <2>10. QED
      BY <2>2, <2>3, <2>4, <2>5, <2>6, <2>7, <2>8, <2>9 DEF Next
  <1>3. QED
    BY <1>1, <1>2, TypeCorrect, PTL DEF Spec

----------------------------------------------------------------------------
(* Size: concurrent adds never take a group past its cap *)

\* What each mutation does to the number of entries.
LEMMA SizeAfter ==
    ASSUME NEW man \in GroupManifest, NEW now, NEW target \in Identities,
           NEW r \in Role
    PROVE  /\ IsMember(man, target) =>
                GroupSize(Commit(man, WithRole(man, target, r), now)) = GroupSize(man)
           /\ GroupSize(Commit(man, WithMember(man, target), now)) =< GroupSize(man) + 1
           /\ GroupSize(Commit(man, Without(man, target), now)) =< GroupSize(man)
  <1>1. IsMember(man, target) =>
          Occupied(Commit(man, WithRole(man, target, r), now)) = Occupied(man)
    BY FirstSlot DEF Occupied, Commit, WithRole, IsMember, RoleOf, GroupManifest, Members, Role
  <1>2. Occupied(Commit(man, WithMember(man, target), now))
          = Occupied(man) \cup {<<target, 1>>}
    BY FirstSlot DEF Occupied, Commit, WithMember, WithRole, GroupManifest, Members, Role
  <1>3. Occupied(Commit(man, Without(man, target), now)) \in SUBSET Occupied(man)
    BY DEF Occupied, Commit, Without, GroupManifest, Members
  <1>4. IsFiniteSet(Occupied(man)) /\ GroupSize(man) \in Nat
    BY SizeType
  <1>5. Cardinality(Occupied(man) \cup {<<target, 1>>}) =< Cardinality(Occupied(man)) + 1
    <2>1. Cardinality(Occupied(man) \cup {<<target, 1>>})
            = IF <<target, 1>> \in Occupied(man) THEN Cardinality(Occupied(man))
                                                ELSE Cardinality(Occupied(man)) + 1
      BY <1>4, FS_AddElement, Zenon
    <2>2. QED
      BY <1>4, <2>1 DEF GroupSize
  <1>6. Cardinality(Occupied(Commit(man, Without(man, target), now)))
          =< Cardinality(Occupied(man))
    BY <1>3, <1>4, FS_Subset
  <1>7. QED
    BY <1>1, <1>2, <1>5, <1>6 DEF GroupSize

\* A manifest is within the cap, or no larger than the group was born.
WithinCap(man) == GroupSize(man) =< MaxGroupSize \/ GroupSize(man) =< born

\* Inductive: the stored manifest and every copy about to be stored are within
\* the cap, and a copy exists only once the group does (so that create_group
\* cannot change `born` under it).
SizeInv ==
    /\ manifest # NoManifest => WithinCap(manifest)
    /\ \A t \in Threads :
          call[t] # NoCall => manifest # NoManifest /\ WithinCap(call[t].man)

\* Any number of threads: the group is never larger than the larger of
\* MAX_GROUP_SIZE and the number of entries it was created with.
THEOREM SizeStaysBounded == Spec => []SizeBounded
  <1>1. Init => SizeInv
    BY DEF Init, SizeInv
  <1>2. TypeOK /\ SizeInv /\ [Next]_vars => SizeInv'
    <2> SUFFICES ASSUME TypeOK, SizeInv, [Next]_vars PROVE SizeInv'
      OBVIOUS
    <2>1. ASSUME NEW t \in Threads, NEW caller \in Identities, NEW outcome, NEW man,
                 (manifest \in GroupManifest /\ WithinCap(manifest) /\ outcome = "Ok")
                     => WithinCap(man),
                 LoadAndCheck(t, caller, outcome, man)
          PROVE  SizeInv'
      <3>1. UNCHANGED <<manifest, born>>
        BY <2>1 DEF LoadAndCheck, Return
      <3>2. CASE UNCHANGED call
        BY <3>1, <3>2 DEF SizeInv, WithinCap
      <3>3. CASE /\ manifest # NoManifest
                 /\ outcome = "Ok"
                 /\ call' = [call EXCEPT ![t] =
                        [caller |-> caller, base |-> manifest, man |-> man]]
        <4>1. WithinCap(man)
          BY <2>1, <3>3 DEF SizeInv, TypeOK
        <4>2. QED
          BY <3>1, <3>3, <4>1 DEF SizeInv, WithinCap, TypeOK
      <3>4. QED
        BY <2>1, <3>2, <3>3 DEF LoadAndCheck, Return
    <2>2. ASSUME NEW t \in Threads, NEW now \in Times,
                 NEW label_fits \in BOOLEAN,
                 NEW founders \in [Identities -> 0 .. MaxCopies],
                 create_group(t, label_fits, founders, now)
          PROVE  SizeInv'
      <3>1. NewGroup(founders, now) \in GroupManifest
        BY ServiceConstants, NewGroupType
      <3>2. GroupSize(NewGroup(founders, now)) \in Nat
        BY <3>1, SizeType
      <3>3. QED
        BY <2>2, <3>2 DEF create_group, Return, SizeInv, WithinCap
    <2>3. ASSUME NEW t \in Threads, NEW now \in Times,
                 NEW caller \in Identities, NEW target \in Identities,
                 NEW r \in Role, promote(t, caller, target, r, now)
          PROVE  SizeInv'
      <3>1. (manifest \in GroupManifest /\ WithinCap(manifest)
                /\ PromoteCheck(manifest, caller, target, r) = "Ok")
              => WithinCap(Commit(manifest, WithRole(manifest, target, r), now))
        BY SizeAfter DEF PromoteCheck, WithinCap
      <3>2. QED
        BY <2>1, <2>3, <3>1 DEF promote
    <2>4. ASSUME NEW t \in Threads, NEW now \in Times,
                 NEW caller \in Identities, NEW target \in Identities,
                 NEW r \in Role, demote(t, caller, target, r, now)
          PROVE  SizeInv'
      <3>1. (manifest \in GroupManifest /\ WithinCap(manifest)
                /\ DemoteCheck(manifest, caller, target, r) = "Ok")
              => WithinCap(Commit(manifest, WithRole(manifest, target, r), now))
        BY SizeAfter DEF DemoteCheck, WithinCap
      <3>2. QED
        BY <2>1, <2>4, <3>1 DEF demote
    <2>5. ASSUME NEW t \in Threads, NEW now \in Times,
                 NEW caller \in Identities, NEW target \in Identities,
                 add_member(t, caller, target, now)
          PROVE  SizeInv'
      <3>1. ASSUME manifest \in GroupManifest,
                   AddCheck(manifest, caller, target) = "Ok"
            PROVE  WithinCap(Commit(manifest, WithMember(manifest, target), now))
        <4>1. GroupSize(manifest) < MaxGroupSize
          BY <3>1, SizeType, GroupConstants DEF AddCheck
        <4>2. GroupSize(Commit(manifest, WithMember(manifest, target), now))
                =< GroupSize(manifest) + 1
          BY <3>1, SizeAfter DEF Role
        <4>3. GroupSize(Commit(manifest, WithMember(manifest, target), now)) \in Nat
          BY <3>1, SizeType, MutationTypes, ServiceConstants DEF Role
        <4>4. QED
          BY <3>1, <4>1, <4>2, <4>3, SizeType, GroupConstants DEF WithinCap
      <3>2. QED
        BY <2>1, <2>5, <3>1 DEF add_member
    <2>6. ASSUME NEW t \in Threads, NEW now \in Times,
                 NEW caller \in Identities, NEW target \in Identities,
                 remove_member(t, caller, target, now)
          PROVE  SizeInv'
      <3>1. ASSUME manifest \in GroupManifest, WithinCap(manifest)
            PROVE  WithinCap(Commit(manifest, Without(manifest, target), now))
        <4>1. GroupSize(Commit(manifest, Without(manifest, target), now))
                =< GroupSize(manifest)
          BY <3>1, SizeAfter DEF Role
        <4>2. GroupSize(Commit(manifest, Without(manifest, target), now)) \in Nat
          BY <3>1, SizeType, MutationTypes, ServiceConstants DEF Role
        <4>3. QED
          BY <3>1, <4>1, <4>2, SizeType, GroupConstants DEF WithinCap, TypeOK
      <3>2. QED
        BY <2>1, <2>6, <3>1 DEF remove_member
    <2>7. ASSUME NEW t \in Threads, Persist(t) PROVE SizeInv'
      <3>1. call[t].man \in GroupManifest
        BY <2>7 DEF Persist, TypeOK, Call
      <3>2. manifest' # NoManifest
        BY <2>7, <3>1, ServiceConstants DEF Persist
      <3>3. QED
        BY <2>7, <3>2 DEF Persist, SizeInv, TypeOK, WithinCap
    <2>8. CASE Crash
      BY <2>8 DEF Crash, SizeInv, WithinCap
    <2>9. CASE UNCHANGED vars
      BY <2>9 DEF vars, SizeInv, WithinCap
    <2>10. QED
      BY <2>2, <2>3, <2>4, <2>5, <2>6, <2>7, <2>8, <2>9 DEF Next
  <1>3. SizeInv => SizeBounded
    BY DEF SizeInv, SizeBounded, WithinCap
  <1>4. QED
    BY <1>1, <1>2, <1>3, TypeCorrect, PTL DEF Spec

----------------------------------------------------------------------------
(* Epochs *)

\* Inductive: a copy about to be stored is at most one epoch ahead of the
\* commits counted so far, however old the manifest it was made from.
EpochInv ==
    /\ manifest # NoManifest => manifest.mls_epoch =< commits
    /\ \A t \in Threads : call[t] # NoCall => call[t].man.mls_epoch =< commits + 1

\* Any number of threads: lost updates only ever lose epochs.
THEOREM EpochBounded == Spec => []EpochWithinCommits
  <1>1. Init => EpochInv
    BY DEF Init, EpochInv
  <1>2. TypeOK /\ EpochInv /\ [Next]_vars => EpochInv'
    <2> SUFFICES ASSUME TypeOK, EpochInv, [Next]_vars PROVE EpochInv'
      OBVIOUS
    <2>1. ASSUME NEW t \in Threads, NEW caller, NEW outcome, NEW members, NEW now,
                 LoadAndCheck(t, caller, outcome, Commit(manifest, members, now))
          PROVE  EpochInv'
      BY <2>1 DEF LoadAndCheck, Return, Commit, EpochInv, TypeOK, GroupManifest
    <2>2. ASSUME NEW t \in Threads, NEW now \in Times,
                 NEW label_fits \in BOOLEAN,
                 NEW founders \in [Identities -> 0 .. MaxCopies],
                 create_group(t, label_fits, founders, now)
          PROVE  EpochInv'
      BY <2>2 DEF create_group, Return, NewGroup, EpochInv, TypeOK
    <2>3. ASSUME NEW t \in Threads, NEW now \in Times,
                 NEW caller \in Identities, NEW target \in Identities,
                 \/ \E r \in Role : \/ promote(t, caller, target, r, now)
                                   \/ demote(t, caller, target, r, now)
                 \/ add_member(t, caller, target, now)
                 \/ remove_member(t, caller, target, now)
          PROVE  EpochInv'
      BY <2>1, <2>3 DEF promote, demote, add_member, remove_member
    <2>4. ASSUME NEW t \in Threads, Persist(t) PROVE EpochInv'
      BY <2>4 DEF Persist, EpochInv, TypeOK, Call, GroupManifest
    <2>5. CASE Crash
      BY <2>5 DEF Crash, EpochInv
    <2>6. CASE UNCHANGED vars
      BY <2>6 DEF vars, EpochInv
    <2>7. QED
      BY <2>2, <2>3, <2>4, <2>5, <2>6 DEF Next
  <1>3. EpochInv => EpochWithinCommits
    BY DEF EpochInv, EpochWithinCommits
  <1>4. QED
    BY <1>1, <1>2, <1>3, TypeCorrect, PTL DEF Spec

----------------------------------------------------------------------------
(* One calling thread *)

\* Inductive, with one thread: the manifest a call read is still the stored
\* one when it writes, so the copy is exactly one epoch ahead of the store.
SequentialInv ==
    /\ manifest = NoManifest => commits = 0
    /\ manifest # NoManifest => manifest.mls_epoch = commits
    /\ \A t \in Threads : call[t] # NoCall =>
          /\ manifest # NoManifest
          /\ call[t].base = manifest
          /\ call[t].man.mls_epoch = manifest.mls_epoch + 1

\* With one calling thread no write is computed from a stale manifest.
LEMMA SequentialInvariant ==
    ASSUME NEW t0, Threads = {t0}
    PROVE  Spec => []SequentialInv
  <1>1. Init => SequentialInv
    BY DEF Init, SequentialInv
  <1>2. TypeOK /\ SequentialInv /\ [Next]_vars => SequentialInv'
    <2> SUFFICES ASSUME TypeOK, SequentialInv, [Next]_vars PROVE SequentialInv'
      OBVIOUS
    <2>1. ASSUME NEW t \in Threads, NEW caller, NEW outcome, NEW members, NEW now,
                 LoadAndCheck(t, caller, outcome, Commit(manifest, members, now))
          PROVE  SequentialInv'
      BY <2>1 DEF LoadAndCheck, Return, Commit, SequentialInv, TypeOK, GroupManifest
    <2>2. ASSUME NEW t \in Threads, NEW now \in Times,
                 NEW label_fits \in BOOLEAN,
                 NEW founders \in [Identities -> 0 .. MaxCopies],
                 create_group(t, label_fits, founders, now)
          PROVE  SequentialInv'
      BY <2>2 DEF create_group, Return, NewGroup, SequentialInv, TypeOK
    <2>3. ASSUME NEW t \in Threads, NEW now \in Times,
                 NEW caller \in Identities, NEW target \in Identities,
                 \/ \E r \in Role : \/ promote(t, caller, target, r, now)
                                   \/ demote(t, caller, target, r, now)
                 \/ add_member(t, caller, target, now)
                 \/ remove_member(t, caller, target, now)
          PROVE  SequentialInv'
      BY <2>1, <2>3 DEF promote, demote, add_member, remove_member
    <2>4. ASSUME NEW t \in Threads, Persist(t) PROVE SequentialInv'
      <3>1. call[t].man \in GroupManifest /\ call[t].man # NoManifest
        BY <2>4, ServiceConstants DEF Persist, TypeOK, Call
      <3>2. QED
        BY <2>4, <3>1 DEF Persist, SequentialInv, TypeOK
    <2>5. CASE Crash
      BY <2>5 DEF Crash, SequentialInv
    <2>6. CASE UNCHANGED vars
      BY <2>6 DEF vars, SequentialInv
    <2>7. QED
      BY <2>2, <2>3, <2>4, <2>5, <2>6 DEF Next
  <1>3. QED
    BY <1>1, <1>2, TypeCorrect, PTL DEF Spec

\* With one calling thread the epoch of the stored manifest is the number of
\* successful promote / demote / add_member / remove_member calls.
THEOREM SequentialEpochs ==
    ASSUME NEW t0, Threads = {t0}
    PROVE  Spec => []EpochCountsCommits
  <1>1. SequentialInv => EpochCountsCommits
    BY DEF SequentialInv, EpochCountsCommits
  <1>2. Spec => []SequentialInv
    BY SequentialInvariant
  <1>3. QED
    BY <1>1, <1>2, PTL

\* A step that ends thread t's call and changes the manifest is t's write.
LEMMA WriteStep ==
    ASSUME TypeOK, Next, NEW t \in Threads,
           call[t] # NoCall, call'[t] = NoCall, manifest' # manifest
    PROVE  manifest' = call[t].man
  <1>1. ASSUME NEW t1 \in Threads, NEW caller, NEW outcome, NEW man,
               LoadAndCheck(t1, caller, outcome, man)
        PROVE  FALSE
    BY <1>1 DEF LoadAndCheck, Return
  <1>2. ASSUME NEW t1 \in Threads, NEW now \in Times,
               NEW caller \in Identities, NEW target \in Identities,
               \/ \E r \in Role : \/ promote(t1, caller, target, r, now)
                                 \/ demote(t1, caller, target, r, now)
               \/ add_member(t1, caller, target, now)
               \/ remove_member(t1, caller, target, now)
        PROVE  FALSE
    BY <1>1, <1>2 DEF promote, demote, add_member, remove_member
  <1>3. ASSUME NEW t1 \in Threads, NEW now, NEW label_fits, NEW founders,
               create_group(t1, label_fits, founders, now)
        PROVE  FALSE
    BY <1>3 DEF create_group, Return
  <1>4. ASSUME NEW t1 \in Threads, Persist(t1)
        PROVE  manifest' = call[t].man
    BY <1>4 DEF Persist, TypeOK
  <1>5. CASE Crash
    BY <1>5 DEF Crash
  <1>6. QED
    BY <1>2, <1>3, <1>4, <1>5 DEF Next

\* With one calling thread every change of a member's role, every addition and
\* every removal is made by a caller who, in the manifest being replaced, is an
\* Owner or strictly outranks both the old and the new role.
THEOREM SequentialRank ==
    ASSUME NEW t0, Threads = {t0}
    PROVE  Spec => RankRespected
  <1>1. TypeOK /\ PendingWithinRank /\ SequentialInv /\ [Next]_vars =>
          [ \A t \in Threads :
              (call[t] # NoCall /\ call'[t] = NoCall /\ manifest' # manifest) =>
                  WithinRank(call[t].caller, manifest, manifest') ]_vars
    <2> SUFFICES ASSUME TypeOK, PendingWithinRank, SequentialInv, Next,
                        NEW t \in Threads,
                        call[t] # NoCall, call'[t] = NoCall, manifest' # manifest
                 PROVE  WithinRank(call[t].caller, manifest, manifest')
      OBVIOUS
    <2>1. manifest' = call[t].man
      BY WriteStep
    <2>2. call[t].base = manifest
      BY DEF SequentialInv
    <2>3. QED
      BY <2>1, <2>2 DEF PendingWithinRank
  <1>2. Spec => []SequentialInv
    BY SequentialInvariant
  <1>3. QED
    BY <1>1, <1>2, TypeCorrect, PendingRank, PTL DEF Spec, RankRespected

\* A step changes the stored manifest only by create_group or by a write.
LEMMA ManifestSteps ==
    ASSUME TypeOK, Next, manifest # NoManifest, manifest' # manifest
    PROVE  \E t \in Threads : call[t] # NoCall /\ manifest' = call[t].man
  <1>1. ASSUME NEW t1 \in Threads, NEW caller, NEW outcome, NEW man,
               LoadAndCheck(t1, caller, outcome, man)
        PROVE  FALSE
    BY <1>1 DEF LoadAndCheck, Return
  <1>2. ASSUME NEW t1 \in Threads, NEW now \in Times,
               NEW caller \in Identities, NEW target \in Identities,
               \/ \E r \in Role : \/ promote(t1, caller, target, r, now)
                                 \/ demote(t1, caller, target, r, now)
               \/ add_member(t1, caller, target, now)
               \/ remove_member(t1, caller, target, now)
        PROVE  FALSE
    BY <1>1, <1>2 DEF promote, demote, add_member, remove_member
  <1>3. QED
    BY <1>2 DEF Next, create_group, Persist, Crash

\* Whatever the threads, an Owner comes back to a group that has none only with
\* the write of a call that read another manifest: nobody left outranks that
\* role.
THEOREM NoOwnerComesBack == Spec => NoOwnerIsFinal
  <1>1. TypeOK /\ PendingWithinRank /\ [Next]_vars =>
          [ (manifest # NoManifest /\ ~HasOwner(manifest) /\ HasOwner(manifest')) =>
              \E t \in Threads : /\ call[t] # NoCall
                                 /\ manifest' = call[t].man
                                 /\ call[t].base # manifest ]_vars
    <2> SUFFICES ASSUME TypeOK, PendingWithinRank, Next, manifest # NoManifest,
                        ~HasOwner(manifest), HasOwner(manifest')
                 PROVE  \E t \in Threads : /\ call[t] # NoCall
                                           /\ manifest' = call[t].man
                                           /\ call[t].base # manifest
      OBVIOUS
    <2>1. manifest' # manifest
      OBVIOUS
    <2>2. PICK t \in Threads : call[t] # NoCall /\ manifest' = call[t].man
      BY <2>1, ManifestSteps
    <2>3. ASSUME call[t].base = manifest PROVE FALSE
      <3>1. WithinRank(call[t].caller, manifest, manifest')
        BY <2>2, <2>3 DEF PendingWithinRank
      <3>2. PICK id \in Identities : RoleOf(manifest', id) = "Owner"
        BY DEF HasOwner
      <3>3. RoleOf(manifest, id) # "Owner" /\ RoleOf(manifest, call[t].caller) # "Owner"
        BY <2>2 DEF HasOwner, TypeOK, Call
      <3>4. role_privilege(RoleOf(manifest, call[t].caller)) < role_privilege("Owner")
        BY <3>1, <3>2, <3>3 DEF WithinRank, Outranks
      <3>5. QED
        BY <3>4 DEF role_privilege
    <2>4. QED
      BY <2>2, <2>3
  <1>2. QED
    BY <1>1, TypeCorrect, PendingRank, PTL DEF Spec, NoOwnerIsFinal
====
