---- MODULE GroupManifest ----
(***************************************************************************)
(* The group manifest of zero-messaging and the pure rules that change it: *)
(* the permission table (group/permissions.rs), the checks and the local   *)
(* mutation of promote / demote / add_member / remove_member               *)
(* (group/mod.rs) and the merge rule (group/manifest.rs).                  *)
(*                                                                         *)
(* normalize_members keeps the member Vec sorted by identity with a stable *)
(* sort, so an entry is determined by its identity and by its position     *)
(* among the entries of the same identity: a "slot" <<identity, k>>.       *)
(* create_group does not remove repeated founders, hence the copies; every *)
(* `find` of the code returns copy 1, and remove_member's `retain` drops   *)
(* all copies.                                                             *)
(***************************************************************************)
EXTENDS Integers, FiniteSets

CONSTANTS
    Identities,     \* the identities a manifest may name
    MaxCopies,      \* bound: how often one founder is repeated
    MaxGroupSize    \* MAX_GROUP_SIZE

ASSUME GroupConstants ==
    /\ IsFiniteSet(Identities)
    /\ MaxCopies \in Nat \ {0}
    /\ MaxGroupSize \in Nat \ {0}

Role == {"Owner", "Admin", "Moderator", "Member"}

GroupAction == {"SendMessage", "AddMember", "RemoveMember",
                "PromoteDemoteMod", "PromoteDemoteAdmin", "DeleteGroup"}

Copies == 1 .. MaxCopies
Slots == Identities \X Copies

\* "None" marks a slot that no entry of the Vec occupies.
Members == [Slots -> Role \cup {"None"}]

GroupManifest == [members : Members, mls_epoch : Nat, updated_at : Nat]

RoleOf(man, id) == man.members[<<id, 1>>]
IsMember(man, id) == RoleOf(man, id) # "None"
Occupied(man) == {s \in Slots : man.members[s] # "None"}
GroupSize(man) == Cardinality(Occupied(man))

----------------------------------------------------------------------------
(* permissions.rs *)

PERMISSION_TABLE ==
    [r \in Role |->
        CASE r = "Owner"     -> GroupAction
          [] r = "Admin"     -> {"SendMessage", "AddMember", "RemoveMember",
                                 "PromoteDemoteMod"}
          [] r = "Moderator" -> {"SendMessage", "RemoveMember"}
          [] r = "Member"    -> {"SendMessage"}]

check_permission(actor, action, target) ==
    /\ action \in PERMISSION_TABLE[actor]
    /\ (actor = "Moderator" /\ action = "RemoveMember") => target = "Member"

\* Lower is more privileged; an absent member ranks below everyone.
role_privilege(r) ==
    CASE r = "Owner"     -> 0
      [] r = "Admin"     -> 1
      [] r = "Moderator" -> 2
      [] r = "Member"    -> 3
      [] OTHER           -> 4

\* Mutant: only Admin, not Owner, needs the stronger permission.
action_for_role_change_M(new_role) ==
    IF new_role = "Admin" THEN "PromoteDemoteAdmin" ELSE "PromoteDemoteMod"

action_for_role_change(new_role) ==
    IF new_role \in {"Admin", "Owner"} THEN "PromoteDemoteAdmin"
                                       ELSE "PromoteDemoteMod"

----------------------------------------------------------------------------
(* What each call answers on the manifest it has loaded, its checks taken  *)
(* in the order of the code, and the manifest it goes on to persist.       *)

PromoteCheck(man, caller, target, new_role) ==
    IF ~IsMember(man, caller) \/ ~IsMember(man, target)
    THEN "NotAMember"
    ELSE IF role_privilege(new_role) >= role_privilege(RoleOf(man, target))
    THEN "InvalidManifestUpdate"
    ELSE IF ~check_permission(RoleOf(man, caller),
                              action_for_role_change(new_role),
                              RoleOf(man, target))
    THEN "PermissionDenied"
    ELSE "Ok"

\* Mutant: demote asks for the permission of the new role, as promote does.
DemoteCheck_M(man, caller, target, new_role) ==
    IF ~IsMember(man, caller) \/ ~IsMember(man, target)
    THEN "NotAMember"
    ELSE IF role_privilege(new_role) =< role_privilege(RoleOf(man, target))
    THEN "InvalidManifestUpdate"
    ELSE IF ~check_permission(RoleOf(man, caller),
                              action_for_role_change(new_role),
                              RoleOf(man, target))
    THEN "PermissionDenied"
    ELSE "Ok"

\* Unlike promote, demote asks for the action the target's present role needs.
DemoteCheck(man, caller, target, new_role) ==
    IF ~IsMember(man, caller) \/ ~IsMember(man, target)
    THEN "NotAMember"
    ELSE IF role_privilege(new_role) =< role_privilege(RoleOf(man, target))
    THEN "InvalidManifestUpdate"
    ELSE IF ~check_permission(RoleOf(man, caller),
                              action_for_role_change(RoleOf(man, target)),
                              RoleOf(man, target))
    THEN "PermissionDenied"
    ELSE "Ok"

\* Mutant: off by one at the cap.
AddCheck_M(man, caller, new_member) ==
    IF ~IsMember(man, caller)
    THEN "NotAMember"
    ELSE IF ~check_permission(RoleOf(man, caller), "AddMember", "None")
    THEN "PermissionDenied"
    ELSE IF IsMember(man, new_member)
    THEN "Already"
    ELSE IF GroupSize(man) > MaxGroupSize
    THEN "GroupFull"
    ELSE "Ok"

\* "Already" is the early Ok(()) for an identity that is in the group.
AddCheck(man, caller, new_member) ==
    IF ~IsMember(man, caller)
    THEN "NotAMember"
    ELSE IF ~check_permission(RoleOf(man, caller), "AddMember", "None")
    THEN "PermissionDenied"
    ELSE IF IsMember(man, new_member)
    THEN "Already"
    ELSE IF GroupSize(man) >= MaxGroupSize
    THEN "GroupFull"
    ELSE "Ok"

RemoveCheck(man, caller, target) ==
    IF ~IsMember(man, caller) \/ ~IsMember(man, target)
    THEN "NotAMember"
    ELSE IF \/ ~check_permission(RoleOf(man, caller), "RemoveMember",
                                 RoleOf(man, target))
            \/ /\ RoleOf(man, caller) # "Owner"
               /\ role_privilege(RoleOf(man, caller))
                    >= role_privilege(RoleOf(man, target))
    THEN "PermissionDenied"
    ELSE "Ok"

\* The tail every mutation shares: epoch + 1, new timestamp, normalised members.
Commit(man, members, now) ==
    [members |-> members, mls_epoch |-> man.mls_epoch + 1, updated_at |-> now]

\* promote and demote assign the role of the first matching entry only.
WithRole(man, target, new_role) ==
    [man.members EXCEPT ![<<target, 1>>] = new_role]

\* push of one entry for an identity that has none.
WithMember(man, new_member) == WithRole(man, new_member, "Member")

\* members.retain(|m| m.identity_id != target)
Without(man, target) ==
    [s \in Slots |-> IF s[1] = target THEN "None" ELSE man.members[s]]

\* Mutant: a new group starts at epoch 1.
NewGroup_M(copies, now) ==
    [members    |-> [s \in Slots |-> IF s[2] =< copies[s[1]] THEN "Owner"
                                                            ELSE "None"],
     mls_epoch  |-> 1,
     updated_at |-> now]

\* create_group: one Owner entry per element of the founders slice.
NewGroup(copies, now) ==
    [members    |-> [s \in Slots |-> IF s[2] =< copies[s[1]] THEN "Owner"
                                                            ELSE "None"],
     mls_epoch  |-> 0,
     updated_at |-> now]

\* Mutant: the later update wins before the epochs are compared.
merge_manifest_Time(a, b) ==
    IF b.updated_at > a.updated_at THEN b ELSE a

\* Mutant: an equal epoch keeps what is there.
merge_manifest_Epoch(a, b) == IF b.mls_epoch > a.mls_epoch THEN b ELSE a

merge_manifest(a, b) ==
    IF a.mls_epoch > b.mls_epoch THEN a
    ELSE IF b.mls_epoch > a.mls_epoch THEN b
         ELSE IF b.updated_at > a.updated_at THEN b ELSE a

\* The other merge function of manifest.rs; the sort of the winner's members at
\* its end is in the representation.
merge_manifests(a, b) ==
    IF a.mls_epoch > b.mls_epoch THEN a
    ELSE IF b.mls_epoch > a.mls_epoch THEN b
         ELSE IF a.updated_at >= b.updated_at THEN a ELSE b
====
