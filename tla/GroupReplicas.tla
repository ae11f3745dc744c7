---- MODULE GroupReplicas ----
(***************************************************************************)
(* Copies of one group's manifest on several machines, each changed by the *)
(* calls of group/mod.rs against the machine's own database and reconciled *)
(* by merge_manifest (group/manifest.rs).                                  *)
(*                                                                         *)
(* How manifests travel is left to the application: a machine may obtain   *)
(* any other machine's manifest at any time.  Calls are atomic here; what  *)
(* their interleaving on one machine can do is in GroupService.            *)
(***************************************************************************)
EXTENDS GroupManifest

CONSTANTS
    Replicas,       \* machines that hold the group
    ClockOf,        \* ClockOf[r]: readings of now_ms() on machine r
    CreatedAt,      \* the reading at create_group
    MaxEpoch        \* bound: the epochs explored

ASSUME ReplicaConstants ==
    /\ ClockOf \in [Replicas -> SUBSET Nat]
    /\ CreatedAt \in Nat
    /\ MaxEpoch \in Nat

VARIABLE man        \* man[r]: the manifest in CF_GROUPS of machine r

TypeOK == man \in [Replicas -> GroupManifest]

\* The founders' machine has handed its new manifest to all others.
Init ==
    \E founders \in [Identities -> 0 .. MaxCopies] :
        man = [r \in Replicas |-> NewGroup(founders, CreatedAt)]

----------------------------------------------------------------------------

\* A call that passes its checks on r's manifest.
Change(r, outcome, members) ==
    /\ outcome = "Ok"
    /\ man[r].mls_epoch < MaxEpoch
    /\ \E now \in ClockOf[r] :
          man' = [man EXCEPT ![r] = Commit(man[r], members, now)]

promote(r, caller, target, new_role) ==
    Change(r, PromoteCheck(man[r], caller, target, new_role),
           WithRole(man[r], target, new_role))

demote(r, caller, target, new_role) ==
    Change(r, DemoteCheck(man[r], caller, target, new_role),
           WithRole(man[r], target, new_role))

add_member(r, caller, new_member) ==
    Change(r, AddCheck(man[r], caller, new_member), WithMember(man[r], new_member))

remove_member(r, caller, target) ==
    Change(r, RemoveCheck(man[r], caller, target), Without(man[r], target))

\* r persists the merge of its own manifest and q's.
Reconcile(r, q) == man' = [man EXCEPT ![r] = merge_manifest(man[r], man[q])]

Next ==
    \/ \E r \in Replicas, caller, target \in Identities :
        \/ \E new_role \in Role :
            \/ promote(r, caller, target, new_role)
            \/ demote(r, caller, target, new_role)
        \/ add_member(r, caller, target)
        \/ remove_member(r, caller, target)
    \/ \E r, q \in Replicas : Reconcile(r, q)

Spec == Init /\ [][Next]_man

\* Every machine keeps hearing from every other one.
FairSpec == Spec /\ \A r, q \in Replicas : WF_man(Reconcile(r, q))

----------------------------------------------------------------------------
(* Properties *)

\* "Deterministic and commutative": two machines that merge each other's
\* manifests agree on the result, whichever of the two functions they call.
MergeCommutes ==
    \A r, q \in Replicas :
        /\ merge_manifest(man[r], man[q]) = merge_manifest(man[q], man[r])
        /\ merge_manifests(man[r], man[q]) = merge_manifest(man[q], man[r])

\* (epoch, updated_at), compared as merge_manifest does.
Newer(a, b) ==
    \/ a.mls_epoch > b.mls_epoch
    \/ a.mls_epoch = b.mls_epoch /\ a.updated_at > b.updated_at

\* No machine falls back to an older manifest, also when its clock runs behind
\* the others': a change outdates what it was made from, a merge keeps the
\* newer of the two.
VersionsAdvance ==
    [][ \A r \in Replicas : man'[r] # man[r] => Newer(man'[r], man[r]) ]_man

\* Once nobody changes the group any more, all machines come to hold the same
\* manifest.
Converges == <>[](\A r, q \in Replicas : man[r] = man[q])
====
