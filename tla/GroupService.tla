---- MODULE GroupService ----
(***************************************************************************)
(* The group lifecycle calls of zero-messaging (group/mod.rs) on the one   *)
(* manifest a group has in CF_GROUPS.                                      *)
(*                                                                         *)
(* Every mutating call is get_manifest, checks, a change of the local      *)
(* copy, put_raw; the functions take a shared Arc<ZeroDb> and no lock is   *)
(* held from the read to the write.  A call is therefore two steps of the  *)
(* thread that makes it: the read with everything computed from it, and    *)
(* the write.  With one thread the two are adjacent and the calls are      *)
(* atomic; with more they interleave.                                      *)
(***************************************************************************)
EXTENDS GroupManifest

CONSTANTS
    Threads,        \* threads that call into the library
    Times,          \* readings of now_ms()
    MaxCommits,     \* bound: successful writes explored
    NoManifest,     \* CF_GROUPS has no value under the group's key
    NoCall          \* the thread is between calls

ASSUME ServiceConstants ==
    /\ Times \subseteq Nat
    /\ MaxCommits \in Nat
    /\ NoManifest \notin GroupManifest

\* A call that passed its checks: who makes it, what it read, what it will
\* put.  The code keeps only `man`; the properties compare it with `base`.
Call == [caller : Identities, base : GroupManifest, man : GroupManifest]

ASSUME NoCallIsNoCall == NoCall \notin Call

Outcome == {"Ok", "Already", "GroupNotFound", "NameTooLong", "NotAMember",
            "InvalidManifestUpdate", "PermissionDenied", "GroupFull"}

VARIABLES
    manifest,   \* the manifest in CF_GROUPS, or NoManifest
    call,       \* call[t]: the local copy thread t is about to persist
    ret,        \* ret[t]: what t's last finished call returned
    commits,    \* history: calls that returned Ok after a write
    born        \* history: the number of entries create_group wrote

vars == <<manifest, call, ret, commits, born>>

TypeOK ==
    /\ manifest \in GroupManifest \cup {NoManifest}
    /\ call \in [Threads -> Call \cup {NoCall}]
    /\ ret \in [Threads -> Outcome]
    /\ commits \in Nat
    /\ born \in Nat

Init ==
    /\ manifest = NoManifest
    /\ call = [t \in Threads |-> NoCall]
    /\ ret = [t \in Threads |-> "Ok"]
    /\ commits = 0
    /\ born = 0

----------------------------------------------------------------------------

Return(t, outcome) ==
    /\ ret' = [ret EXCEPT ![t] = outcome]
    /\ UNCHANGED <<manifest, call, commits, born>>

\* create_group: the key is a fresh UUID, so nothing is read and nothing is
\* overwritten.  founders[i] is how often identity i is in the slice.
create_group(t, label_fits, founders, now) ==
    /\ call[t] = NoCall
    /\ manifest = NoManifest
    /\ \/ /\ ~label_fits
          /\ Return(t, "NameTooLong")
       \/ /\ label_fits
          /\ manifest' = NewGroup(founders, now)
          /\ born' = GroupSize(manifest')
          /\ ret' = [ret EXCEPT ![t] = "Ok"]
          /\ UNCHANGED <<call, commits>>

\* The first half of a mutating call: get_manifest, then the checks on what
\* it returned; the local copy is kept for the write, or the call returns.
LoadAndCheck(t, caller, outcome, man) ==
    /\ call[t] = NoCall
    /\ \/ /\ manifest = NoManifest
          /\ Return(t, "GroupNotFound")
       \/ /\ manifest # NoManifest
          /\ outcome # "Ok"
          /\ Return(t, outcome)
       \/ /\ manifest # NoManifest
          /\ outcome = "Ok"
          /\ commits < MaxCommits
          /\ call' = [call EXCEPT ![t] =
                        [caller |-> caller, base |-> manifest, man |-> man]]
          /\ UNCHANGED <<manifest, ret, commits, born>>

promote(t, caller, target, new_role, now) ==
    LoadAndCheck(t, caller,
                 PromoteCheck(manifest, caller, target, new_role),
                 Commit(manifest, WithRole(manifest, target, new_role), now))

demote(t, caller, target, new_role, now) ==
    LoadAndCheck(t, caller,
                 DemoteCheck(manifest, caller, target, new_role),
                 Commit(manifest, WithRole(manifest, target, new_role), now))

add_member(t, caller, new_member, now) ==
    LoadAndCheck(t, caller,
                 AddCheck(manifest, caller, new_member),
                 Commit(manifest, WithMember(manifest, new_member), now))

remove_member(t, caller, target, now) ==
    LoadAndCheck(t, caller,
                 RemoveCheck(manifest, caller, target),
                 Commit(manifest, Without(manifest, target), now))

\* The second half: put_raw of the local copy, then Ok(()).
Persist(t) ==
    /\ call[t] # NoCall
    /\ manifest' = call[t].man
    /\ call' = [call EXCEPT ![t] = NoCall]
    /\ ret' = [ret EXCEPT ![t] = "Ok"]
    /\ commits' = commits + 1
    /\ UNCHANGED born

\* The process stops: local copies are lost, CF_GROUPS survives.
Crash ==
    /\ \E t \in Threads : call[t] # NoCall
    /\ call' = [t \in Threads |-> NoCall]
    /\ UNCHANGED <<manifest, ret, commits, born>>

Next ==
    \/ \E t \in Threads, now \in Times :
        \/ \E label_fits \in BOOLEAN, founders \in [Identities -> 0 .. MaxCopies] :
                create_group(t, label_fits, founders, now)
        \/ \E caller, target \in Identities :
            \/ \E new_role \in Role :
                \/ promote(t, caller, target, new_role, now)
                \/ demote(t, caller, target, new_role, now)
            \/ add_member(t, caller, target, now)
            \/ remove_member(t, caller, target, now)
    \/ \E t \in Threads : Persist(t)
    \/ Crash

Spec == Init /\ [][Next]_vars

----------------------------------------------------------------------------
(* Properties *)

\* A caller of rank r may move an entry from role a to role b only if it is
\* an Owner or outranks both roles strictly.
Outranks(man, caller, a, b) ==
    \/ RoleOf(man, caller) = "Owner"
    \/ /\ role_privilege(RoleOf(man, caller)) < role_privilege(a)
       /\ role_privilege(RoleOf(man, caller)) < role_privilege(b)

\* Every change of an identity's role between the manifest `seen` and the
\* manifest `new` is one the caller's rank in `seen` allows.  The role of an
\* identity is that of its first entry, the one every `find` returns.
WithinRank(caller, seen, new) ==
    \A id \in Identities :
        RoleOf(seen, id) # RoleOf(new, id) =>
            Outranks(seen, caller, RoleOf(seen, id), RoleOf(new, id))

\* What the table, the Moderator special case and the direction checks amount
\* to together: relative to the manifest a call has read, the copy it is about
\* to persist changes only entries its caller outranks, in their old and in
\* their new role.  Holds for any number of threads.
PendingWithinRank ==
    \A t \in Threads :
        call[t] # NoCall =>
            WithinRank(call[t].caller, call[t].base, call[t].man)

\* No sequence of adds, also from several threads that each saw room for one
\* more, takes a group past the larger of MAX_GROUP_SIZE and the number of
\* founders it was created with.
SizeBounded ==
    manifest # NoManifest =>
        \/ GroupSize(manifest) =< MaxGroupSize
        \/ GroupSize(manifest) =< born

\* The epoch never runs ahead of the commits that callers were told of.
EpochWithinCommits ==
    manifest # NoManifest => manifest.mls_epoch =< commits

\* "On success the manifest epoch is incremented and persisted": as many
\* epochs as successful calls.
EpochCountsCommits ==
    manifest # NoManifest => manifest.mls_epoch = commits

\* Every change of the stored manifest is within the rank its maker has in
\* the manifest it replaces.
RankRespected ==
    [][ \A t \in Threads :
          (call[t] # NoCall /\ call'[t] = NoCall /\ manifest' # manifest) =>
              WithinRank(call[t].caller, manifest, manifest') ]_vars

HasOwner(man) == \E id \in Identities : RoleOf(man, id) = "Owner"

\* A group that has lost its last Owner never gets one again, whatever the
\* remaining Admins do; only the write of a call that read another manifest,
\* one that still had an Owner, can bring one back.
NoOwnerIsFinal ==
    [][ (manifest # NoManifest /\ ~HasOwner(manifest) /\ HasOwner(manifest')) =>
            \E t \in Threads :
                /\ call[t] # NoCall
                /\ manifest' = call[t].man
                /\ call[t].base # manifest ]_vars
====
