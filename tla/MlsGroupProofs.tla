---- MODULE MlsGroupProofs ----
(***************************************************************************)
(* Safety of MlsGroup for any members, founders and numbers of key         *)
(* packages, commits, texts and restarts.                                  *)
(*                                                                         *)
(* A history is a path through commits that are in `net`, and a signature  *)
(* key commits at most once from each history: two histories part where    *)
(* two members committed, and nowhere else.                                *)
(***************************************************************************)
EXTENDS MlsGroup, WellFoundedInduction, TLAPS

\* The signature keys made so far.
Known == {s \in Signer : s[2] =< lives[s[1]]}

\* The histories that a device has or that a message carries.
Around == {group[m] : m \in {x \in Members : group[x] # NoGroup}}
          \cup {msg.history : msg \in net}

MlsTypes ==
    /\ lives \in [Members -> Nat \ {0}]
    /\ signer \in [Members -> Signer]
    /\ \A m \in Members : signer[m][1] = m /\ signer[m] \in Known
    /\ \A kp \in packages : kp.signer \in Known
    /\ provider \in [Members -> SUBSET packages]
    /\ used \in [Members -> SUBSET net]
    /\ group \in [Members -> History \cup {NoGroup}]
    /\ \A msg \in net :
          /\ msg.kind \in {"commit", "welcome", "text"}
          /\ msg.history \in History
          /\ msg.kind # "welcome" => msg.by \in Known
          /\ msg.kind = "commit" => msg.adds \in Known

\* Every entry of a history but the first was committed on the ones before it.
HistoryOK(h) ==
    /\ h \in History
    /\ Tree(h) \subseteq Known
    /\ \A n \in 1 .. Len(h) - 1 :
          \E c \in Commits : /\ c.history = SubSeq(h, 1, n)
                             /\ c.by = h[n + 1].by /\ c.adds = h[n + 1].adds

HistoriesOK == \A h \in Around : HistoryOK(h)

OneRoot == \A g, h \in Around : g[1] = h[1]

InOwnTree == \A m \in Members : group[m] # NoGroup => signer[m] \in Tree(group[m])

\* Whoever committed on a history has left it, and so commits on it once.
CommitsOK ==
    /\ \A c \in Commits, m \in Members :
          c.by = signer[m] => group[m] # NoGroup /\ Len(group[m]) > Len(c.history)
    /\ \A c, d \in Commits :
          c.history = d.history /\ c.by = d.by => c.adds = d.adds

PackagesOK == \A m \in Members : \A kp \in provider[m] : kp.signer = signer[m]

WelcomesOK == \A w \in net : w.kind = "welcome" => w.package.signer \in Tree(w.history)

UsedOK == \A m \in Members : \A t \in used[m] : group[m] # NoGroup /\ t.history = group[m]

MlsInv ==
    /\ MlsTypes
    /\ HistoriesOK
    /\ OneRoot
    /\ InOwnTree
    /\ CommitsOK
    /\ PackagesOK
    /\ WelcomesOK
    /\ UsedOK

----------------------------------------------------------------------------
(* Facts about numbers and histories *)

\* The least number principle, for sets.
LEMMA LeastNumber ==
    ASSUME NEW T \in SUBSET Nat, T # {}
    PROVE  \E n \in T : \A k \in T : n =< k
  <1>. DEFINE R == {ss \in Nat \X Nat : ss[1] < ss[2]}
  <1>1. IsWellFoundedOn(R, Nat)
    BY NatLessThanWellFounded, Zenon DEF OpToRel
  <1>2. PICK n \in T : \A k \in T : ~(<<k, n>> \in R)
    <2>. HIDE DEF R
    <2>. QED
      BY <1>1, WFMin
  <1>3. ASSUME NEW k \in T
        PROVE  n =< k
    <2>1. <<k, n>> \in Nat \X Nat /\ <<k, n>>[1] = k /\ <<k, n>>[2] = n
      OBVIOUS
    <2>2. ~(k < n)
      BY <1>2, <2>1
    <2>. QED
      BY <2>2
  <1>. QED
    BY <1>3

\* One more commit.
LEMMA AppendHistory ==
    ASSUME NEW h \in History, NEW e \in [by : Signer, adds : Signer]
    PROVE  /\ Append(h, e) \in History
           /\ Len(h) \in Nat \ {0}
           /\ Len(Append(h, e)) = Len(h) + 1
           /\ Append(h, e)[1] = h[1]
           /\ Append(h, e)[Len(h) + 1] = e
           /\ \A i \in 1 .. Len(h) : Append(h, e)[i] = h[i]
           /\ \A n \in 1 .. Len(h) : SubSeq(Append(h, e), 1, n) = SubSeq(h, 1, n)
           /\ SubSeq(h, 1, Len(h)) = h
           /\ Tree(Append(h, e)) = Tree(h) \cup {e.adds}
  <1>. DEFINE E == [by : Signer, adds : Signer]
  <1>1. h \in Seq(E) /\ h # <<>>
    BY DEF History
  <1>. HIDE DEF E
  <1>2. e \in E
    BY DEF E
  <1>3. /\ Append(h, e) \in Seq(E) /\ Append(h, e) # <<>>
        /\ Len(h) \in Nat \ {0} /\ Len(Append(h, e)) = Len(h) + 1
        /\ Append(h, e)[1] = h[1]
        /\ Append(h, e)[Len(h) + 1] = e
        /\ \A i \in 1 .. Len(h) : Append(h, e)[i] = h[i]
    BY <1>1, <1>2
  <1>4. /\ \A n \in 1 .. Len(h) : SubSeq(Append(h, e), 1, n) = SubSeq(h, 1, n)
        /\ SubSeq(h, 1, Len(h)) = h
    BY <1>1, <1>2
  <1>5. Tree(Append(h, e)) = Tree(h) \cup {e.adds}
    <2>1. DOMAIN h = 1 .. Len(h) /\ DOMAIN Append(h, e) = 1 .. Len(h) + 1
      BY <1>1, <1>2, <1>3
    <2>. QED
      BY <1>3, <2>1 DEF Tree
  <1>. QED
    BY <1>3, <1>4, <1>5 DEF History, E

----------------------------------------------------------------------------
(* Histories stay explained by commits *)

\* A history stays explained while keys and messages are only added.
LEMMA OldHistory ==
    ASSUME NEW h, HistoryOK(h), Known \subseteq Known', net \subseteq net'
    PROVE  HistoryOK(h)'
  <1>1. Tree(h)' = Tree(h) /\ h \in History
    BY DEF HistoryOK, Tree
  <1>2. Commits \subseteq Commits'
    BY DEF Commits
  <1>. QED
    BY <1>1, <1>2 DEF HistoryOK

\* One more entry, which a commit explains.
LEMMA LongerHistory ==
    ASSUME NEW h, NEW e \in [by : Signer, adds : Signer], NEW c \in net',
           HistoryOK(h), Known \subseteq Known', net \subseteq net',
           e.adds \in Known, c.kind = "commit", c.history = h,
           c.by = e.by, c.adds = e.adds
    PROVE  HistoryOK(Append(h, e))'
  <1>0. HistoryOK(h)'
    BY OldHistory
  <1>1. HistoryOK(h)' /\ h \in History
    BY <1>0 DEF HistoryOK
  <1>2. PICK g : g = Append(h, e)
    OBVIOUS
  <1>3. /\ g \in History
        /\ Len(h) \in Nat \ {0}
        /\ Len(g) = Len(h) + 1
        /\ g[Len(h) + 1] = e
        /\ \A i \in 1 .. Len(h) : g[i] = h[i]
        /\ \A n \in 1 .. Len(h) : SubSeq(g, 1, n) = SubSeq(h, 1, n)
        /\ SubSeq(h, 1, Len(h)) = h
        /\ Tree(g) = Tree(h) \cup {e.adds}
    BY <1>1, <1>2, AppendHistory
  <1>4. Tree(g) \subseteq Known'
    <2>1. Tree(h) \subseteq Known
      BY DEF HistoryOK
    <2>. QED
      BY <1>3, <2>1
  <1>5. ASSUME NEW n \in 1 .. Len(g) - 1
        PROVE  \E d \in Commits' : /\ d.history = SubSeq(g, 1, n)
                                   /\ d.by = g[n + 1].by /\ d.adds = g[n + 1].adds
    <2>1. CASE n = Len(h)
      BY <2>1, <1>3 DEF Commits
    <2>2. CASE n # Len(h)
      <3>0. n \in 1 .. Len(h) /\ Len(h) \in Nat
        BY <1>3
      <3>1. n \in 1 .. Len(h) - 1 /\ n \in 1 .. Len(h) /\ n + 1 \in 1 .. Len(h)
        BY <2>2, <3>0
      <3>2. PICK d \in Commits' : /\ d.history = SubSeq(h, 1, n)
                                  /\ d.by = h[n + 1].by /\ d.adds = h[n + 1].adds
        BY <1>1, <3>1 DEF HistoryOK
      <3>. QED
        BY <3>1, <3>2, <1>3
    <2>. QED
      BY <2>1, <2>2
  <1>6. HistoryOK(g)'
    <2>1. Tree(g)' = Tree(g)
      BY DEF Tree
    <2>. QED
      BY <1>3, <1>4, <1>5, <2>1 DEF HistoryOK
  <1>. QED
    BY <1>6, <1>2

\* What a step has to show of the histories that are around after it.
LEMMA HistoriesStep ==
    ASSUME HistoriesOK, OneRoot, Known \subseteq Known', net \subseteq net',
           \A h \in Around' :
              h \in Around \/ (HistoryOK(h)' /\ \E g \in Around : h[1] = g[1])
    PROVE  HistoriesOK' /\ OneRoot'
  <1>1. ASSUME NEW h \in Around'
        PROVE  HistoryOK(h)' /\ \E g \in Around : h[1] = g[1]
    <2>1. CASE h \in Around
      BY <2>1, OldHistory DEF HistoriesOK
    <2>. QED
      BY <2>1
  <1>2. HistoriesOK'
    BY <1>1 DEF HistoriesOK
  <1>3. OneRoot'
    <2>1. ASSUME NEW g \in Around', NEW h \in Around'
          PROVE  g[1] = h[1]
      BY <1>1 DEF OneRoot
    <2>. QED
      BY <2>1 DEF OneRoot
  <1>. QED
    BY <1>2, <1>3

\* MlsMember::new makes a signature key that nobody had.
LEMMA FreshSigner ==
    ASSUME MlsTypes, NEW m \in Members, MlsMember_new(m)
    PROVE  /\ lives' \in [Members -> Nat \ {0}]
           /\ Known \subseteq Known'
           /\ <<m, lives'[m]>> \in Signer
           /\ <<m, lives'[m]>> \in Known'
           /\ <<m, lives'[m]>> \notin Known
  <1>1. /\ lives \in [Members -> Nat \ {0}]
        /\ lives' = [lives EXCEPT ![m] = @ + 1]
    BY DEF MlsTypes, MlsMember_new
  <1>2. /\ lives' \in [Members -> Nat \ {0}]
        /\ lives'[m] = lives[m] + 1
        /\ \A o \in Members : lives[o] =< lives'[o]
    BY <1>1
  <1>3. Known \subseteq Known'
    <2>1. ASSUME NEW s \in Signer, s[2] =< lives[s[1]]
          PROVE  s[2] =< lives'[s[1]]
      <3>1. s[1] \in Members /\ s[2] \in Nat
        BY DEF Signer
      <3>2. lives[s[1]] =< lives'[s[1]] /\ lives[s[1]] \in Nat /\ lives'[s[1]] \in Nat
        BY <3>1, <1>1, <1>2
      <3>. QED
        BY <2>1, <3>1, <3>2
    <2>. QED
      BY <2>1 DEF Known
  <1>4. <<m, lives'[m]>> \in Signer
    BY <1>2 DEF Signer
  <1>. QED
    BY <1>1, <1>2, <1>3, <1>4 DEF Known

----------------------------------------------------------------------------
(* The actions *)

\* A step that touches key packages only, and may make signature keys.
LEMMA PackageStep ==
    ASSUME MlsInv,
           lives' \in [Members -> Nat \ {0}], Known \subseteq Known',
           packages \subseteq packages', provider' \in [Members -> SUBSET packages'],
           \A kp \in packages' : kp.signer \in Known',
           \A m \in Members : \A kp \in provider'[m] : kp.signer = signer[m],
           UNCHANGED <<signer, group, used, net>>
    PROVE  MlsInv'
  <1>1. MlsTypes'
    <2>1. MlsTypes
      BY DEF MlsInv
    <2>. QED
      BY <2>1 DEF MlsTypes
  <1>2. HistoriesOK' /\ OneRoot'
    <2>1. Around' = Around
      BY DEF Around
    <2>2. HistoriesOK /\ OneRoot
      BY DEF MlsInv
    <2>. QED
      BY <2>1, <2>2, HistoriesStep
  <1>3. (InOwnTree /\ CommitsOK /\ WelcomesOK /\ UsedOK)'
    BY DEF MlsInv, InOwnTree, CommitsOK, Commits, WelcomesOK, UsedOK, Tree
  <1>4. PackagesOK'
    BY DEF PackagesOK
  <1>. QED
    BY <1>1, <1>2, <1>3, <1>4 DEF MlsInv

LEMMA KeyPackageStep ==
    ASSUME MlsInv, NEW m \in Members, key_package(m)
    PROVE  MlsInv'
  <1>. DEFINE own == {kp \in packages : kp.signer = signer[m]}
  <1>1. PICK k : k = KeyPackage(signer[m], Cardinality(own) + 1)
    OBVIOUS
  <1>2. /\ packages' = packages \cup {k}
        /\ provider' = [provider EXCEPT ![m] = @ \cup {k}]
        /\ UNCHANGED <<lives, signer, group, used, net>>
    BY <1>1 DEF key_package
  <1>3. k.signer = signer[m]
    BY <1>1 DEF KeyPackage
  <1>. HIDE DEF own
  <1>4. MlsTypes /\ PackagesOK
    BY DEF MlsInv
  <1>5. Known' = Known
    BY <1>2 DEF Known
  <1>6. provider' \in [Members -> SUBSET packages']
    BY <1>2, <1>4 DEF MlsTypes
  <1>7. \A kp \in packages' : kp.signer \in Known'
    BY <1>2, <1>3, <1>4, <1>5 DEF MlsTypes
  <1>8. ASSUME NEW o \in Members, NEW kp \in provider'[o]
        PROVE  kp.signer = signer[o]
    BY <1>2, <1>3, <1>4, <1>8 DEF MlsTypes, PackagesOK
  <1>9. lives' \in [Members -> Nat \ {0}]
    BY <1>2, <1>4 DEF MlsTypes
  <1>. QED
    BY <1>2, <1>5, <1>6, <1>7, <1>8, <1>9, PackageStep

LEMMA GenerateKeyPackageStep ==
    ASSUME MlsInv, NEW m \in Members, generate_key_package(m)
    PROVE  MlsInv'
  <1>1. MlsTypes /\ PackagesOK
    BY DEF MlsInv
  <1>2. PICK k : k = KeyPackage(<<m, lives'[m]>>, 1)
    OBVIOUS
  <1>3. /\ MlsMember_new(m)
        /\ packages' = packages \cup {k}
        /\ UNCHANGED <<signer, provider, group, used, net>>
    BY <1>2 DEF generate_key_package
  <1>4. /\ lives' \in [Members -> Nat \ {0}]
        /\ Known \subseteq Known'
        /\ <<m, lives'[m]>> \in Known'
    BY <1>1, <1>3, FreshSigner
  <1>5. k.signer \in Known'
    BY <1>2, <1>4 DEF KeyPackage
  <1>6. \A kp \in packages' : kp.signer \in Known'
    BY <1>1, <1>3, <1>4, <1>5 DEF MlsTypes
  <1>7. provider' \in [Members -> SUBSET packages']
    BY <1>1, <1>3 DEF MlsTypes
  <1>8. \A o \in Members : \A kp \in provider'[o] : kp.signer = signer[o]
    BY <1>1, <1>3 DEF PackagesOK
  <1>. QED
    BY <1>3, <1>4, <1>6, <1>7, <1>8, PackageStep

LEMMA CreateGroupStep ==
    ASSUME MlsInv, NEW m \in Members, create_group(m)
    PROVE  MlsInv'
  <1>1. MlsTypes /\ PackagesOK /\ UsedOK
    BY DEF MlsInv
  <1>2. PICK e : e = [by |-> signer[m], adds |-> signer[m]]
    OBVIOUS
  <1>3. PICK h : h = <<e>>
    OBVIOUS
  <1>4. /\ \A o \in Members : group[o] = NoGroup
        /\ net = {} /\ net' = {}
        /\ group' = [group EXCEPT ![m] = h]
        /\ UNCHANGED <<lives, signer, provider, used, packages>>
    BY <1>2, <1>3 DEF create_group
  <1>5. e \in [by : Signer, adds : Signer] /\ e.adds = signer[m]
    BY <1>1, <1>2 DEF MlsTypes
  <1>6. h \in History /\ Len(h) = 1 /\ Tree(h) = {signer[m]}
    <2>1. h \in Seq([by : Signer, adds : Signer]) /\ h # <<>> /\ Len(h) = 1 /\ h[1] = e
      BY <1>3, <1>5
    <2>2. DOMAIN h = {1}
      BY <1>3
    <2>. QED
      BY <1>5, <2>1, <2>2 DEF History, Tree
  <1>7. /\ group'[m] = h /\ h # NoGroup
        /\ \A o \in Members \ {m} : group'[o] = NoGroup
        /\ Around' = {h}
    BY <1>1, <1>4, <1>6, NoGroupIsNone DEF MlsTypes, Around
  <1>8. Known' = Known
    BY <1>4 DEF Known
  <1>9. MlsTypes'
    BY <1>1, <1>4, <1>6, <1>8 DEF MlsTypes
  <1>10. HistoriesOK'
    <2>1. Tree(h) \subseteq Known
      BY <1>1, <1>6 DEF MlsTypes
    <2>2. HistoryOK(h)'
      <3>1. Tree(h)' = Tree(h)
        BY DEF Tree
      <3>. QED
        BY <1>6, <1>8, <2>1, <3>1 DEF HistoryOK
    <2>. QED
      BY <1>7, <2>2 DEF HistoriesOK
  <1>11. OneRoot'
    BY <1>7 DEF OneRoot
  <1>12. InOwnTree'
    <2>1. ASSUME NEW o \in Members, group'[o] # NoGroup
          PROVE  signer'[o] \in Tree(group'[o])
      BY <1>4, <1>6, <1>7, <2>1
    <2>. QED
      BY <2>1 DEF InOwnTree, Tree
  <1>13. (CommitsOK /\ WelcomesOK)'
    BY <1>4 DEF CommitsOK, Commits, WelcomesOK
  <1>14. PackagesOK'
    BY <1>1, <1>4 DEF PackagesOK
  <1>15. UsedOK'
    BY <1>1, <1>4 DEF UsedOK
  <1>. QED
    BY <1>9, <1>10, <1>11, <1>12, <1>13, <1>14, <1>15 DEF MlsInv

\* What merging a commit does to the device m that merges it, whoever made it.
LEMMA MergeCommit ==
    ASSUME MlsInv, NEW m \in Members, NEW h \in History,
           NEW e \in [by : Signer, adds : Signer],
           group[m] = h, h # NoGroup,
           group' = [group EXCEPT ![m] = Append(h, e)],
           used' = [used EXCEPT ![m] = {}],
           UNCHANGED signer, net \subseteq net'
    PROVE  /\ group' \in [Members -> History \cup {NoGroup}]
           /\ used' \in [Members -> SUBSET net']
           /\ group'[m] = Append(h, e) /\ group'[m] # NoGroup
           /\ \A o \in Members \ {m} : group'[o] = group[o] /\ used'[o] = used[o]
           /\ Len(group'[m]) = Len(h) + 1 /\ Len(h) \in Nat
           /\ InOwnTree' /\ UsedOK'
           /\ \A c \in Commits, o \in Members :
                 c.by = signer[o] => group'[o] # NoGroup /\ Len(group'[o]) > Len(c.history)
  <1>1. MlsTypes /\ InOwnTree /\ UsedOK /\ CommitsOK
    BY DEF MlsInv
  <1>2. PICK g : g = Append(h, e)
    OBVIOUS
  <1>3. g \in History /\ Len(h) \in Nat /\ Len(g) = Len(h) + 1 /\ Tree(g) = Tree(h) \cup {e.adds}
    BY <1>2, AppendHistory
  <1>4. g # NoGroup
    BY <1>3, NoGroupIsNone
  <1>5. /\ group' \in [Members -> History \cup {NoGroup}]
        /\ used' \in [Members -> SUBSET net']
        /\ group'[m] = g /\ used'[m] = {}
        /\ \A o \in Members \ {m} : group'[o] = group[o] /\ used'[o] = used[o]
    BY <1>1, <1>2, <1>3 DEF MlsTypes
  <1>6. InOwnTree'
    <2>1. ASSUME NEW o \in Members, group'[o] # NoGroup
          PROVE  signer'[o] \in Tree(group'[o])
      BY <1>1, <1>3, <1>5, <2>1 DEF InOwnTree
    <2>. QED
      BY <2>1 DEF InOwnTree, Tree
  <1>7. UsedOK'
    <2>1. ASSUME NEW o \in Members, NEW t \in used'[o]
          PROVE  group'[o] # NoGroup /\ t.history = group'[o]
      BY <1>1, <1>5, <2>1 DEF UsedOK
    <2>. QED
      BY <2>1 DEF UsedOK
  <1>9. ASSUME NEW c \in Commits, NEW o \in Members, c.by = signer[o]
        PROVE  group'[o] # NoGroup /\ Len(group'[o]) > Len(c.history)
    <2>1. group[o] # NoGroup /\ Len(group[o]) > Len(c.history)
      BY <1>1, <1>9 DEF CommitsOK
    <2>2. Len(c.history) \in Nat
      BY <1>1 DEF MlsTypes, Commits, History
    <2>3. CASE o = m
      <3>1. Len(g) > Len(c.history)
        BY <1>3, <2>1, <2>2, <2>3
      <3>. QED
        BY <1>4, <1>5, <2>3, <3>1
    <2>. QED
      BY <1>5, <2>1, <2>3
  <1>. QED
    BY <1>2, <1>3, <1>4, <1>5, <1>6, <1>7, <1>9

LEMMA AddMemberStep ==
    ASSUME MlsInv, NEW m \in Members, NEW kp \in packages, add_member(m, kp)
    PROVE  MlsInv'
  <1>1. MlsTypes /\ HistoriesOK /\ OneRoot /\ CommitsOK /\ PackagesOK /\ WelcomesOK
    BY DEF MlsInv
  <1>2. PICK h : h = group[m]
    OBVIOUS
  <1>3. PICK e : e = [by |-> signer[m], adds |-> kp.signer]
    OBVIOUS
  <1>4. PICK g : g = Append(h, e)
    OBVIOUS
  <1>5. PICK c : c = [kind |-> "commit", history |-> h, by |-> signer[m], adds |-> kp.signer]
    OBVIOUS
  <1>6. PICK w : w = [kind |-> "welcome", package |-> kp, history |-> g]
    OBVIOUS
  <1>7. /\ h # NoGroup
        /\ net' = net \cup {c, w}
        /\ group' = [group EXCEPT ![m] = g]
        /\ used' = [used EXCEPT ![m] = {}]
        /\ UNCHANGED <<lives, signer, provider, packages>>
    BY <1>1, <1>2, <1>3, <1>4, <1>5, <1>6 DEF add_member, Commit, Welcome, MlsTypes
  <1>8. h \in History /\ h \in Around
    BY <1>1, <1>2, <1>7 DEF MlsTypes, Around
  <1>9. /\ signer[m] \in Known /\ kp.signer \in Known
        /\ signer[m] \in Signer /\ kp.signer \in Signer
    BY <1>1 DEF MlsTypes, Known
  <1>10. e \in [by : Signer, adds : Signer] /\ e.by = signer[m] /\ e.adds = kp.signer
    BY <1>3, <1>9
  <1>11. /\ c.kind = "commit" /\ c.history = h /\ c.by = signer[m] /\ c.adds = kp.signer
         /\ w.kind = "welcome" /\ w.package = kp /\ w.history = g
    BY <1>5, <1>6
  <1>12. /\ g \in History /\ g[1] = h[1]
         /\ Tree(g) = Tree(h) \cup {e.adds}
    BY <1>4, <1>8, <1>10, AppendHistory
  <1>13. /\ group' \in [Members -> History \cup {NoGroup}]
         /\ used' \in [Members -> SUBSET net']
         /\ group'[m] = g /\ group'[m] # NoGroup
         /\ \A o \in Members \ {m} : group'[o] = group[o]
         /\ Len(group'[m]) = Len(h) + 1 /\ Len(h) \in Nat
         /\ InOwnTree' /\ UsedOK'
         /\ \A d \in Commits, o \in Members :
               d.by = signer[o] => group'[o] # NoGroup /\ Len(group'[o]) > Len(d.history)
    BY <1>2, <1>4, <1>7, <1>8, <1>10, MergeCommit
  <1>14. Known' = Known
    BY <1>7 DEF Known
  <1>15. MlsTypes'
    BY <1>1, <1>7, <1>8, <1>9, <1>11, <1>12, <1>13, <1>14 DEF MlsTypes
  <1>16. HistoriesOK' /\ OneRoot'
    <2>1. HistoryOK(g)'
      <3>1. HistoryOK(h)
        BY <1>1, <1>8 DEF HistoriesOK
      <3>2. HistoryOK(Append(h, e))'
        BY <1>7, <1>9, <1>10, <1>11, <1>14, <3>1, LongerHistory
      <3>. QED
        BY <3>2, <1>4
    <2>2. ASSUME NEW x \in Around'
          PROVE  x \in Around \/ x = g
      <3>1. CASE \E o \in Members : group'[o] # NoGroup /\ x = group'[o]
        BY <1>13, <3>1 DEF Around
      <3>2. CASE \E msg \in net' : x = msg.history
        BY <1>7, <1>8, <1>11, <3>2 DEF Around
      <3>. QED
        BY <3>1, <3>2 DEF Around
    <2>. QED
      BY <1>1, <1>7, <1>8, <1>12, <1>14, <2>1, <2>2, HistoriesStep
  <1>17. Commits' = Commits \cup {c}
    BY <1>7, <1>11 DEF Commits
  <1>18. CommitsOK'
    <2>1. ASSUME NEW o \in Members, signer[m] = signer[o]
          PROVE  o = m
      BY <1>1, <2>1 DEF MlsTypes
    <2>2. ASSUME NEW d \in Commits', NEW o \in Members, d.by = signer'[o]
          PROVE  group'[o] # NoGroup /\ Len(group'[o]) > Len(d.history)
      <3>1. CASE d \in Commits
        BY <1>7, <1>13, <2>2, <3>1
      <3>2. CASE d = c
        BY <1>7, <1>11, <1>13, <2>1, <2>2, <3>2
      <3>. QED
        BY <1>17, <3>1, <3>2
    <2>3. ASSUME NEW d \in Commits
          PROVE  ~(d.history = h /\ d.by = signer[m])
      BY <1>1, <1>2, <1>13 DEF CommitsOK
    <2>4. ASSUME NEW d \in Commits', NEW x \in Commits', d.history = x.history, d.by = x.by
          PROVE  d.adds = x.adds
      BY <1>1, <1>11, <1>17, <2>3, <2>4 DEF CommitsOK
    <2>. QED
      BY <2>2, <2>4 DEF CommitsOK
  <1>19. PackagesOK'
    BY <1>1, <1>7 DEF PackagesOK
  <1>20. WelcomesOK'
    <2>1. kp.signer \in Tree(g)
      BY <1>10, <1>12
    <2>2. ASSUME NEW x \in net', x.kind = "welcome"
          PROVE  x.package.signer \in Tree(x.history)
      BY <1>1, <1>7, <1>11, <2>1, <2>2 DEF WelcomesOK
    <2>. QED
      BY <2>2 DEF WelcomesOK, Tree
  <1>. QED
    BY <1>13, <1>15, <1>16, <1>18, <1>19, <1>20 DEF MlsInv

LEMMA JoinGroupStep ==
    ASSUME MlsInv, NEW m \in Members, NEW msg \in net, join_group(m, msg)
    PROVE  MlsInv'
  <1>1. /\ MlsTypes /\ HistoriesOK /\ OneRoot /\ InOwnTree /\ CommitsOK
        /\ PackagesOK /\ WelcomesOK /\ UsedOK
    BY DEF MlsInv
  <1>2. PICK h : h = msg.history
    OBVIOUS
  <1>3. /\ msg.kind = "welcome" /\ msg.package \in provider[m]
        /\ group[m] = NoGroup
        /\ group' = [group EXCEPT ![m] = h]
        /\ provider' = [provider EXCEPT ![m] = @ \ {msg.package}]
        /\ UNCHANGED <<lives, signer, used, packages, net>>
    BY <1>2 DEF join_group
  <1>4. h \in History /\ h \in Around /\ h # NoGroup
    BY <1>1, <1>2, NoGroupIsNone DEF MlsTypes, Around
  <1>5. signer[m] \in Tree(h)
    BY <1>1, <1>2, <1>3 DEF PackagesOK, WelcomesOK
  <1>6. /\ group' \in [Members -> History \cup {NoGroup}]
        /\ group'[m] = h
        /\ \A o \in Members \ {m} : group'[o] = group[o]
    BY <1>1, <1>3, <1>4 DEF MlsTypes
  <1>7. Known' = Known
    BY <1>3 DEF Known
  <1>8. provider' \in [Members -> SUBSET packages']
    BY <1>1, <1>3 DEF MlsTypes
  <1>9. MlsTypes'
    BY <1>1, <1>3, <1>6, <1>7, <1>8 DEF MlsTypes
  <1>10. HistoriesOK' /\ OneRoot'
    <2>1. \A x \in Around' : x \in Around
      BY <1>3, <1>4, <1>6 DEF Around
    <2>. QED
      BY <1>1, <1>3, <1>7, <2>1, HistoriesStep
  <1>11. InOwnTree'
    <2>1. ASSUME NEW o \in Members, group'[o] # NoGroup
          PROVE  signer'[o] \in Tree(group'[o])
      BY <1>1, <1>3, <1>5, <1>6, <2>1 DEF InOwnTree
    <2>. QED
      BY <2>1 DEF InOwnTree, Tree
  <1>12. CommitsOK'
    <2>1. Commits' = Commits
      BY <1>3 DEF Commits
    <2>2. ASSUME NEW c \in Commits, NEW o \in Members, c.by = signer[o]
          PROVE  group'[o] # NoGroup /\ Len(group'[o]) > Len(c.history)
      BY <1>1, <1>3, <1>6, <2>2 DEF CommitsOK
    <2>. QED
      BY <1>1, <1>3, <2>1, <2>2 DEF CommitsOK
  <1>13. PackagesOK'
    <2>1. \A o \in Members : provider'[o] \subseteq provider[o]
      BY <1>1, <1>3 DEF MlsTypes
    <2>. QED
      BY <1>1, <1>3, <2>1 DEF PackagesOK
  <1>14. UsedOK'
    <2>1. used[m] = {}
      BY <1>1, <1>3 DEF UsedOK
    <2>2. ASSUME NEW o \in Members, NEW t \in used'[o]
          PROVE  group'[o] # NoGroup /\ t.history = group'[o]
      BY <1>1, <1>3, <1>6, <2>1, <2>2 DEF UsedOK
    <2>. QED
      BY <2>2 DEF UsedOK
  <1>15. WelcomesOK'
    BY <1>1, <1>3 DEF WelcomesOK, Tree
  <1>. QED
    BY <1>9, <1>10, <1>11, <1>12, <1>13, <1>14, <1>15 DEF MlsInv

LEMMA EncryptStep ==
    ASSUME MlsInv, NEW m \in Members, encrypt_for_group(m)
    PROVE  MlsInv'
  <1>1. /\ MlsTypes /\ HistoriesOK /\ OneRoot /\ InOwnTree /\ CommitsOK
        /\ PackagesOK /\ WelcomesOK /\ UsedOK
    BY DEF MlsInv
  <1>. DEFINE texts == {msg \in net : msg.kind = "text"}
  <1>2. PICK t : t = [kind |-> "text", history |-> group[m], by |-> signer[m],
                      number |-> Cardinality(texts) + 1]
    OBVIOUS
  <1>3. /\ group[m] # NoGroup
        /\ net' = net \cup {t}
        /\ UNCHANGED <<lives, signer, provider, group, used, packages>>
    BY <1>2 DEF encrypt_for_group
  <1>. HIDE DEF texts
  <1>4. t.kind = "text" /\ t.history = group[m] /\ t.by = signer[m]
    BY <1>2
  <1>5. t.history \in History /\ t.history \in Around /\ t.by \in Known
    BY <1>1, <1>3, <1>4 DEF MlsTypes, Around
  <1>6. Known' = Known
    BY <1>3 DEF Known
  <1>7. MlsTypes'
    <2>1. used' \in [Members -> SUBSET net']
      BY <1>1, <1>3 DEF MlsTypes
    <2>. QED
      BY <1>1, <1>3, <1>4, <1>5, <1>6, <2>1 DEF MlsTypes
  <1>8. HistoriesOK' /\ OneRoot'
    <2>1. \A x \in Around' : x \in Around
      BY <1>3, <1>5 DEF Around
    <2>. QED
      BY <1>1, <1>3, <1>6, <2>1, HistoriesStep
  <1>9. CommitsOK'
    <2>1. Commits' = Commits
      BY <1>3, <1>4 DEF Commits
    <2>. QED
      BY <1>1, <1>3, <2>1 DEF CommitsOK
  <1>10. WelcomesOK'
    BY <1>1, <1>3, <1>4 DEF WelcomesOK, Tree
  <1>11. (InOwnTree /\ PackagesOK /\ UsedOK)'
    BY <1>1, <1>3 DEF InOwnTree, PackagesOK, UsedOK, Tree
  <1>. QED
    BY <1>7, <1>8, <1>9, <1>10, <1>11 DEF MlsInv

\* Using up the secret of a message of the device's own epoch, without showing
\* the message to anybody.
LEMMA UseStep ==
    ASSUME MlsInv, NEW m \in Members, NEW msg \in net, process_message(m, msg),
           used' \in {used, [used EXCEPT ![m] = @ \cup {msg}]},
           UNCHANGED <<lives, signer, provider, group, packages, net>>
    PROVE  MlsInv'
  <1>1. /\ MlsTypes /\ HistoriesOK /\ OneRoot /\ InOwnTree /\ CommitsOK
        /\ PackagesOK /\ WelcomesOK /\ UsedOK
    BY DEF MlsInv
  <1>2. /\ used' \in [Members -> SUBSET net]
        /\ \A o \in Members : used[o] \subseteq used'[o]
        /\ \A o \in Members : \A t \in used'[o] : t \in used[o] \/ (o = m /\ t = msg)
    BY <1>1 DEF MlsTypes
  <1>3. Known' = Known /\ Around' = Around /\ Commits' = Commits
    BY DEF Known, Around, Commits
  <1>4. MlsTypes'
    BY <1>1, <1>2, <1>3 DEF MlsTypes
  <1>5. HistoriesOK' /\ OneRoot'
    BY <1>1, <1>3, HistoriesStep
  <1>6. UsedOK'
    BY <1>1, <1>2 DEF UsedOK, process_message
  <1>7. (InOwnTree /\ CommitsOK /\ PackagesOK /\ WelcomesOK)'
    BY <1>1, <1>3 DEF InOwnTree, CommitsOK, PackagesOK, WelcomesOK, Tree
  <1>. QED
    BY <1>4, <1>5, <1>6, <1>7 DEF MlsInv

LEMMA DecryptStep ==
    ASSUME MlsInv, NEW m \in Members, NEW msg \in net, decrypt_from_group(m, msg)
    PROVE  MlsInv'
  <1>1. /\ process_message(m, msg) /\ UNCHANGED <<lives, signer, provider, group, packages, net>>
        /\ used' \in {used, [used EXCEPT ![m] = @ \cup {msg}]}
    BY DEF decrypt_from_group
  <1>. QED
    BY <1>1, UseStep

LEMMA ProcessCommitStep ==
    ASSUME MlsInv, NEW m \in Members, NEW msg \in net, process_commit(m, msg)
    PROVE  MlsInv'
  <1>1. process_message(m, msg) /\ UNCHANGED <<lives, signer, provider, packages, net>>
    BY DEF process_commit
  <1>2. CASE msg.kind = "text" /\ used' = [used EXCEPT ![m] = @ \cup {msg}] /\ UNCHANGED group
    BY <1>1, <1>2, UseStep
  <1>3. CASE /\ msg.kind = "commit"
             /\ group' = [group EXCEPT ![m] = Append(@, [by |-> msg.by, adds |-> msg.adds])]
             /\ used' = [used EXCEPT ![m] = {}]
    <2>1. /\ MlsTypes /\ HistoriesOK /\ OneRoot /\ CommitsOK
          /\ PackagesOK /\ WelcomesOK
      BY DEF MlsInv
    <2>2. PICK h : h = group[m]
      OBVIOUS
    <2>3. PICK e : e = [by |-> msg.by, adds |-> msg.adds]
      OBVIOUS
    <2>4. PICK g : g = Append(h, e)
      OBVIOUS
    <2>5. h # NoGroup /\ msg.history = h
      BY <1>1, <2>2 DEF process_message
    <2>6. h \in History /\ h \in Around
      BY <2>1, <2>2, <2>5 DEF MlsTypes, Around
    <2>7. msg.by \in Signer /\ msg.adds \in Signer /\ msg.adds \in Known
      BY <1>3, <2>1 DEF MlsTypes, Known
    <2>8. e \in [by : Signer, adds : Signer] /\ e.by = msg.by /\ e.adds = msg.adds
      BY <2>3, <2>7
    <2>9. /\ group' = [group EXCEPT ![m] = g]
          /\ used' = [used EXCEPT ![m] = {}]
          /\ UNCHANGED signer /\ net \subseteq net'
      BY <1>1, <1>3, <2>1, <2>2, <2>3, <2>4 DEF MlsTypes
    <2>10. g[1] = h[1]
      BY <2>4, <2>6, <2>8, AppendHistory
    <2>11. /\ group' \in [Members -> History \cup {NoGroup}]
           /\ used' \in [Members -> SUBSET net']
           /\ group'[m] = g
           /\ \A o \in Members \ {m} : group'[o] = group[o]
           /\ InOwnTree' /\ UsedOK'
           /\ \A d \in Commits, o \in Members :
                 d.by = signer[o] => group'[o] # NoGroup /\ Len(group'[o]) > Len(d.history)
      BY <2>2, <2>4, <2>5, <2>6, <2>8, <2>9, MergeCommit
    <2>12. Known' = Known /\ Commits' = Commits
      BY <1>1 DEF Known, Commits
    <2>13. MlsTypes'
      BY <1>1, <2>1, <2>11, <2>12 DEF MlsTypes
    <2>14. HistoriesOK' /\ OneRoot'
      <3>1. HistoryOK(g)'
        <4>1. HistoryOK(h)
          BY <2>1, <2>6 DEF HistoriesOK
        <4>2. msg \in net' /\ net \subseteq net' /\ Known \subseteq Known'
          BY <1>1, <2>12
        <4>3. HistoryOK(Append(h, e))'
          BY <1>3, <2>5, <2>7, <2>8, <4>1, <4>2, LongerHistory
        <4>. QED
          BY <4>3, <2>4
      <3>2. ASSUME NEW x \in Around'
            PROVE  x \in Around \/ x = g
        <4>1. CASE \E o \in Members : group'[o] # NoGroup /\ x = group'[o]
          BY <2>11, <4>1 DEF Around
        <4>2. CASE \E n \in net' : x = n.history
          BY <1>1, <4>2 DEF Around
        <4>. QED
          BY <4>1, <4>2 DEF Around
      <3>. QED
        BY <1>1, <2>1, <2>6, <2>10, <2>12, <3>1, <3>2, HistoriesStep
    <2>15. CommitsOK'
      BY <1>1, <2>1, <2>11, <2>12 DEF CommitsOK
    <2>16. (PackagesOK /\ WelcomesOK)'
      BY <1>1, <2>1 DEF PackagesOK, WelcomesOK, Tree
    <2>. QED
      BY <2>11, <2>13, <2>14, <2>15, <2>16 DEF MlsInv
  <1>. QED
    BY <1>2, <1>3 DEF process_commit

LEMMA RestartStep ==
    ASSUME MlsInv, NEW m \in Members, Restart(m)
    PROVE  MlsInv'
  <1>1. /\ MlsTypes /\ HistoriesOK /\ OneRoot /\ InOwnTree /\ CommitsOK
        /\ PackagesOK /\ WelcomesOK /\ UsedOK
    BY DEF MlsInv
  <1>2. PICK s : s = <<m, lives'[m]>>
    OBVIOUS
  <1>3. /\ MlsMember_new(m)
        /\ signer' = [signer EXCEPT ![m] = s]
        /\ provider' = [provider EXCEPT ![m] = {}]
        /\ group' = [group EXCEPT ![m] = NoGroup]
        /\ used' = [used EXCEPT ![m] = {}]
        /\ UNCHANGED <<packages, net>>
    BY <1>2 DEF Restart
  <1>4. /\ lives' \in [Members -> Nat \ {0}]
        /\ Known \subseteq Known'
        /\ s \in Signer /\ s \in Known' /\ s \notin Known /\ s[1] = m
    BY <1>1, <1>2, <1>3, FreshSigner
  <1>5. /\ signer'[m] = s /\ provider'[m] = {} /\ group'[m] = NoGroup /\ used'[m] = {}
        /\ \A o \in Members \ {m} : /\ signer'[o] = signer[o] /\ provider'[o] = provider[o]
                                    /\ group'[o] = group[o] /\ used'[o] = used[o]
    BY <1>1, <1>3 DEF MlsTypes
  <1>6. MlsTypes'
    <2>1. /\ signer' \in [Members -> Signer]
          /\ provider' \in [Members -> SUBSET packages']
          /\ used' \in [Members -> SUBSET net']
          /\ group' \in [Members -> History \cup {NoGroup}]
      BY <1>1, <1>3, <1>4 DEF MlsTypes
    <2>2. \A o \in Members : signer'[o][1] = o /\ signer'[o] \in Known'
      BY <1>1, <1>4, <1>5 DEF MlsTypes
    <2>3. \A kp \in packages' : kp.signer \in Known'
      BY <1>1, <1>3, <1>4 DEF MlsTypes
    <2>. QED
      BY <1>1, <1>3, <1>4, <2>1, <2>2, <2>3 DEF MlsTypes
  <1>7. \A h \in Around : s \notin Tree(h)
    BY <1>1, <1>4 DEF HistoriesOK, HistoryOK
  <1>8. HistoriesOK' /\ OneRoot'
    <2>1. \A x \in Around' : x \in Around
      BY <1>3, <1>5 DEF Around
    <2>. QED
      BY <1>1, <1>3, <1>4, <2>1, HistoriesStep
  <1>9. InOwnTree'
    <2>1. ASSUME NEW o \in Members, group'[o] # NoGroup
          PROVE  signer'[o] \in Tree(group'[o])
      BY <1>1, <1>5, <2>1 DEF InOwnTree
    <2>. QED
      BY <2>1 DEF InOwnTree, Tree
  <1>10. CommitsOK'
    <2>1. Commits' = Commits
      BY <1>3 DEF Commits
    <2>2. ASSUME NEW c \in Commits, NEW o \in Members, c.by = signer'[o]
          PROVE  group'[o] # NoGroup /\ Len(group'[o]) > Len(c.history)
      <3>1. o # m
        BY <1>1, <1>4, <1>5, <2>2 DEF MlsTypes, Commits
      <3>. QED
        BY <1>1, <1>5, <2>2, <3>1 DEF CommitsOK
    <2>. QED
      BY <1>1, <2>1, <2>2 DEF CommitsOK
  <1>11. PackagesOK'
    <2>1. ASSUME NEW o \in Members, NEW kp \in provider'[o]
          PROVE  kp.signer = signer'[o]
      BY <1>1, <1>5, <2>1 DEF PackagesOK
    <2>. QED
      BY <2>1 DEF PackagesOK
  <1>12. UsedOK'
    <2>1. ASSUME NEW o \in Members, NEW t \in used'[o]
          PROVE  group'[o] # NoGroup /\ t.history = group'[o]
      BY <1>1, <1>5, <2>1 DEF UsedOK
    <2>. QED
      BY <2>1 DEF UsedOK
  <1>13. WelcomesOK'
    BY <1>1, <1>3 DEF WelcomesOK, Tree
  <1>. QED
    BY <1>6, <1>8, <1>9, <1>10, <1>11, <1>12, <1>13 DEF MlsInv

----------------------------------------------------------------------------
(* The specification *)

\* Devices without groups and an empty network satisfy MlsInv.
LEMMA MlsInit == Init => MlsInv
  <1>1. SUFFICES ASSUME Init PROVE MlsInv
    OBVIOUS
  <1>2. /\ lives = [m \in Members |-> 1] /\ signer = [m \in Members |-> <<m, 1>>]
        /\ provider = [m \in Members |-> {}] /\ group = [m \in Members |-> NoGroup]
        /\ used = [m \in Members |-> {}]
        /\ packages = {} /\ net = {}
    BY <1>1 DEF Init
  <1>4. Around = {} /\ Commits = {}
    BY <1>2 DEF Around, Commits
  <1>5. MlsTypes
    <2>1. \A m \in Members : <<m, 1>> \in Signer
      BY DEF Signer
    <2>2. \A m \in Members : signer[m] = <<m, 1>> /\ lives[m] = 1
      BY <1>2
    <2>3. \A m \in Members : signer[m][1] = m /\ signer[m] \in Known
      BY <2>1, <2>2 DEF Known
    <2>. QED
      BY <1>2, <2>1, <2>3 DEF MlsTypes
  <1>6. HistoriesOK /\ OneRoot /\ CommitsOK
    BY <1>4 DEF HistoriesOK, OneRoot, CommitsOK
  <1>7. InOwnTree /\ PackagesOK /\ WelcomesOK /\ UsedOK
    BY <1>2 DEF InOwnTree, PackagesOK, WelcomesOK, UsedOK
  <1>. QED
    BY <1>5, <1>6, <1>7 DEF MlsInv

\* Every step of every device keeps MlsInv.
LEMMA MlsNext == MlsInv /\ [Next]_vars => MlsInv'
  <1>1. SUFFICES ASSUME MlsInv, [Next]_vars PROVE MlsInv'
    OBVIOUS
  <1>2. CASE UNCHANGED vars
    <2>1. UNCHANGED <<lives, signer, provider, group, used, packages, net>>
      BY <1>2 DEF vars
    <2>2. MlsTypes /\ PackagesOK
      BY <1>1 DEF MlsInv
    <2>3. Known' = Known
      BY <2>1 DEF Known
    <2>4. /\ lives' \in [Members -> Nat \ {0}] /\ provider' \in [Members -> SUBSET packages']
          /\ \A kp \in packages' : kp.signer \in Known'
      BY <2>1, <2>2, <2>3 DEF MlsTypes
    <2>5. \A m \in Members : \A kp \in provider'[m] : kp.signer = signer[m]
      BY <2>1, <2>2 DEF PackagesOK
    <2>. QED
      BY <1>1, <2>1, <2>3, <2>4, <2>5, PackageStep
  <1>3. ASSUME NEW m \in Members, key_package(m) PROVE MlsInv'
    BY <1>1, <1>3, KeyPackageStep
  <1>4. ASSUME NEW m \in Members, generate_key_package(m) PROVE MlsInv'
    BY <1>1, <1>4, GenerateKeyPackageStep
  <1>5. ASSUME NEW m \in Members, create_group(m) PROVE MlsInv'
    BY <1>1, <1>5, CreateGroupStep
  <1>6. ASSUME NEW m \in Members, NEW kp \in packages, add_member(m, kp) PROVE MlsInv'
    BY <1>1, <1>6, AddMemberStep
  <1>7. ASSUME NEW m \in Members, encrypt_for_group(m) PROVE MlsInv'
    BY <1>1, <1>7, EncryptStep
  <1>8. ASSUME NEW m \in Members, NEW msg \in net, join_group(m, msg) PROVE MlsInv'
    BY <1>1, <1>8, JoinGroupStep
  <1>9. ASSUME NEW m \in Members, NEW msg \in net, decrypt_from_group(m, msg) PROVE MlsInv'
    BY <1>1, <1>9, DecryptStep
  <1>10. ASSUME NEW m \in Members, NEW msg \in net, process_commit(m, msg) PROVE MlsInv'
    BY <1>1, <1>10, ProcessCommitStep
  <1>11. ASSUME NEW m \in Members, Restart(m) PROVE MlsInv'
    BY <1>1, <1>11, RestartStep
  <1>. QED
    BY <1>1, <1>2, <1>3, <1>4, <1>5, <1>6, <1>7, <1>8, <1>9, <1>10, <1>11 DEF Next

\* The inductive invariant of the group keys: every history is a path through
\* commits that were made, nobody commits twice on one history, and no device
\* has a key for what it read before.
THEOREM MlsInvariant == Spec => []MlsInv
  BY MlsInit, MlsNext, PTL DEF Spec

----------------------------------------------------------------------------
(* What follows from it *)

\* Two histories with one root, equally long and not the same, part at a commit
\* that two members made on what they have in common.
LEMMA HistoriesPart ==
    ASSUME MlsInv, NEW g, NEW h, HistoryOK(g), HistoryOK(h),
           g[1] = h[1], Len(g) = Len(h), g # h
    PROVE  \E n \in 1 .. Len(g) - 1 :
              /\ ForkAt(SubSeq(g, 1, n))
              /\ IsPrefix(SubSeq(g, 1, n), h)
  <1>. DEFINE E == [by : Signer, adds : Signer]
  <1>1. g \in Seq(E) /\ h \in Seq(E) /\ g # <<>>
    BY DEF HistoryOK, History
  <1>. DEFINE Apart == {i \in 1 .. Len(g) : g[i] # h[i]}
  <1>2. Apart \in SUBSET Nat /\ Apart # {}
    <2>. HIDE DEF E
    <2>1. Len(g) \in Nat
      BY <1>1
    <2>. QED
      BY <1>1, <2>1
  <1>3. PICK i \in Apart : \A k \in Apart : i =< k
    <2>. HIDE DEF Apart
    <2>. QED
      BY <1>2, LeastNumber
  <1>4. Len(g) \in Nat \ {0}
    <2>. HIDE DEF E
    <2>. QED
      BY <1>1
  <1>5. i \in 2 .. Len(g) /\ g[i] # h[i]
    BY <1>3, <1>4
  <1>6. \A k \in 1 .. i - 1 : g[k] = h[k]
    BY <1>3, <1>4, <1>5
  <1>7. PICK n : n = i - 1
    OBVIOUS
  <1>8. n \in 1 .. Len(g) - 1 /\ n + 1 = i /\ n \in Nat
    BY <1>4, <1>5, <1>7
  <1>. HIDE DEF Apart
  <1>9. SubSeq(g, 1, n) = SubSeq(h, 1, n) /\ IsPrefix(SubSeq(g, 1, n), h)
    <2>. HIDE DEF E
    <2>1. \A k \in 1 .. n : g[k] = h[k]
      BY <1>6, <1>7
    <2>2. SubSeq(g, 1, n) = SubSeq(h, 1, n)
      BY <1>1, <1>4, <1>8, <2>1
    <2>3. IsPrefix(SubSeq(h, 1, n), h)
      BY <1>1, <1>4, <1>8 DEF IsPrefix
    <2>. QED
      BY <2>2, <2>3
  <1>10. PICK c \in Commits : /\ c.history = SubSeq(g, 1, n)
                              /\ c.by = g[n + 1].by /\ c.adds = g[n + 1].adds
    BY <1>8 DEF HistoryOK
  <1>11. PICK d \in Commits : /\ d.history = SubSeq(h, 1, n)
                              /\ d.by = h[n + 1].by /\ d.adds = h[n + 1].adds
    BY <1>8 DEF HistoryOK
  <1>12. c.by # d.by
    <2>1. SUFFICES ASSUME c.by = d.by PROVE FALSE
      OBVIOUS
    <2>2. c.adds = d.adds
      <3>1. CommitsOK /\ c.history = d.history
        BY <1>9, <1>10, <1>11 DEF MlsInv
      <3>. QED
        BY <2>1, <3>1 DEF CommitsOK
    <2>3. g[i] \in E /\ h[i] \in E
      <3>. HIDE DEF E
      <3>. QED
        BY <1>1, <1>4, <1>5
    <2>4. g[i].by = h[i].by /\ g[i].adds = h[i].adds
      BY <1>8, <1>10, <1>11, <2>1, <2>2
    <2>5. g[i] = h[i]
      BY <2>3, <2>4
    <2>. QED
      BY <1>5, <2>5
  <1>13. ForkAt(SubSeq(g, 1, n))
    BY <1>9, <1>10, <1>11, <1>12 DEF ForkAt
  <1>. QED
    BY <1>8, <1>9, <1>13

\* Devices at one epoch have one secret and one tree, unless two members added
\* somebody at an epoch that both devices have gone through: no device forks
\* the group by itself (add_member, join_group, process_commit).
THEOREM EpochsAgree == Spec => []EpochAgreement
  <1>1. MlsInv => EpochAgreement
    <2>1. SUFFICES ASSUME MlsInv, NEW m1 \in Members, NEW m2 \in Members,
                          group[m1] # NoGroup, group[m2] # NoGroup, epoch(m1) = epoch(m2)
                   PROVE  \/ /\ epoch_secret(m1) = epoch_secret(m2)
                             /\ Tree(group[m1]) = Tree(group[m2])
                          \/ \E n \in 1 .. epoch(m1) :
                                /\ ForkAt(SubSeq(group[m1], 1, n))
                                /\ IsPrefix(SubSeq(group[m1], 1, n), group[m2])
      BY DEF EpochAgreement
    <2>2. CASE group[m1] = group[m2]
      BY <2>2 DEF epoch_secret
    <2>3. CASE group[m1] # group[m2]
      <3>1. group[m1] \in Around /\ group[m2] \in Around
        BY <2>1 DEF Around
      <3>2. HistoryOK(group[m1]) /\ HistoryOK(group[m2]) /\ group[m1][1] = group[m2][1]
        BY <2>1, <3>1 DEF MlsInv, HistoriesOK, OneRoot
      <3>3. Len(group[m1]) \in Nat /\ Len(group[m2]) \in Nat
        BY <3>2 DEF HistoryOK, History
      <3>4. Len(group[m1]) = Len(group[m2])
        BY <2>1, <3>3 DEF epoch
      <3>5. \E n \in 1 .. Len(group[m1]) - 1 :
               /\ ForkAt(SubSeq(group[m1], 1, n))
               /\ IsPrefix(SubSeq(group[m1], 1, n), group[m2])
        BY <2>1, <2>3, <3>2, <3>4, HistoriesPart
      <3>. QED
        BY <3>5 DEF epoch
    <2>. QED
      BY <2>2, <2>3
  <1>. QED
    BY <1>1, MlsInvariant, PTL

====
