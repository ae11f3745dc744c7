---- MODULE MCGroupService ----
(* Instances of GroupService for TLC. *)
EXTENDS GroupService, TLC

\* Threads and identities are interchangeable: no rule of the code singles
\* one out, and no action orders them.
Symmetry == Permutations(Threads) \cup Permutations(Identities)
====
