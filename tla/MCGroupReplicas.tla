---- MODULE MCGroupReplicas ----
(* Two machines whose clocks never read the same. *)
EXTENDS GroupReplicas

CONSTANTS r1, r2

DistinctClocks == [r \in Replicas |-> IF r = r1 THEN {0, 2} ELSE {1, 3}]
====
