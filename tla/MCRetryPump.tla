---- MODULE MCRetryPump ----
(* Instances of RetryPump for TLC. *)
EXTENDS RetryPump, TLC

CONSTANTS p1, p2, a, b

TwoTopics == (p1 :> a @@ p2 :> b)
OneTopic == (p1 :> a @@ p2 :> a)
====
