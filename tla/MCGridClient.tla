---- MODULE MCGridClient ----
(* Instances of GridClient for TLC. *)
EXTENDS GridClient
====
