-------------------------- MODULE MCRunDetailPage --------------------------
(* Instances of RunDetailPage for TLC. *)
EXTENDS RunDetailPage
============================================================================
