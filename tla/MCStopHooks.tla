---------------------------- MODULE MCStopHooks ----------------------------
(* Instances of StopHooks for TLC. *)
EXTENDS StopHooks

CONSTANTS s1, s2
============================================================================
