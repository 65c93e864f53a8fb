---------------------------- MODULE MCEventRelay ----------------------------
(* The event relay on a log of a few pages, for TLC. *)
EXTENDS EventRelay
============================================================================
