-------------------------- MODULE MCRelayedSidecar --------------------------
(* Instances of RelayedSidecar for TLC. *)
EXTENDS RelayedSidecar
============================================================================
