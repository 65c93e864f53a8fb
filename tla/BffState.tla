------------------------------ MODULE BffState ------------------------------
(***************************************************************************)
(* What the BFF keeps for its handlers that overlap: the presets and the   *)
(* settings in its own memory, and the entries it edits at the             *)
(* agent-server.  The two share no variable.                               *)
(***************************************************************************)
EXTENDS BffThreads, RegistryProxies

(* What handlers that overlap leave right: one default preset unless a     *)
(* set-default was among them, every patch of the settings unless two of   *)
(* them were, every entry at the agent-server that no caller has been told *)
(* of losing, and of every MCP server its own status, the strays apart.    *)
BffStateHolds == ThreadsKeep /\ RegistryKeeps
=============================================================================
