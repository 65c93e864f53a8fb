--------------------------- MODULE MCRunWorktrees ---------------------------
(* Instances of RunWorktrees for TLC. *)
EXTENDS RunWorktrees
=============================================================================
