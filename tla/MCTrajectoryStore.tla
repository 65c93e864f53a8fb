------------------------- MODULE MCTrajectoryStore -------------------------
(* Instances of TrajectoryStore for TLC. *)
EXTENDS TrajectoryStore

CONSTANTS r1, r2, p1, p2

============================================================================
