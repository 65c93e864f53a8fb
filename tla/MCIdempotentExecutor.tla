----------------------- MODULE MCIdempotentExecutor ------------------------
(* Two calls of two conversations, for TLC. *)
EXTENDS IdempotentExecutor, TLC

CONSTANTS k1, k2, c1, c2

MCConvOf  == k1 :> c1 @@ k2 :> c2
============================================================================
