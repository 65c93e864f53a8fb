----------------------------- MODULE MCVllmSwap -----------------------------
(* Instances of VllmSwap for TLC. *)
EXTENDS VllmSwap

MCAsks == {<<"coder", "none">>, <<"planner", "vllm-planner">>, <<"coder", "ollama">>}
=============================================================================
