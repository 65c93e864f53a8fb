-------------------------- MODULE AtLeastOnceCall --------------------------
(***************************************************************************)
(* What a caller of a ledger-guarded tool may rely on, with no ledger, no  *)
(* BFF and no network in sight: a call is answered only with the outcome   *)
(* of an execution of that very call, and once the answer is settled (the  *)
(* SDK has persisted the observation) the call is never executed again.    *)
(* Between the first execution and the settling the call may be executed   *)
(* again: this is an at-least-once contract.  IdempotentExecutor           *)
(* implements it, and bounds how often "again" can happen.                 *)
(***************************************************************************)
EXTENDS Naturals

CONSTANT Key                \* the calls, one per idempotency key

VARIABLES
  effects,                  \* [Key -> Nat]  executions so far
  answer,                   \* [Key -> Nat]  which execution answered; 0 = none
  settled                   \* the calls whose answer is on the event log

vars == <<effects, answer, settled>>

Init ==
  /\ effects = [k \in Key |-> 0]
  /\ answer  = [k \in Key |-> 0]
  /\ settled = {}

\* The side effect happens; the caller has no answer yet.
Perform(k) ==
  /\ k \notin settled
  /\ answer[k] = 0
  /\ effects' = [effects EXCEPT ![k] = @ + 1]
  /\ UNCHANGED <<answer, settled>>

\* The caller gets the outcome of one of the executions of its call.
Answer(k) ==
  /\ answer[k] = 0
  /\ \E n \in 1..effects[k] : answer' = [answer EXCEPT ![k] = n]
  /\ UNCHANGED <<effects, settled>>

\* The observation is persisted: the agent will not issue the call again.
Settle(k) ==
  /\ answer[k] # 0
  /\ settled' = settled \cup {k}
  /\ UNCHANGED <<effects, answer>>

\* A crash of the agent forgets every answer that was not persisted.
Forget ==
  /\ answer' = [k \in Key |-> IF k \in settled THEN answer[k] ELSE 0]
  /\ UNCHANGED <<effects, settled>>

Next ==
  \/ \E k \in Key : Perform(k) \/ Answer(k) \/ Settle(k)
  \/ Forget

Spec == Init /\ [][Next]_vars
============================================================================
