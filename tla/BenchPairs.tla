------------------------------ MODULE BenchPairs ------------------------------
(***************************************************************************)
(* Comparing two benchmark runs: the paired McNemar test of                *)
(* bench/lib/mcnemar.py and the report of pathF_swebench/compare_tokens.py *)
(* read the same directories, and the token budget of a prompt.            *)
(*                                                                         *)
(* The directories grow one task at a time.  What matters of a task is its *)
(* outcome in either run, so the state counts the tasks of each kind; a    *)
(* p-value is kept as its numerator over 2^(b + c), and the chi-square of  *)
(* 25 and more discordant pairs is left out.                               *)
(***************************************************************************)
EXTENDS Integers, FiniteSets

CONSTANTS
  MaxPairs,         \* bound: the tasks of the two runs
  MaxModelLen, MaxTokensCeiling, MaxTokensFloor, SafetyMargin

ASSUME PairsAssumption == MaxPairs \in Nat

\* As in the harness: a floor below the ceiling.
ASSUME BudgetAssumption ==
  /\ {MaxModelLen, MaxTokensCeiling, MaxTokensFloor, SafetyMargin} \subseteq Nat
  /\ 0 < MaxTokensFloor /\ MaxTokensFloor <= MaxTokensCeiling

Outcomes == {"absent", "true", "false", "null"}
TaskKinds   == {k \in Outcomes \X Outcomes : k # <<"absent", "absent">>}

VARIABLE tally    \* kind |-> how many tasks are of it

\* How many tasks are of a kind in K; the tasks of one kind are told apart by a number.
TasksIn(K) == Cardinality({t \in K \X (1..MaxPairs) : t[2] <= tally[t[1]]})
NumTasks   == TasksIn(TaskKinds)

PairInit  == tally = [k \in TaskKinds |-> 0]
PairAdded(k) == NumTasks < MaxPairs /\ tally' = [tally EXCEPT ![k] = @ + 1]
PairNext  == \E k \in TaskKinds : PairAdded(k)
PairSpec  == PairInit /\ [][PairNext]_tally

----------------------------------------------------------------------------
(* mcnemar.                                                                *)

\* _load_pass_map drops what has no outcome; mcnemar_paired what is in one run
\* only.
Passed(outcome)   == outcome = "true"
HasOutcome(o)     == o \in {"true", "false"}
Paired            == {k \in TaskKinds : HasOutcome(k[1]) /\ HasOutcome(k[2])}
CellA == TasksIn({k \in Paired : Passed(k[1]) /\ Passed(k[2])})
CellB == TasksIn({k \in Paired : Passed(k[1]) /\ ~Passed(k[2])})
CellC == TasksIn({k \in Paired : ~Passed(k[1]) /\ Passed(k[2])})
CellD == TasksIn({k \in Paired : ~Passed(k[1]) /\ ~Passed(k[2])})

\* The binomials of n and the numbers in I, added up: the ways in which n pairs
\* flip with a number of them in I flipping the first way.
Splits(n, I) == Cardinality({F \in SUBSET (1..n) : Cardinality(F) \in I})

\* Mutated: the count itself is taken whole.
MidPWhole(b, c) ==
  LET n == b + c
      k == IF b < c THEN b ELSE c
      p == 2 * Splits(n, 0..(k - 1)) + 2 * Splits(n, {k})
  IN  IF p < 2 ^ n THEN p ELSE 2 ^ n
\* _midp_two_sided, times 2^(b + c): twice what is below the smaller count and
\* once what is at it, never more than all.
MidP(b, c) ==
  LET n == b + c
      k == IF b < c THEN b ELSE c
      p == 2 * Splits(n, 0..(k - 1)) + Splits(n, {k})
  IN  IF p < 2 ^ n THEN p ELSE 2 ^ n

----------------------------------------------------------------------------
(* compare_tokens: every file is a task, and no outcome is a failure.      *)

InBoth       == {k \in TaskKinds : k[1] # "absent" /\ k[2] # "absent"}
Regressions  == TasksIn({k \in InBoth : Passed(k[1]) /\ ~Passed(k[2])})
Improvements == TasksIn({k \in InBoth : ~Passed(k[1]) /\ Passed(k[2])})
DeltaSolved  == TasksIn({k \in InBoth : Passed(k[2])}) - TasksIn({k \in InBoth : Passed(k[1])})

----------------------------------------------------------------------------
(* budget_max_tokens: the room for an answer, 0 when the task is skipped.  *)

BudgetMaxTokens(prompt) ==
  LET room == MaxModelLen - prompt - SafetyMargin
  IN  IF room < MaxTokensFloor THEN 0
      ELSE IF room >= MaxTokensCeiling THEN MaxTokensCeiling ELSE room

----------------------------------------------------------------------------

PairTypeOK == \A k \in TaskKinds : tally[k] \in 0..MaxPairs

\* The two reports of the same directories differ by the tasks without an
\* outcome and by nothing else; and the mid-p value is what its definition
\* says, the weight of the splits at least as uneven as the one observed, in
\* either direction, with half the weight of those exactly as uneven.
Uneven(i, n)  == IF 2 * i > n THEN 2 * i - n ELSE n - 2 * i
MidPByDefinition(b, c) ==
  LET n == b + c
  IN  2 * Splits(n, {i \in 0..n : Uneven(i, n) > Uneven(b, n)})
        + Splits(n, {i \in 0..n : Uneven(i, n) = Uneven(b, n)})

ReportsOfPairsAgree ==
  /\ Regressions = CellB + TasksIn({<<"true", "null">>})
  /\ Improvements = CellC + TasksIn({<<"null", "true">>})
  /\ DeltaSolved = Improvements - Regressions
  /\ TasksIn(Paired) = CellA + CellB + CellC + CellD
  /\ MidP(CellB, CellC) = MidP(CellC, CellB)
  /\ CellB # CellC => 2 * MidP(CellB, CellC) = MidPByDefinition(CellB, CellC)

\* One more flip the way most flips already go never makes a result look less
\* significant.
AFlipTellsMore ==
  [][CellB >= CellC /\ CellB' = CellB + 1 /\ CellC' = CellC
       => MidP(CellB', CellC') <= 2 * MidP(CellB, CellC)]_tally

\* What is asked of the model fits beside the prompt, and no task with enough
\* room is skipped.
BudgetFits ==
  \A prompt \in 0..(MaxModelLen + 1) :
    LET tokens == BudgetMaxTokens(prompt)
    IN  /\ tokens > 0 => prompt + tokens + SafetyMargin <= MaxModelLen /\ tokens <= MaxTokensCeiling
        /\ tokens = 0 <=> prompt + MaxTokensFloor + SafetyMargin > MaxModelLen

\* Both, as soon as there is a task to report.
BenchNumbersHold == NumTasks = 0 \/ (ReportsOfPairsAgree /\ BudgetFits)
=============================================================================
