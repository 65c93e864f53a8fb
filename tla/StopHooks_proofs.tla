-------------------------- MODULE StopHooks_proofs ---------------------------
(***************************************************************************)
(* Proofs about what happens when a run stops. StopHooks, for every set of *)
(* sessions and every budget: the types, WithinBudget,                     *)
(* RetryBound and VerdictsHold. A hook decides on the count it has loaded, *)
(* so the bound on the blocks does not follow from the file, which other   *)
(* sessions tear and put back. It follows from what the session has run:   *)
(* Inv says that the verifications of a session are those in its hook's    *)
(* hand and those found missing, and that a stop about to be blocked fits  *)
(* into the bound. That a verdict is recorded follows from where the       *)
(* verdict is kept between the hooks of one stop, which VInv says.         *)
(***************************************************************************)
EXTENDS StopHooks, TrajectoryStore, SequenceTheorems, TLAPS

\* The hook has loaded its entry and not written it back.
InHand(s) == pc[s] \in {"verify", "truncate", "write"}

\* What the hook holds and what was missing is all that was run.
Accounted ==
  \A s \in Sessions : InHand(s) => spent[s] <= used[s] + lost[s]

\* A decision to block is carried from on_stop to the SDK, and kept nowhere else.
BlockIsPending ==
  \A s \in Sessions : block[s] => pc[s] \in {"truncate", "write", "trajectory"}

\* With the stop that is about to be blocked the bound still holds.
PendingFits ==
  \A s \in Sessions : block[s] => blocks[s] + 1 <= MaxIterations - 1 + lost[s]

\* Blocks are verifications, the pending one included.
BlocksAreSpent ==
  \A s \in Sessions :
    /\ blocks[s] <= spent[s]
    /\ block[s] => blocks[s] + 1 <= spent[s]

\* No copy of an entry, in the file or in a hook, is over the budget.
CopiesWithinBudget ==
  \A s, t \in Sessions : snap[s][t].used <= MaxIterations

Inv ==
  /\ TypeOK
  /\ WithinBudget
  /\ CopiesWithinBudget
  /\ Accounted
  /\ BlockIsPending
  /\ BlocksAreSpent
  /\ PendingFits
  /\ RetryBound

----------------------------------------------------------------------------
(* What is kept of the file never lacks a type or a budget: an entry, the  *)
(* empty file and the hook's copy of it.                                   *)
LEMMA EmptyIsTyped ==
  /\ Empty \in [Sessions -> Entry]
  /\ \A t \in Sessions : Empty[t].used = 0
  BY DEF Empty, NoEntry, Entry, Verdict

(* A hook that reads the file finds at most more missing, and at least     *)
(* what the file lacks of the verifications that were run.                 *)
LEMMA FoundMissing ==
  ASSUME TypeOK, NEW s \in Sessions, Found(s)
  PROVE  /\ lost' \in [Sessions -> Nat]
         /\ \A t \in Sessions : lost'[t] >= lost[t]
         /\ \A t \in Sessions : t # s => lost'[t] = lost[t]
         /\ lost'[s] >= spent[s] - file[s].used
  <1> DEFINE gap == spent[s] - file[s].used
  <1>1. /\ lost \in [Sessions -> Nat]
        /\ spent[s] \in Nat
        /\ file[s].used \in Nat
    BY DEF TypeOK, Entry
  <1>2. gap \in Int
    BY <1>1
  <1>3. lost' = [lost EXCEPT ![s] = IF gap > lost[s] THEN gap ELSE lost[s]]
    BY DEF Found
  <1> HIDE DEF gap
  <1>4. /\ lost' \in [Sessions -> Nat]
        /\ \A t \in Sessions : lost'[t] >= lost[t]
        /\ \A t \in Sessions : t # s => lost'[t] = lost[t]
        /\ lost'[s] >= gap
    BY <1>1, <1>2, <1>3
  <1> QED
    BY <1>4 DEF gap

(* A hook that reads the file and neither verifies nor blocks leaves room  *)
(* for a block where there was room: what is found missing only adds to it. *)
LEMMA LostOnlyGrows ==
  ASSUME TypeOK, BlocksAreSpent, PendingFits, RetryBound,
         UNCHANGED <<block, blocks, spent>>,
         lost' \in [Sessions -> Nat],
         \A t \in Sessions : lost'[t] >= lost[t]
  PROVE  BlocksAreSpent' /\ PendingFits' /\ RetryBound'
  <1>1. BlocksAreSpent'
    BY DEF BlocksAreSpent
  <1>2. ASSUME NEW t \in Sessions
        PROVE  /\ blocks[t] \in Nat /\ lost[t] \in Nat /\ lost'[t] \in Nat
               /\ lost'[t] >= lost[t]
               /\ MaxIterations \in Nat
    BY <1>2, BudgetPositive DEF TypeOK
  <1>3. ASSUME NEW t \in Sessions, block'[t]
        PROVE  blocks'[t] + 1 <= MaxIterations - 1 + lost'[t]
    <2>1. blocks[t] + 1 <= MaxIterations - 1 + lost[t] /\ blocks'[t] = blocks[t]
      BY <1>3 DEF PendingFits
    <2> QED
      BY <1>2, <2>1
  <1>4. ASSUME NEW t \in Sessions
        PROVE  blocks'[t] <= MaxIterations - 1 + lost'[t]
    <2>1. blocks[t] <= MaxIterations - 1 + lost[t] /\ blocks'[t] = blocks[t]
      BY <1>4 DEF RetryBound
    <2> QED
      BY <1>2, <1>4, <2>1
  <1> QED
    BY <1>1, <1>3, <1>4 DEF PendingFits, RetryBound

\* Nothing has run yet.
LEMMA InitInv == Init => Inv
  <1> SUFFICES ASSUME Init PROVE Inv
    OBVIOUS
  <1>1. TypeOK
    BY EmptyIsTyped DEF Init, TypeOK, Hook, Verdict
  <1>2. \A s \in Sessions : ~block[s] /\ ~InHand(s)
    BY DEF Init, InHand
  <1>3. \A s \in Sessions : blocks[s] = 0 /\ spent[s] = 0 /\ lost[s] = 0
    BY DEF Init
  <1>4. 0 <= MaxIterations
    BY BudgetPositive
  <1>5. WithinBudget /\ CopiesWithinBudget
    <2>1. \A s \in Sessions : used[s] = 0 /\ file[s].used = 0
      BY EmptyIsTyped DEF Init
    <2>2. \A s, t \in Sessions : snap[s][t].used = 0
      BY EmptyIsTyped DEF Init
    <2> QED
      BY <1>4, <2>1, <2>2 DEF WithinBudget, CopiesWithinBudget
  <1>6. Accounted /\ BlockIsPending /\ PendingFits
    BY <1>2 DEF Accounted, BlockIsPending, PendingFits
  <1>7. BlocksAreSpent
    BY <1>2, <1>3 DEF BlocksAreSpent
  <1>8. RetryBound
    BY <1>3, BudgetPositive DEF RetryBound
  <1> QED
    BY <1>1, <1>4, <1>5, <1>6, <1>7, <1>8 DEF Inv

----------------------------------------------------------------------------
(* Every action, one by one.                                               *)

\* A stop arrives: its hook holds nothing yet.
LEMMA AgentStopsInv ==
  ASSUME Inv, NEW s \in Sessions, NEW e \in BOOLEAN, AgentStops(s, e)
  PROVE  Inv'
  <1> USE DEF Inv, AgentStops, Goto, history
  <1>1. TypeOK'
    BY DEF TypeOK, Hook, Verdict, Entry
  <1>2. WithinBudget' /\ CopiesWithinBudget'
    BY DEF WithinBudget, CopiesWithinBudget
  <1>3. Accounted' /\ BlockIsPending' /\ BlocksAreSpent' /\ PendingFits'
    BY DEF TypeOK, Accounted, InHand, BlockIsPending, BlocksAreSpent, PendingFits
  <1>4. RetryBound'
    BY DEF RetryBound
  <1> QED
    BY <1>1, <1>2, <1>3, <1>4

\* The hook has what the file has, and counts what it lacks.
LEMMA LoadStateInv ==
  ASSUME Inv, NEW s \in Sessions, LoadState(s)
  PROVE  Inv'
  <1>1. /\ TypeOK /\ WithinBudget /\ CopiesWithinBudget /\ Accounted
        /\ BlockIsPending /\ BlocksAreSpent /\ PendingFits /\ RetryBound
    BY DEF Inv
  <1>2. /\ lost' \in [Sessions -> Nat]
        /\ \A t \in Sessions : lost'[t] >= lost[t]
        /\ \A t \in Sessions : t # s => lost'[t] = lost[t]
        /\ lost'[s] >= spent[s] - file[s].used
    BY <1>1, FoundMissing DEF LoadState
  <1>3. file[s].used \in Nat /\ file[s].edited \in BOOLEAN
    BY <1>1 DEF TypeOK, Entry
  <1>4. used' = [used EXCEPT ![s] = file[s].used]
    BY DEF LoadState
  <1>5. UNCHANGED <<file, block, blocks, spent, snap>>
    BY DEF LoadState
  <1>6. pc' = [pc EXCEPT ![s] = "verify"]
    BY DEF LoadState, Goto
  <1>7. TypeOK'
    <2>1. used' \in [Sessions -> Nat]
      BY <1>1, <1>3, <1>4 DEF TypeOK
    <2>2. edited' \in [Sessions -> BOOLEAN]
      BY <1>1, <1>3 DEF LoadState, TypeOK
    <2>3. pc' \in [Sessions -> Hook \cup {"working", "trajectory", "finished"}]
      BY <1>1, <1>6 DEF TypeOK, Hook
    <2> QED
      BY <1>1, <1>2, <2>1, <2>2, <2>3 DEF LoadState, TypeOK
  <1>8. WithinBudget' /\ CopiesWithinBudget'
    BY <1>1, <1>4, <1>5 DEF TypeOK, WithinBudget, CopiesWithinBudget
  <1>9. Accounted'
    <2> SUFFICES ASSUME NEW t \in Sessions, InHand(t)'
                 PROVE  spent'[t] <= used'[t] + lost'[t]
      BY DEF Accounted
    <2>1. spent[t] \in Nat /\ spent'[t] = spent[t] /\ lost'[t] \in Nat
      BY <1>1, <1>2, <1>5 DEF TypeOK
    <2>2. CASE t = s
      <3>1. used'[t] = file[s].used
        BY <1>1, <1>4, <2>2 DEF TypeOK
      <3> QED
        BY <1>2, <1>3, <2>1, <2>2, <3>1
    <2>3. CASE t # s
      <3>1. InHand(t)
        BY <1>1, <1>6, <2>3 DEF TypeOK, InHand
      <3>2. used'[t] = used[t] /\ lost'[t] = lost[t]
        BY <1>1, <1>2, <1>4, <2>3 DEF TypeOK
      <3> QED
        BY <1>1, <2>1, <3>1, <3>2 DEF Accounted
    <2> QED
      BY <2>2, <2>3
  <1>10. BlockIsPending'
    <2>1. ~block[s]
      BY <1>1 DEF LoadState, BlockIsPending
    <2> QED
      BY <1>1, <1>5, <1>6, <2>1 DEF TypeOK, BlockIsPending
  <1>11. BlocksAreSpent' /\ PendingFits' /\ RetryBound'
    BY <1>1, <1>2, <1>5, LostOnlyGrows
  <1> QED
    BY <1>7, <1>8, <1>9, <1>10, <1>11 DEF Inv

\* A hook that gives up blocks nothing.
LEMMA GiveUpInv ==
  ASSUME Inv, NEW s \in Sessions, GiveUp(s)
  PROVE  Inv'
  <1> USE DEF Inv, GiveUp, Decided, Goto, history
  <1>1. TypeOK'
    BY DEF TypeOK, Hook, Verdict, Entry
  <1>2. WithinBudget' /\ CopiesWithinBudget'
    BY DEF TypeOK, WithinBudget, CopiesWithinBudget
  <1>3. Accounted' /\ BlockIsPending' /\ BlocksAreSpent' /\ PendingFits'
    BY DEF TypeOK, Accounted, InHand, BlockIsPending, BlocksAreSpent, PendingFits
  <1>4. RetryBound'
    BY DEF RetryBound
  <1> QED
    BY <1>1, <1>2, <1>3, <1>4

(* The step that decides.  A stop is blocked only with budget left in the  *)
(* hook's hand, and what is not in its hand was found missing.             *)
LEMMA VerifyInv ==
  ASSUME Inv, NEW s \in Sessions, NEW v \in {"pass", "fail", "skipped"}, Verify(s, v)
  PROVE  Inv'
  <1> USE DEF Inv, Verify, Decided, Goto
  <1>1. /\ used[s] < MaxIterations
        /\ used[s] \in Nat
        /\ ~block[s]
    BY BudgetPositive DEF AtCap, TypeOK, BlockIsPending
  <1>2. TypeOK'
    <2>1. used' \in [Sessions -> Nat] /\ spent' \in [Sessions -> Nat]
      BY <1>1 DEF TypeOK
    <2>2. edited' \in [Sessions -> BOOLEAN] /\ block' \in [Sessions -> BOOLEAN]
      BY DEF TypeOK
    <2>3. verdict' \in [Sessions -> Verdict]
      BY DEF TypeOK, Verdict
    <2>4. snap' \in [Sessions -> [Sessions -> Entry]]
      BY DEF TypeOK
    <2>5. pc' \in [Sessions -> Hook \cup {"working", "trajectory", "finished"}]
      BY DEF TypeOK, Hook
    <2> QED
      BY <2>1, <2>2, <2>3, <2>4, <2>5 DEF TypeOK
  <1>3. WithinBudget' /\ CopiesWithinBudget'
    BY <1>1, BudgetPositive DEF TypeOK, WithinBudget, CopiesWithinBudget
  <1>4. Accounted'
    BY <1>1 DEF TypeOK, Accounted, InHand
  <1>5. BlockIsPending'
    BY DEF TypeOK, BlockIsPending
  <1>6. BlocksAreSpent'
    BY DEF TypeOK, BlocksAreSpent
  <1>7. spent[s] <= used[s] + lost[s] /\ blocks[s] <= spent[s]
    BY DEF Accounted, InHand, BlocksAreSpent
  <1>8. PendingFits'
    BY <1>1, <1>7, BudgetPositive DEF TypeOK, PendingFits
  <1>9. RetryBound'
    BY DEF RetryBound
  <1> QED
    BY <1>2, <1>3, <1>4, <1>5, <1>6, <1>8, <1>9

\* The file is empty while it is written.
LEMMA SaveTruncateInv ==
  ASSUME Inv, NEW s \in Sessions, SaveTruncate(s)
  PROVE  Inv'
  <1> USE EmptyIsTyped DEF Inv, SaveTruncate, Goto, locals, history
  <1>1. TypeOK'
    BY DEF TypeOK, Hook, Verdict, Entry
  <1>2. WithinBudget' /\ CopiesWithinBudget'
    BY BudgetPositive DEF TypeOK, WithinBudget, CopiesWithinBudget
  <1>3. Accounted' /\ BlockIsPending' /\ BlocksAreSpent' /\ PendingFits'
    BY DEF TypeOK, Accounted, InHand, BlockIsPending, BlocksAreSpent, PendingFits
  <1>4. RetryBound'
    BY DEF RetryBound
  <1> QED
    BY <1>1, <1>2, <1>3, <1>4

\* What is written is the hook's own entry, and its copy of the others'.
LEMMA SaveWriteInv ==
  ASSUME Inv, NEW s \in Sessions, SaveWrite(s)
  PROVE  Inv'
  <1> USE EmptyIsTyped DEF Inv, SaveWrite, Exit, history
  <1> DEFINE mine == [used |-> used[s], edited |-> edited[s], verdict |-> verdict[s]]
  <1>1. mine \in Entry /\ mine.used <= MaxIterations
    BY DEF TypeOK, Entry, WithinBudget
  <1>2. /\ file' = [snap[s] EXCEPT ![s] = mine]
        /\ snap[s] \in [Sessions -> Entry]
    BY DEF TypeOK
  <1> HIDE DEF mine
  <1>3. /\ file' \in [Sessions -> Entry]
        /\ \A t \in Sessions : file'[t].used <= MaxIterations
    BY <1>1, <1>2 DEF CopiesWithinBudget
  <1>4. TypeOK'
    BY <1>3 DEF TypeOK, Hook, Verdict, Entry
  <1>5. WithinBudget' /\ CopiesWithinBudget'
    BY <1>3, BudgetPositive DEF TypeOK, WithinBudget, CopiesWithinBudget
  <1>6. Accounted' /\ BlockIsPending' /\ BlocksAreSpent' /\ PendingFits'
    BY DEF TypeOK, Accounted, InHand, BlockIsPending, BlocksAreSpent, PendingFits
  <1>7. RetryBound'
    BY DEF RetryBound
  <1> QED
    BY <1>4, <1>5, <1>6, <1>7

\* A hook killed where it is blocks nothing, and the file stays as it is.
LEMMA KillVerifyInv ==
  ASSUME Inv, NEW s \in Sessions, KillVerify(s)
  PROVE  Inv'
  <1>1. 0 <= MaxIterations
    BY BudgetPositive
  <1>2. kills' = kills + 1 /\ kills \in Nat
    BY DEF KillVerify, Inv, TypeOK
  <1>3. kills' \in Nat
    BY <1>2
  <1> USE DEF Inv, KillVerify, Exit, history
  <1>4. TypeOK'
    <2>1. used' \in [Sessions -> Nat]
      BY DEF TypeOK
    <2>2. edited' \in [Sessions -> BOOLEAN] /\ block' \in [Sessions -> BOOLEAN]
      BY DEF TypeOK
    <2>3. verdict' \in [Sessions -> Verdict]
      BY DEF TypeOK, Verdict
    <2>4. snap' \in [Sessions -> [Sessions -> Entry]]
      BY EmptyIsTyped DEF TypeOK
    <2>5. pc' \in [Sessions -> Hook \cup {"working", "trajectory", "finished"}]
      BY DEF TypeOK, Hook
    <2> QED
      BY <1>3, <2>1, <2>2, <2>3, <2>4, <2>5 DEF TypeOK
  <1>5. WithinBudget'
    <2>1. used' = [used EXCEPT ![s] = 0] /\ file' = file
      OBVIOUS
    <2> QED
      BY <1>1, <2>1 DEF TypeOK, WithinBudget
  <1>6. CopiesWithinBudget'
    <2>1. snap' = [snap EXCEPT ![s] = Empty]
      OBVIOUS
    <2> QED
      BY <1>1, <2>1, EmptyIsTyped DEF TypeOK, CopiesWithinBudget
  <1>7. Accounted' /\ BlockIsPending' /\ BlocksAreSpent' /\ PendingFits'
    BY DEF TypeOK, Accounted, InHand, BlockIsPending, BlocksAreSpent, PendingFits
  <1>8. RetryBound'
    BY DEF RetryBound
  <1> QED
    BY <1>4, <1>5, <1>6, <1>7, <1>8

(* The hook after which the pending block happens, whether it records or   *)
(* not: the bound it fits into is the one PendingFits has kept since       *)
(* on_stop.                                                                *)
LEMMA TrajectoryInv ==
  ASSUME Inv, NEW s \in Sessions, Trajectory(s) \/ TrajectoryFails(s)
  PROVE  Inv'
  <1>1. /\ TypeOK /\ WithinBudget /\ CopiesWithinBudget /\ Accounted
        /\ BlockIsPending /\ BlocksAreSpent /\ PendingFits /\ RetryBound
    BY DEF Inv
  <1>2. /\ lost' \in [Sessions -> Nat]
        /\ \A t \in Sessions : lost'[t] >= lost[t]
        /\ \A t \in Sessions : t # s => lost'[t] = lost[t]
    <2>1. CASE Trajectory(s)
      BY <1>1, <2>1, FoundMissing DEF Trajectory
    <2>2. CASE TrajectoryFails(s)
      <3>1. lost' = lost
        BY <2>2 DEF TrajectoryFails
      <3>2. \A t \in Sessions : lost[t] \in Nat
        BY <1>1 DEF TypeOK
      <3> QED
        BY <1>1, <3>1, <3>2 DEF TypeOK
    <2> QED
      BY <2>1, <2>2
  <1>3. UNCHANGED <<file, used, spent, snap, edited, verdict, tasks>>
    BY DEF Trajectory, TrajectoryFails
  <1>a. Answered(s) /\ pc[s] = "trajectory"
    BY DEF Trajectory, TrajectoryFails
  <1>4. block' = [block EXCEPT ![s] = FALSE]
    BY <1>a DEF Answered
  <1>5. /\ blocks'[s] = IF block[s] THEN blocks[s] + 1 ELSE blocks[s]
        /\ \A t \in Sessions : t # s => blocks'[t] = blocks[t]
        /\ blocks' \in [Sessions -> Nat]
    BY <1>1, <1>a DEF Answered, TypeOK
  <1>6. pc[s] = "trajectory" /\ pc'[s] \in {"working", "finished"}
    BY <1>1, <1>a DEF Answered, Goto, TypeOK
  <1>7. \A t \in Sessions : t # s => pc'[t] = pc[t]
    BY <1>1, <1>a DEF Answered, Goto, TypeOK
  <1>8. TypeOK'
    <2>1. record' \in [Sessions -> {"none", "success", "failed"}]
      BY <1>1 DEF Trajectory, TrajectoryFails, TypeOK, StatusOfVerdict
    <2>2. pc' \in [Sessions -> Hook \cup {"working", "trajectory", "finished"}]
      BY <1>1, <1>a DEF Answered, Goto, TypeOK, Hook
    <2>3. block' \in [Sessions -> BOOLEAN]
      BY <1>1, <1>4 DEF TypeOK
    <2>4. kills' \in Nat /\ missed' \subseteq Sessions
      BY <1>1 DEF Trajectory, TrajectoryFails, TypeOK
    <2> QED
      BY <1>1, <1>2, <1>3, <1>5, <2>1, <2>2, <2>3, <2>4 DEF TypeOK
  <1>9. WithinBudget' /\ CopiesWithinBudget'
    BY <1>1, <1>3 DEF WithinBudget, CopiesWithinBudget
  <1>10. Accounted'
    <2> SUFFICES ASSUME NEW t \in Sessions, InHand(t)'
                 PROVE  spent'[t] <= used'[t] + lost'[t]
      BY DEF Accounted
    <2>1. t # s
      BY <1>6 DEF InHand
    <2>2. InHand(t)
      BY <1>7, <2>1 DEF InHand
    <2>3. lost'[t] = lost[t] /\ spent'[t] = spent[t] /\ used'[t] = used[t]
      BY <1>2, <1>3, <2>1
    <2> QED
      BY <1>1, <2>2, <2>3 DEF Accounted
  <1>11. BlockIsPending'
    BY <1>1, <1>4, <1>7 DEF TypeOK, BlockIsPending
  <1>12. BlocksAreSpent'
    <2> SUFFICES ASSUME NEW t \in Sessions
                 PROVE  blocks'[t] <= spent[t] /\ (block'[t] => blocks'[t] + 1 <= spent[t])
      BY <1>3 DEF BlocksAreSpent
    <2>1. CASE t = s
      <3>1. ~block'[t]
        BY <1>1, <1>4, <2>1 DEF TypeOK
      <3>2. blocks'[t] <= spent[t]
        BY <1>1, <1>5, <2>1 DEF BlocksAreSpent
      <3> QED
        BY <3>1, <3>2
    <2>2. CASE t # s
      <3>1. block'[t] = block[t]
        BY <1>1, <1>4, <2>2 DEF TypeOK
      <3> QED
        BY <1>1, <1>5, <2>2, <3>1 DEF BlocksAreSpent
    <2> QED
      BY <2>1, <2>2
  <1>13. PendingFits' /\ RetryBound'
    <2> SUFFICES ASSUME NEW t \in Sessions
                 PROVE  /\ block'[t] => blocks'[t] + 1 <= MaxIterations - 1 + lost'[t]
                        /\ blocks'[t] <= MaxIterations - 1 + lost'[t]
      BY DEF PendingFits, RetryBound
    <2>1. /\ blocks[t] \in Nat /\ lost[t] \in Nat /\ lost'[t] \in Nat
          /\ lost'[t] >= lost[t]
          /\ MaxIterations \in Nat
      BY <1>1, <1>2, BudgetPositive DEF TypeOK
    <2>2. blocks[t] <= MaxIterations - 1 + lost[t]
      BY <1>1 DEF RetryBound
    <2>3. CASE t = s
      <3>1. ~block'[t]
        BY <1>1, <1>4, <2>3 DEF TypeOK
      <3>2. CASE block[t]
        <4>1. blocks[t] + 1 <= MaxIterations - 1 + lost[t]
          BY <1>1, <3>2 DEF PendingFits
        <4>2. blocks'[t] = blocks[t] + 1
          BY <1>5, <2>3, <3>2
        <4>3. blocks'[t] <= MaxIterations - 1 + lost'[t]
          BY <2>1, <4>1, <4>2
        <4> QED
          BY <3>1, <4>3
      <3>3. CASE ~block[t]
        <4>1. blocks'[t] = blocks[t]
          BY <1>5, <2>3, <3>3
        <4>2. blocks'[t] <= MaxIterations - 1 + lost'[t]
          BY <2>1, <2>2, <4>1
        <4> QED
          BY <3>1, <4>2
      <3> QED
        BY <3>2, <3>3
    <2>4. CASE t # s
      <3>1. block'[t] = block[t]
        BY <1>1, <1>4, <2>4 DEF TypeOK
      <3>2. blocks'[t] = blocks[t] /\ lost'[t] = lost[t]
        BY <1>2, <1>5, <2>4
      <3> QED
        BY <1>1, <2>2, <3>1, <3>2 DEF PendingFits
    <2> QED
      BY <2>3, <2>4
  <1> QED
    BY <1>8, <1>9, <1>10, <1>11, <1>12, <1>13 DEF Inv

\* A follow-up sends the agent of a finished session back to work.
LEMMA FollowUpInv ==
  ASSUME Inv, NEW s \in Sessions, FollowUp(s)
  PROVE  Inv'
  <1> USE DEF Inv, FollowUp, Goto, locals, history
  <1>1. TypeOK'
    <2>1. tasks' \in Nat
      BY DEF TypeOK
    <2>2. pc' \in [Sessions -> Hook \cup {"working", "trajectory", "finished"}]
      BY DEF TypeOK, Hook
    <2> QED
      BY <2>1, <2>2 DEF TypeOK
  <1>2. WithinBudget' /\ CopiesWithinBudget'
    BY DEF WithinBudget, CopiesWithinBudget
  <1>3. Accounted' /\ BlockIsPending' /\ BlocksAreSpent' /\ PendingFits'
    BY DEF TypeOK, Accounted, InHand, BlockIsPending, BlocksAreSpent, PendingFits
  <1>4. RetryBound'
    BY DEF RetryBound
  <1> QED
    BY <1>1, <1>2, <1>3, <1>4

\* Every step keeps the invariant.
LEMMA NextInv == Inv /\ [Next]_vars => Inv'
  <1> SUFFICES ASSUME Inv, [Next]_vars PROVE Inv'
    OBVIOUS
  <1>1. ASSUME NEW s \in Sessions,
               Step(s) \/ KillVerify(s) \/ TrajectoryFails(s) \/ FollowUp(s)
        PROVE  Inv'
    BY <1>1, AgentStopsInv, LoadStateInv, GiveUpInv, VerifyInv, SaveTruncateInv,
       SaveWriteInv, KillVerifyInv, TrajectoryInv, FollowUpInv DEF Step
  <1>2. CASE UNCHANGED vars
    BY <1>2
    DEF vars, locals, history, Inv, TypeOK, WithinBudget, CopiesWithinBudget,
        Accounted, InHand, BlockIsPending, BlocksAreSpent, PendingFits, RetryBound
  <1> QED
    BY <1>1, <1>2 DEF Next

\* The invariant of the budget.
LEMMA InvHolds == Spec => []Inv
  BY InitInv, NextInv, PTL DEF Spec

(* Every variable keeps its type.                                          *)
THEOREM HooksTypeCorrect == Spec => []TypeOK
  <1>1. Inv => TypeOK
    BY DEF Inv
  <1> QED
    BY <1>1, InvHolds, PTL

(* VerifyLoop never overdraws its budget, in memory or in verify-state.json *)
(* as other sessions tear it and put it back.                              *)
THEOREM BudgetIsKept == Spec => []WithinBudget
  <1>1. Inv => WithinBudget
    BY DEF Inv
  <1> QED
    BY <1>1, InvHolds, PTL

(* on_stop blocks a conversation at most MaxIterations - 1 times, and once *)
(* more for every verification that its hooks found missing in the file.   *)
THEOREM RetriesAreBounded == Spec => []RetryBound
  <1>1. Inv => RetryBound
    BY DEF Inv
  <1> QED
    BY <1>1, InvHolds, PTL

----------------------------------------------------------------------------
(* The verdicts.  What counts as the last verification of a session is the *)
(* entry that carries the count of all of them: a copy that another        *)
(* session puts back carries a smaller one, or the same verdict.           *)

\* Every entry of a session, in the file and in the hooks' copies of it.
Copies(s) == {file[s]} \cup {snap[t][s] : t \in Sessions}

\* No count is ahead of what was run.
UsedIsSpent ==
  \A s \in Sessions : used[s] <= spent[s] /\ \A c \in Copies(s) : c.used <= spent[s]

\* The session's last stop ran a verification.
Verified(s) == verdict[s] \in {"pass", "fail", "skipped"}

\* After a verification, an entry that carries the full count says what it found.
VerdictIsInCopies ==
  \A s \in Sessions : Verified(s) =>
    spent[s] # 0 /\ \A c \in Copies(s) : c.used = spent[s] => c.verdict = verdict[s]

VInv == UsedIsSpent /\ VerdictIsInCopies /\ VerdictRecorded

(* What the two facts above come to when an entry of the file is read.     *)
LEMMA CopiesAreEntries ==
  ASSUME TypeOK, NEW s \in Sessions
  PROVE  Copies(s) \subseteq Entry /\ file[s] \in Copies(s) /\ spent[s] \in Nat
  BY DEF TypeOK, Copies

\* No verdict was recorded yet.
LEMMA InitVInv == Init => VInv
  <1> SUFFICES ASSUME Init PROVE VInv
    OBVIOUS
  <1>1. \A s \in Sessions : \A c \in Copies(s) : c.used = 0
    BY EmptyIsTyped DEF Init, Copies
  <1>2. UsedIsSpent
    <2>1. \A s \in Sessions : used[s] = 0 /\ spent[s] = 0
      BY DEF Init
    <2>2. \A s \in Sessions : \A c \in Copies(s) : c.used <= spent[s]
      <3> TAKE s \in Sessions
      <3> TAKE c \in Copies(s)
      <3>1. c.used = 0 /\ spent[s] = 0
        BY <1>1, <2>1
      <3> QED
        BY <3>1
    <2> QED
      BY <2>1, <2>2 DEF UsedIsSpent
  <1>3. \A s \in Sessions : ~Verified(s)
    BY DEF Init, Verified
  <1> QED
    BY <1>2, <1>3 DEF VInv, VerdictIsInCopies, VerdictRecorded, Verified

(* A step of s that leaves the counts, the verdicts and the copies as they *)
(* are, but for copies of what the file held or of nothing, and does not   *)
(* finish.                                                                 *)
LEMMA CopiesMove ==
  ASSUME TypeOK, VInv, NEW s \in Sessions,
         UNCHANGED <<spent, record, lost, missed>>,
         \A t \in Sessions : used'[t] <= spent[t],
         \A t \in Sessions : Verified(t)' => verdict'[t] = verdict[t],
         \A t \in Sessions : pc'[t] = "finished" => pc[t] = "finished",
         \A t \in Sessions : \A c \in Copies(t)' : c \in Copies(t) \/ c.used = 0
  PROVE  VInv'
  <1>1. UsedIsSpent'
    <2> SUFFICES ASSUME NEW t \in Sessions, NEW c \in Copies(t)'
                 PROVE  c.used <= spent[t]
      BY DEF UsedIsSpent
    <2>1. spent[t] \in Nat
      BY DEF TypeOK
    <2> QED
      BY <2>1 DEF VInv, UsedIsSpent
  <1>2. VerdictIsInCopies'
    BY DEF VInv, VerdictIsInCopies, Verified
  <1>3. VerdictRecorded'
    BY DEF VInv, VerdictRecorded, Verified
  <1> QED
    BY <1>1, <1>2, <1>3 DEF VInv

\* A step that neither verifies nor copies an entry or a record keeps the verdicts.
LEMMA NoCopyVInv ==
  ASSUME TypeOK, VInv, NEW s \in Sessions,
         \/ \E e \in BOOLEAN : AgentStops(s, e)
         \/ GiveUp(s) \/ SaveTruncate(s) \/ KillVerify(s) \/ FollowUp(s)
  PROVE  VInv'
  <1>1. /\ UNCHANGED <<spent, record, lost, missed>>
        /\ \A t \in Sessions : pc'[t] = "finished" => pc[t] = "finished"
    BY DEF TypeOK, AgentStops, GiveUp, Decided, SaveTruncate, KillVerify, Exit, FollowUp, Goto,
           locals, history
  <1>2. \A t \in Sessions : Verified(t)' => verdict'[t] = verdict[t]
    BY DEF Verified, TypeOK, AgentStops, GiveUp, SaveTruncate, KillVerify, FollowUp, locals
  <1>3. \A t \in Sessions : used'[t] <= spent[t]
    <2>1. \A t \in Sessions : used'[t] = used[t] \/ used'[t] = 0
      BY DEF TypeOK, AgentStops, GiveUp, SaveTruncate, KillVerify, Exit, FollowUp, locals
    <2> QED
      BY <2>1 DEF TypeOK, VInv, UsedIsSpent
  <1>4. \A t \in Sessions : \A c \in Copies(t)' : c \in Copies(t) \/ c.used = 0
    <2>1. /\ file' = file \/ file' = Empty
          /\ \A t \in Sessions : snap'[t] \in {snap[t], file, Empty}
      BY DEF TypeOK, AgentStops, GiveUp, Decided, SaveTruncate, KillVerify, Exit, FollowUp, locals
    <2> QED
      BY <2>1, EmptyIsTyped DEF Copies
  <1> QED
    BY <1>1, <1>2, <1>3, <1>4, CopiesMove

(* Loading takes the count from the file, which is not ahead.              *)
LEMMA LoadStateVInv ==
  ASSUME TypeOK, VInv, NEW s \in Sessions, LoadState(s)
  PROVE  VInv'
  <1>1. /\ lost' \in [Sessions -> Nat]
        /\ \A t \in Sessions : lost'[t] >= lost[t]
    BY FoundMissing DEF LoadState
  <1>2. /\ UNCHANGED <<spent, record, verdict, file, snap, missed>>
        /\ \A t \in Sessions : used'[t] = used[t] \/ used'[t] = file[t].used
        /\ \A t \in Sessions : pc'[t] = "finished" => pc[t] = "finished"
    BY DEF LoadState, Goto, TypeOK
  <1>3. \A t \in Sessions : Copies(t)' = Copies(t)
    BY <1>2 DEF Copies
  <1>4. UsedIsSpent' /\ VerdictIsInCopies'
    BY <1>2, <1>3, CopiesAreEntries DEF VInv, UsedIsSpent, VerdictIsInCopies, Verified
  <1>5. VerdictRecorded'
    <2>1. \A t \in Sessions : lost'[t] = 0 => lost[t] = 0
      BY <1>1 DEF TypeOK
    <2> QED
      BY <1>2, <2>1 DEF VInv, VerdictRecorded
  <1> QED
    BY <1>4, <1>5 DEF VInv

(* With the new verification no copy carries the full count any more.      *)
LEMMA VerifyVInv ==
  ASSUME TypeOK, VInv, NEW s \in Sessions, NEW v \in {"pass", "fail", "skipped"}, Verify(s, v)
  PROVE  VInv'
  <1>1. /\ UNCHANGED <<file, record, lost, missed>>
        /\ spent'[s] = spent[s] + 1 /\ verdict'[s] = v /\ used'[s] = used[s] + 1 /\ pc'[s] = "truncate"
        /\ \A t \in Sessions : t # s => /\ spent'[t] = spent[t] /\ used'[t] = used[t]
                                        /\ verdict'[t] = verdict[t] /\ pc'[t] = pc[t]
        /\ \A t \in Sessions : snap'[t] \in {snap[t], file}
    BY DEF Verify, Decided, Goto, TypeOK
  <1>2. \A t \in Sessions : Copies(t)' \subseteq Copies(t)
    BY <1>1 DEF Copies
  <1>3. \A t \in Sessions : spent[t] \in Nat /\ used[t] \in Nat
                            /\ \A c \in Copies(t) : c.used \in Nat /\ c.used <= spent[t]
    BY CopiesAreEntries DEF TypeOK, Entry, VInv, UsedIsSpent
  <1>4. UsedIsSpent'
    BY <1>1, <1>2, <1>3 DEF VInv, UsedIsSpent
  <1>5. VerdictIsInCopies'
    <2> SUFFICES ASSUME NEW t \in Sessions, Verified(t)'
                 PROVE  /\ spent'[t] # 0
                        /\ \A c \in Copies(t) : c.used = spent'[t] => c.verdict = verdict'[t]
      BY <1>2 DEF VerdictIsInCopies
    <2>1. CASE t = s
      BY <1>1, <1>3, <2>1
    <2>2. CASE t # s
      BY <1>1, <2>2 DEF VInv, VerdictIsInCopies, Verified
    <2> QED
      BY <2>1, <2>2
  <1>6. VerdictRecorded'
    BY <1>1 DEF VInv, VerdictRecorded
  <1> QED
    BY <1>4, <1>5, <1>6 DEF VInv

(* The hook writes its own entry with its own verdict, and the others' as  *)
(* it read them.                                                           *)
LEMMA SaveWriteVInv ==
  ASSUME TypeOK, VInv, NEW s \in Sessions, SaveWrite(s)
  PROVE  VInv'
  <1> DEFINE mine == [used |-> used[s], edited |-> edited[s], verdict |-> verdict[s]]
  <1>1. mine.used = used[s] /\ mine.verdict = verdict[s]
    OBVIOUS
  <1>2. file' = [snap[s] EXCEPT ![s] = mine]
    BY DEF SaveWrite
  <1> HIDE DEF mine
  <1>3. /\ UNCHANGED <<verdict, record, spent, lost, missed>>
        /\ \A t \in Sessions : used'[t] = used[t] \/ used'[t] = 0
        /\ \A t \in Sessions : pc'[t] = "finished" => pc[t] = "finished"
        /\ \A t \in Sessions : snap'[t] \in {snap[t], Empty}
    BY DEF SaveWrite, Exit, TypeOK, history
  <1>4. \A t \in Sessions : \A c \in Copies(t)' :
          c \in Copies(t) \/ c.used = 0 \/ (t = s /\ c = mine)
    <2>1. \A t \in Sessions : t # s => file'[t] = snap[s][t]
      BY <1>2 DEF TypeOK
    <2>2. file'[s] = mine
      BY <1>2 DEF TypeOK
    <2> QED
      BY <1>3, <2>1, <2>2, EmptyIsTyped DEF Copies
  <1>5. UsedIsSpent'
    <2>1. \A t \in Sessions : spent[t] \in Nat /\ used[t] <= spent[t]
      BY DEF TypeOK, VInv, UsedIsSpent
    <2>2. \A t \in Sessions : used'[t] <= spent'[t]
      BY <1>3, <2>1
    <2>3. ASSUME NEW t \in Sessions, NEW c \in Copies(t)' PROVE c.used <= spent[t]
      BY <1>1, <1>4, <2>1, <2>3 DEF VInv, UsedIsSpent
    <2> QED
      BY <1>3, <2>2, <2>3 DEF UsedIsSpent
  <1>6. VerdictIsInCopies'
    BY <1>1, <1>3, <1>4 DEF VInv, VerdictIsInCopies, Verified
  <1>7. VerdictRecorded'
    BY <1>3 DEF VInv, VerdictRecorded
  <1> QED
    BY <1>5, <1>6, <1>7 DEF VInv

(* The record is of the entry read.  If nothing is missing it carries the  *)
(* full count, and so the verdict.                                         *)
LEMMA TrajectoryVInv ==
  ASSUME TypeOK, VInv, NEW s \in Sessions, Trajectory(s)
  PROVE  VInv'
  <1>1. /\ lost' \in [Sessions -> Nat]
        /\ \A t \in Sessions : t # s => lost'[t] = lost[t]
        /\ lost'[s] >= spent[s] - file[s].used
    BY FoundMissing DEF Trajectory
  <1>2. /\ UNCHANGED <<file, used, verdict, snap, spent>>
        /\ record'[s] = StatusOfVerdict(file[s].verdict)
        /\ \A t \in Sessions : t # s => record'[t] = record[t] /\ pc'[t] = pc[t]
        /\ \A t \in Sessions : t # s => (t \in missed' <=> t \in missed)
    BY DEF Trajectory, Answered, Goto, TypeOK
  <1>3. \A t \in Sessions : Copies(t)' = Copies(t)
    BY <1>2 DEF Copies
  <1>4. UsedIsSpent' /\ VerdictIsInCopies'
    BY <1>2, <1>3 DEF VInv, UsedIsSpent, VerdictIsInCopies, Verified
  <1>5. ASSUME Verified(s), lost'[s] = 0
        PROVE  record'[s] = IF verdict[s] = "fail" THEN "failed" ELSE "success"
    <2>1. file[s] \in Copies(s) /\ file[s].used \in Nat /\ spent[s] \in Nat
      BY CopiesAreEntries DEF Entry
    <2>2. file[s].used <= spent[s]
      BY <2>1 DEF VInv, UsedIsSpent
    <2>3. file[s].used = spent[s]
      BY <1>1, <1>5, <2>1, <2>2
    <2>4. file[s].verdict = verdict[s]
      BY <1>5, <2>1, <2>3 DEF VInv, VerdictIsInCopies
    <2> QED
      BY <1>2, <2>4 DEF StatusOfVerdict
  <1>6. VerdictRecorded'
    BY <1>1, <1>2, <1>5 DEF VInv, VerdictRecorded, Verified
  <1> QED
    BY <1>4, <1>6 DEF VInv

(* A trajectory hook that fails is remembered until the next one.          *)
LEMMA TrajectoryFailsVInv ==
  ASSUME TypeOK, VInv, NEW s \in Sessions, TrajectoryFails(s)
  PROVE  VInv'
  <1>1. /\ UNCHANGED <<file, used, verdict, snap, spent, lost>>
        /\ s \in missed'
        /\ \A t \in Sessions : t # s => record'[t] = record[t] /\ pc'[t] = pc[t]
        /\ \A t \in Sessions : t # s => (t \in missed' <=> t \in missed)
    BY DEF TrajectoryFails, Answered, Goto, TypeOK
  <1>2. \A t \in Sessions : Copies(t)' = Copies(t)
    BY <1>1 DEF Copies
  <1>3. UsedIsSpent' /\ VerdictIsInCopies'
    BY <1>1, <1>2 DEF VInv, UsedIsSpent, VerdictIsInCopies, Verified
  <1>4. VerdictRecorded'
    BY <1>1 DEF VInv, VerdictRecorded
  <1> QED
    BY <1>3, <1>4 DEF VInv

\* Every step keeps the invariant of the verdicts.
LEMMA NextVInv == TypeOK /\ VInv /\ [Next]_vars => VInv'
  <1> SUFFICES ASSUME TypeOK, VInv, [Next]_vars PROVE VInv'
    OBVIOUS
  <1>1. ASSUME NEW s \in Sessions, \/ Step(s) \/ KillVerify(s)
                                 \/ TrajectoryFails(s) \/ FollowUp(s)
        PROVE  VInv'
    BY <1>1, NoCopyVInv, LoadStateVInv, VerifyVInv, SaveWriteVInv, TrajectoryVInv,
       TrajectoryFailsVInv DEF Step
  <1>2. CASE UNCHANGED vars
    BY <1>2 DEF vars, locals, history, VInv, UsedIsSpent, Copies, VerdictIsInCopies,
                Verified, VerdictRecorded
  <1> QED
    BY <1>1, <1>2 DEF Next

(* _infer_final_status: what a verification found is what the record says  *)
(* when the stop that ran it lets the agent go, whatever other sessions    *)
(* write to the shared file, unless verifications were missing in it or    *)
(* the trajectory hook of that stop failed.                                *)
THEOREM VerdictsAreKept == Spec => []VerdictsHold
  <1>1. TypeOK /\ VInv => VerdictsHold
    BY DEF VInv, VerdictsHold
  <1> QED
    BY <1>1, HooksTypeCorrect, InitVInv, NextVInv, PTL DEF Spec

-----------------------------------------------------------------------------
(***************************************************************************)
(* TrajectoryStore, whose records the hook of a stop replaces: for every   *)
(* set of runs and of passes, every batch size and every bound, what the   *)
(* table holds of a run is of its last stop, and a vector is that of its   *)
(* own text.                                                               *)
(***************************************************************************)

\* A hook is at work for a stop.
HooksHaveStops == \A r \in Runs : hook[r] # "idle" => stops[r] # 0

\* A pass that has listed has something to write back.
BatchInHand == \A p \in Passes : pass[p] \in {"embed", "update"} => batch[p] # <<>>

\* What a pass holds is what the record says, unless the run was stopped meanwhile.
Fresh(it) == it.run \in Stored /\ it.run \notin raced => it.content = row[it.run].content
HeldIsCurrent == \A p \in Passes : \A i \in 1..Len(batch[p]) : Fresh(batch[p][i])

StoreInv == StoreHolds /\ HooksHaveStops /\ BatchInHand /\ HeldIsCurrent

-------------------------------------------------------------------------------
(***************************************************************************)
(* Records and batches.                                                    *)
(***************************************************************************)

\* A record is stored when it has a content.
LEMMA StoredHasContent ==
  ASSUME StoreTypeOK, NEW r \in Runs
  PROVE  /\ row[r] \in [content : Nat, embedding : Nat, at : Nat]
         /\ r \in Stored <=> row[r].content # 0
         /\ r \in Stored => row[r] \in Row
<1>1. row[r] \in Row \cup {NoRow}
  BY DEF StoreTypeOK
<1>2. CASE row[r] = NoRow
  <2>1. r \notin Stored
    BY <1>2 DEF Stored
  <2> QED
    BY <1>2, <2>1 DEF NoRow, None
<1>3. CASE row[r] \in Row
  <2>1. row[r].content # 0 /\ row[r].content # NoRow.content
    BY <1>3 DEF Row, NoRow
  <2>2. r \in Stored
    BY <2>1 DEF Stored
  <2> QED
    BY <1>3, <2>1, <2>2 DEF Row
<1> QED
  BY <1>1, <1>2, <1>3

\* What is left of a batch when its first item has been written back.
LEMMA RestOfBatch ==
  ASSUME NEW q \in Seq(Item), q # <<>>
  PROVE  /\ Head(q) \in Item /\ Head(q) = q[1] /\ 1 \in 1..Len(q)
         /\ Tail(q) \in Seq(Item)
         /\ \A i \in 1..Len(Tail(q)) : \E j \in 1..Len(q) : Tail(q)[i] = q[j]
         /\ Len(q) # 1 => Tail(q) # <<>>
<1>1. /\ Len(q) \in Nat \ {0} /\ Head(q) = q[1] /\ Head(q) \in Item
      /\ Tail(q) \in Seq(Item) /\ Len(Tail(q)) = Len(q) - 1
      /\ \A i \in 1..Len(Tail(q)) : Tail(q)[i] = q[i + 1]
  BY HeadTailProperties, EmptySeq, LenProperties
<1>2. \A i \in 1..Len(Tail(q)) : i + 1 \in 1..Len(q)
  BY <1>1
<1>3. Len(q) # 1 => Tail(q) # <<>>
  BY <1>1
<1> QED
  BY <1>1, <1>2, <1>3

\* What an action needs to show that leaves the table alone and does not add to the batches.
LEMMA TableAlone ==
  ASSUME StoreInv, StoreTypeOK', UNCHANGED <<row, raced>>, HooksHaveStops', BatchInHand', ConvergesToLatest',
         \A p \in Passes : \A i \in 1..Len(batch'[p]) : Fresh(batch'[p][i])
  PROVE  StoreInv'
<1>1. Stored' = Stored
  BY DEF Stored
<1>2. EmbeddingOfOwnText'
  BY <1>1 DEF StoreInv, StoreHolds, EmbeddingOfOwnText
<1>3. HeldIsCurrent'
  BY <1>1 DEF HeldIsCurrent, Fresh
<1> QED
  BY <1>2, <1>3 DEF StoreInv, StoreHolds

\* The same when the hooks are left alone too: a step of a pass that only goes on.
LEMMA PassAlone ==
  ASSUME StoreInv, StoreTypeOK', UNCHANGED <<row, stops, hook, raced, killed>>, BatchInHand',
         \A p \in Passes : \A i \in 1..Len(batch'[p]) : Fresh(batch'[p][i])
  PROVE  StoreInv'
<1>1. Stored' = Stored
  BY DEF Stored
<1>2. HooksHaveStops'
  BY DEF StoreInv, HooksHaveStops
<1>3. ConvergesToLatest'
  BY <1>1 DEF StoreInv, StoreHolds, ConvergesToLatest
<1> QED
  BY <1>2, <1>3, TableAlone

-------------------------------------------------------------------------------
(***************************************************************************)
(* The invariant.                                                          *)
(***************************************************************************)

\* It holds at the start.
LEMMA InvariantAtStart == StoreInit => StoreInv
<1> SUFFICES ASSUME StoreInit PROVE StoreInv
  OBVIOUS
<1>1. \A p \in Passes : batch[p] = <<>> /\ pass[p] = "idle"
  BY DEF StoreInit
<1>2. \A r \in Runs : r \notin Stored /\ stops[r] = 0 /\ hook[r] = "idle"
  BY DEF StoreInit, Stored
<1>3. StoreTypeOK
  <2>1. <<>> \in Seq(Item)
    BY EmptySeq
  <2> QED
    BY <2>1 DEF StoreInit, StoreTypeOK
<1>4. StoreHolds
  <2>1. EmbeddingOfOwnText
    BY <1>2 DEF EmbeddingOfOwnText, Stored
  <2>2. ConvergesToLatest
    BY <1>2 DEF ConvergesToLatest
  <2> QED
    BY <1>3, <2>1, <2>2 DEF StoreHolds
<1>5. HeldIsCurrent
  <2>1. \A p \in Passes : 1..Len(batch[p]) = {}
    BY <1>1, EmptySeq
  <2> QED
    BY <2>1 DEF HeldIsCurrent
<1> QED
  BY <1>1, <1>2, <1>4, <1>5 DEF StoreInv, HooksHaveStops, BatchInHand

\* A stop counts, and its hook begins.
LEMMA HookStartsKeeps ==
  ASSUME StoreInv, NEW r \in Runs, HookStarts(r)
  PROVE  StoreInv'
<1>1. StoreTypeOK'
  BY DEF StoreInv, StoreHolds, StoreTypeOK, HookStarts
<1>2. /\ hook'[r] = "get" /\ stops'[r] = stops[r] + 1 /\ stops[r] \in Nat
      /\ \A s \in Runs : s # r => hook'[s] = hook[s] /\ stops'[s] = stops[s]
  BY DEF StoreInv, StoreHolds, StoreTypeOK, HookStarts
<1>3. HooksHaveStops'
  BY <1>2 DEF StoreInv, HooksHaveStops
<1>4. ConvergesToLatest'
  BY <1>2 DEF HookStarts, StoreInv, StoreHolds, ConvergesToLatest, Stored
<1>5. BatchInHand'
  BY DEF HookStarts, StoreInv, BatchInHand
<1>6. \A p \in Passes : \A i \in 1..Len(batch'[p]) : Fresh(batch'[p][i])
  BY DEF HookStarts, StoreInv, HeldIsCurrent
<1> QED
  BY <1>1, <1>3, <1>4, <1>5, <1>6, TableAlone DEF HookStarts

\* Reading changes nothing but the hook's place.
LEMMA HookGetsKeeps ==
  ASSUME StoreInv, NEW r \in Runs, HookGets(r)
  PROVE  StoreInv'
<1>1. StoreTypeOK'
  BY DEF StoreInv, StoreHolds, StoreTypeOK, HookGets
<1>2. /\ hook[r] # "idle" /\ hook'[r] # "idle"
      /\ \A s \in Runs : s # r => hook'[s] = hook[s]
  BY DEF StoreInv, StoreHolds, StoreTypeOK, HookGets
<1>3. HooksHaveStops'
  BY <1>2 DEF StoreInv, HooksHaveStops, HookGets
<1>4. ConvergesToLatest'
  BY <1>2 DEF HookGets, StoreInv, StoreHolds, ConvergesToLatest, Stored
<1>5. BatchInHand'
  BY DEF HookGets, StoreInv, BatchInHand
<1>6. \A p \in Passes : \A i \in 1..Len(batch'[p]) : Fresh(batch'[p][i])
  BY DEF HookGets, StoreInv, HeldIsCurrent
<1> QED
  BY <1>1, <1>3, <1>4, <1>5, <1>6, TableAlone DEF HookGets

\* Between the deletion and the insertion the run has no record to be wrong about.
LEMMA HookDeletesKeeps ==
  ASSUME StoreInv, NEW r \in Runs, HookDeletes(r)
  PROVE  StoreInv'
<1>1. StoreTypeOK'
  BY DEF StoreInv, StoreHolds, StoreTypeOK, HookDeletes
<1>2. /\ hook[r] # "idle" /\ hook'[r] # "idle" /\ row'[r] = NoRow
      /\ \A s \in Runs : s # r => hook'[s] = hook[s] /\ row'[s] = row[s]
      /\ UNCHANGED <<stops, pass, batch, raced, killed>>
  BY DEF StoreInv, StoreHolds, StoreTypeOK, HookDeletes
<1>3. r \notin Stored' /\ \A s \in Runs : s # r => (s \in Stored' <=> s \in Stored)
  BY <1>2 DEF Stored
<1>4. HooksHaveStops'
  BY <1>2 DEF StoreInv, HooksHaveStops
<1>5. ConvergesToLatest'
  BY <1>2, <1>3 DEF StoreInv, StoreHolds, ConvergesToLatest
<1>6. EmbeddingOfOwnText'
  BY <1>2, <1>3 DEF StoreInv, StoreHolds, EmbeddingOfOwnText, Stored
<1>7. BatchInHand'
  BY <1>2 DEF StoreInv, BatchInHand
<1>8. HeldIsCurrent'
  <2> SUFFICES ASSUME NEW p \in Passes, NEW i \in 1..Len(batch[p]),
                      batch[p][i].run \in Stored', batch[p][i].run \notin raced
               PROVE  batch[p][i].content = row'[batch[p][i].run].content
    BY <1>2 DEF HeldIsCurrent, Fresh
  <2>1. batch[p][i].run \in Runs /\ batch[p][i].run # r
    BY <1>3 DEF Stored
  <2>2. batch[p][i].run \in Stored
    BY <1>3, <2>1
  <2>3. batch[p][i].content = row[batch[p][i].run].content
    BY <2>2 DEF StoreInv, HeldIsCurrent, Fresh
  <2> QED
    BY <1>2, <2>1, <2>3
<1> QED
  BY <1>1, <1>4, <1>5, <1>6, <1>7, <1>8 DEF StoreInv, StoreHolds

\* The new record is of the stop, has no vector yet, and whoever holds the run's old text
\* makes it a raced one.
LEMMA HookInsertsKeeps ==
  ASSUME StoreInv, NEW r \in Runs, HookInserts(r)
  PROVE  StoreInv'
<1>1. /\ hook[r] = "insert" /\ stops[r] \in Nat \ {0} /\ clock \in Nat
  BY DEF StoreInv, StoreHolds, StoreTypeOK, HookInserts, HooksHaveStops
<1> DEFINE new == [content |-> stops[r], embedding |-> None, at |-> clock + 1]
<1>2. new \in Row /\ new.content = stops[r] /\ new.embedding = None /\ new # NoRow
  <2>1. new \in Row /\ new.content = stops[r] /\ new.embedding = None
    BY <1>1 DEF Row, None
  <2>2. NoRow.content = 0
    BY DEF NoRow
  <2> QED
    BY <1>1, <2>1, <2>2
<1>3. /\ row' = [row EXCEPT ![r] = new] /\ hook' = [hook EXCEPT ![r] = "idle"]
      /\ clock' = clock + 1 /\ killed' = killed \ {r}
      /\ raced' = (IF Held(r) # {} THEN raced \cup {r} ELSE raced \ {r})
      /\ UNCHANGED <<stops, pass, batch, faults>>
  BY DEF HookInserts
<1> HIDE DEF new
<1>4. StoreTypeOK'
  BY <1>1, <1>2, <1>3 DEF StoreInv, StoreHolds, StoreTypeOK
<1>5. /\ row'[r] = new /\ hook'[r] = "idle"
      /\ \A s \in Runs : s # r => /\ hook'[s] = hook[s] /\ row'[s] = row[s]
                                  /\ s \in raced' <=> s \in raced
                                  /\ s \in killed' <=> s \in killed
  BY <1>3 DEF StoreInv, StoreHolds, StoreTypeOK
<1>6. r \in Stored' /\ \A s \in Runs : s # r => (s \in Stored' <=> s \in Stored)
  BY <1>2, <1>5 DEF Stored
<1>7. HooksHaveStops'
  BY <1>3, <1>5 DEF StoreInv, HooksHaveStops
<1>8. ConvergesToLatest'
  BY <1>2, <1>3, <1>5, <1>6 DEF StoreInv, StoreHolds, ConvergesToLatest
<1>9. EmbeddingOfOwnText'
  BY <1>2, <1>5, <1>6 DEF StoreInv, StoreHolds, EmbeddingOfOwnText, Stored
<1>10. BatchInHand'
  BY <1>3 DEF StoreInv, BatchInHand
<1>11. HeldIsCurrent'
  <2> SUFFICES ASSUME NEW p \in Passes, NEW i \in 1..Len(batch[p]),
                      batch[p][i].run \in Stored', batch[p][i].run \notin raced'
               PROVE  batch[p][i].content = row'[batch[p][i].run].content
    BY <1>3 DEF HeldIsCurrent, Fresh
  <2>1. batch[p][i].run \in Runs
    BY DEF Stored
  <2>2. batch[p][i].run # r
    BY <1>3 DEF Held
  <2>3. batch[p][i].run \in Stored /\ batch[p][i].run \notin raced
    BY <1>5, <1>6, <2>1, <2>2
  <2>4. batch[p][i].content = row[batch[p][i].run].content
    BY <2>3 DEF StoreInv, HeldIsCurrent, Fresh
  <2> QED
    BY <1>5, <2>1, <2>2, <2>4
<1> QED
  BY <1>4, <1>7, <1>8, <1>9, <1>10, <1>11 DEF StoreInv, StoreHolds

\* A hook that is killed leaves a run that is excused.
LEMMA HookKilledKeeps ==
  ASSUME StoreInv, NEW r \in Runs, HookKilled(r)
  PROVE  StoreInv'
<1>1. StoreTypeOK'
  BY DEF StoreInv, StoreHolds, StoreTypeOK, HookKilled, Fault
<1>2. /\ hook'[r] = "idle" /\ r \in killed'
      /\ \A s \in Runs : s # r => hook'[s] = hook[s] /\ (s \in killed' <=> s \in killed)
  BY DEF StoreInv, StoreHolds, StoreTypeOK, HookKilled
<1>3. HooksHaveStops'
  BY <1>2 DEF StoreInv, HooksHaveStops, HookKilled
<1>4. ConvergesToLatest'
  BY <1>2 DEF HookKilled, StoreInv, StoreHolds, ConvergesToLatest, Stored
<1>5. BatchInHand'
  BY DEF HookKilled, StoreInv, BatchInHand
<1>6. \A p \in Passes : \A i \in 1..Len(batch'[p]) : Fresh(batch'[p][i])
  BY DEF HookKilled, StoreInv, HeldIsCurrent
<1> QED
  BY <1>1, <1>3, <1>4, <1>5, <1>6, TableAlone DEF HookKilled

\* A listing is made of the records as they are.
LEMMA ListKeeps ==
  ASSUME StoreInv, NEW p \in Passes, List(p)
  PROVE  StoreInv'
<1>1. PICK n \in 1..BatchSize, q \in UNION {[1..m -> Runs] : m \in 1..BatchSize} :
        /\ Len(q) = n /\ IsListing(q)
        /\ batch' = [batch EXCEPT ![p] =
             [i \in 1..n |-> [run |-> q[i], content |-> row[q[i]].content]]]
  BY DEF List
<1>2. n \in Nat \ {0}
  BY BatchPositive
<1>3. \A i \in 1..n : q[i] \in Stored /\ q[i] \in Runs
  BY <1>1 DEF IsListing, Pending, Stored
<1> DEFINE listed == [i \in 1..n |-> [run |-> q[i], content |-> row[q[i]].content]]
<1>4. \A i \in 1..n : /\ listed[i] \in Item /\ Fresh(listed[i])
  <2> SUFFICES ASSUME NEW i \in 1..n PROVE listed[i] \in Item /\ Fresh(listed[i])
    OBVIOUS
  <2>1. row[q[i]].content \in Nat \ {0}
    BY <1>3, StoredHasContent DEF StoreInv, StoreHolds, Row
  <2>2. listed[i] = [run |-> q[i], content |-> row[q[i]].content]
    OBVIOUS
  <2> HIDE DEF listed
  <2> QED
    BY <1>3, <2>1, <2>2 DEF Item, Fresh
<1>5. listed \in Seq(Item) /\ Len(listed) = n /\ listed # <<>>
  <2>1. listed \in [1..n -> Item]
    BY <1>4
  <2>1a. listed \in Seq(Item)
    BY <1>2, <2>1, SeqDef
  <2>2. Len(listed) = n
    BY <1>2, <2>1, <2>1a, LenProperties
  <2> QED
    BY <1>2, <2>1a, <2>2, EmptySeq
<1>6. batch' = [batch EXCEPT ![p] = listed] /\ pass' = [pass EXCEPT ![p] = "embed"]
  BY <1>1 DEF List
<1> HIDE DEF listed
<1>7. StoreTypeOK'
  BY <1>5, <1>6 DEF List, StoreInv, StoreHolds, StoreTypeOK
<1>8. batch'[p] = listed /\ \A s \in Passes : s # p => batch'[s] = batch[s] /\ pass'[s] = pass[s]
  BY <1>6 DEF StoreInv, StoreHolds, StoreTypeOK
<1>9. BatchInHand'
  BY <1>5, <1>8 DEF StoreInv, BatchInHand
<1>10. \A s \in Passes : \A i \in 1..Len(batch'[s]) : Fresh(batch'[s][i])
  BY <1>4, <1>5, <1>8 DEF StoreInv, HeldIsCurrent
<1> QED
  BY <1>7, <1>9, <1>10, PassAlone DEF List

\* A pass goes from one place to the next with its batch unchanged.
LEMMA PlaceKeeps ==
  ASSUME StoreInv, NEW p \in Passes, ListEmpty(p) \/ Embed(p)
  PROVE  StoreInv'
<1>1. StoreTypeOK'
  BY DEF ListEmpty, Embed, StoreInv, StoreHolds, StoreTypeOK
<1>2. /\ pass'[p] \in {"embed", "update"} => pass[p] \in {"embed", "update"}
      /\ \A s \in Passes : s # p => pass'[s] = pass[s]
      /\ UNCHANGED <<row, stops, hook, batch, raced, killed>>
  BY DEF ListEmpty, Embed, StoreInv, StoreHolds, StoreTypeOK
<1>3. BatchInHand'
  BY <1>2 DEF StoreInv, BatchInHand
<1>4. \A s \in Passes : \A i \in 1..Len(batch'[s]) : Fresh(batch'[s][i])
  BY <1>2 DEF StoreInv, HeldIsCurrent
<1> QED
  BY <1>1, <1>2, <1>3, <1>4, PassAlone

\* A pass that ends drops its batch.
LEMMA EndKeeps ==
  ASSUME StoreInv, NEW p \in Passes, End(p), UNCHANGED <<row, clock, stops, hook, raced, killed>>,
         faults' \in Nat
  PROVE  StoreInv'
<1>1. StoreTypeOK'
  BY EmptySeq DEF End, StoreInv, StoreHolds, StoreTypeOK
<1>2. /\ pass'[p] = "idle" /\ batch'[p] = <<>>
      /\ \A s \in Passes : s # p => pass'[s] = pass[s] /\ batch'[s] = batch[s]
  BY DEF End, StoreInv, StoreHolds, StoreTypeOK
<1>3. BatchInHand'
  BY <1>2 DEF StoreInv, BatchInHand
<1>4. \A s \in Passes : \A i \in 1..Len(batch'[s]) : Fresh(batch'[s][i])
  BY <1>2, EmptySeq DEF StoreInv, HeldIsCurrent
<1> QED
  BY <1>1, <1>3, <1>4, PassAlone

\* The vector that is written back is of the record's own text, unless the run is raced.
LEMMA UpdateKeeps ==
  ASSUME StoreInv, NEW p \in Passes, Update(p)
  PROVE  StoreInv'
<1> DEFINE it == Head(batch[p])
<1>1. /\ batch[p] \in Seq(Item) /\ batch[p] # <<>> /\ it.run \in Stored
      /\ row' = [row EXCEPT ![it.run].embedding = it.content]
      /\ batch' = [batch EXCEPT ![p] = Tail(batch[p])]
      /\ pass' = [pass EXCEPT ![p] = IF Len(batch[p]) = 1 THEN "next" ELSE pass[p]]
      /\ UNCHANGED <<clock, stops, hook, faults, raced, killed>>
  BY DEF Update, StoreInv, StoreHolds, StoreTypeOK, BatchInHand
<1>2. it \in Item /\ it.run \in Runs /\ it.content \in Nat \ {0} /\ Fresh(it)
  <2>1. it \in Item /\ it = batch[p][1] /\ 1 \in 1..Len(batch[p])
    BY <1>1, RestOfBatch
  <2>2. Fresh(it)
    BY <2>1 DEF StoreInv, HeldIsCurrent
  <2> QED
    BY <2>1, <2>2 DEF Item
<1> HIDE DEF it
<1>3. /\ row[it.run] \in Row
      /\ row'[it.run] = [row[it.run] EXCEPT !.embedding = it.content]
      /\ \A s \in Runs : s # it.run => row'[s] = row[s]
  BY <1>1, <1>2, StoredHasContent DEF StoreInv, StoreHolds, StoreTypeOK
<1>4. /\ row'[it.run] \in Row /\ row'[it.run].content = row[it.run].content
      /\ row'[it.run].embedding = it.content
  BY <1>2, <1>3 DEF Row
<1>5. StoreTypeOK'
  <2>1. row' \in [Runs -> Row \cup {NoRow}]
    BY <1>1, <1>2, <1>3, <1>4 DEF StoreInv, StoreHolds, StoreTypeOK
  <2>2. batch' \in [Passes -> Seq(Item)]
    BY <1>1, RestOfBatch DEF StoreInv, StoreHolds, StoreTypeOK
  <2> QED
    BY <1>1, <2>1, <2>2 DEF StoreInv, StoreHolds, StoreTypeOK
<1>6. \A s \in Runs : (s \in Stored' <=> s \in Stored) /\ row'[s].content = row[s].content
  <2>1. \A s \in Runs : row'[s].content = row[s].content
    BY <1>3, <1>4
  <2>2. \A s \in Runs : s \in Stored <=> row[s].content # 0
    BY StoredHasContent DEF StoreInv, StoreHolds
  <2>3. \A s \in Runs : s \in Stored' <=> row'[s].content # 0
    <3>1. \A s \in Runs : row'[s] = NoRow => row'[s].content = 0
      BY DEF NoRow
    <3>2. \A s \in Runs : row'[s] # NoRow => row'[s] \in Row
      BY <1>5 DEF StoreTypeOK
    <3>3. \A s \in Runs : s \in Stored' <=> row'[s] # NoRow
      BY DEF Stored
    <3> QED
      BY <3>1, <3>2, <3>3 DEF Row
  <2> QED
    BY <2>1, <2>2, <2>3
<1>7. HooksHaveStops'
  BY <1>1 DEF StoreInv, HooksHaveStops
<1>8. ConvergesToLatest'
  BY <1>1, <1>6 DEF StoreInv, StoreHolds, ConvergesToLatest
<1>9. EmbeddingOfOwnText'
  <2> SUFFICES ASSUME NEW s \in Stored', row'[s].embedding # None, s \notin raced
               PROVE  row'[s].embedding = row'[s].content
    BY <1>1 DEF EmbeddingOfOwnText
  <2>1. s \in Runs /\ s \in Stored
    BY <1>6 DEF Stored
  <2>2. CASE s = it.run
    BY <1>2, <1>4, <2>1, <2>2 DEF Fresh
  <2>3. CASE s # it.run
    BY <1>3, <2>1, <2>3 DEF StoreInv, StoreHolds, EmbeddingOfOwnText
  <2> QED
    BY <2>2, <2>3
<1>10. /\ batch'[p] = Tail(batch[p])
       /\ pass'[p] = (IF Len(batch[p]) = 1 THEN "next" ELSE pass[p])
       /\ \A s \in Passes : s # p => batch'[s] = batch[s] /\ pass'[s] = pass[s]
  BY <1>1 DEF StoreInv, StoreHolds, StoreTypeOK
<1>11. BatchInHand'
  BY <1>1, <1>10, RestOfBatch DEF StoreInv, BatchInHand
<1>12. HeldIsCurrent'
  <2>1. ASSUME NEW s \in Passes, NEW i \in 1..Len(batch'[s])
        PROVE  \E j \in 1..Len(batch[s]) : batch'[s][i] = batch[s][j]
    BY <1>1, <1>10, <2>1, RestOfBatch
  <2>2. ASSUME NEW s \in Passes, NEW j \in 1..Len(batch[s])
        PROVE  batch[s][j].run \in Runs /\ Fresh(batch[s][j])
    <3>1. batch[s][j] \in Item
      BY ElementOfSeq DEF StoreInv, StoreHolds, StoreTypeOK
    <3> QED
      BY <3>1 DEF Item, StoreInv, HeldIsCurrent
  <2>3. ASSUME NEW s \in Passes, NEW i \in 1..Len(batch'[s]),
               batch'[s][i].run \in Stored', batch'[s][i].run \notin raced
        PROVE  batch'[s][i].content = row'[batch'[s][i].run].content
    <3>1. PICK j \in 1..Len(batch[s]) : batch'[s][i] = batch[s][j]
      BY <2>1
    <3>2. batch[s][j].run \in Runs /\ Fresh(batch[s][j])
      BY <2>2
    <3> QED
      BY <1>6, <2>3, <3>1, <3>2 DEF Fresh
  <2> QED
    BY <1>1, <2>3 DEF HeldIsCurrent, Fresh
<1> QED
  BY <1>5, <1>7, <1>8, <1>9, <1>11, <1>12 DEF StoreInv, StoreHolds

\* Every step keeps it.
LEMMA InvariantIsKept == StoreInv /\ [StoreNext]_storeVars => StoreInv'
<1> SUFFICES ASSUME StoreInv, [StoreNext]_storeVars PROVE StoreInv'
  OBVIOUS
<1>1. CASE UNCHANGED storeVars
  BY <1>1 DEF storeVars, StoreInv, StoreHolds, StoreTypeOK, EmbeddingOfOwnText, ConvergesToLatest, Stored,
              HooksHaveStops, BatchInHand, HeldIsCurrent, Fresh
<1>2. ASSUME NEW r \in Runs, HookStarts(r) PROVE StoreInv'
  BY <1>2, HookStartsKeeps
<1>3. ASSUME NEW r \in Runs, HookStep(r) PROVE StoreInv'
  BY <1>3, HookGetsKeeps, HookDeletesKeeps, HookInsertsKeeps DEF HookStep
<1>4. ASSUME NEW r \in Runs, HookKilled(r) PROVE StoreInv'
  BY <1>4, HookKilledKeeps
<1>5. ASSUME NEW p \in Passes, List(p) PROVE StoreInv'
  BY <1>5, ListKeeps
<1>6. faults \in Nat
  BY DEF StoreInv, StoreHolds, StoreTypeOK
<1>7. ASSUME NEW p \in Passes, PassGoesOn(p) PROVE StoreInv'
  <2>1. CASE ListEmpty(p) \/ Embed(p)
    BY <2>1, PlaceKeeps
  <2>2. CASE Update(p)
    BY <2>2, UpdateKeeps
  <2>3. CASE UpdateMissing(p)
    BY <1>6, <2>3, EndKeeps DEF UpdateMissing
  <2> QED
    BY <1>7, <2>1, <2>2, <2>3 DEF PassGoesOn
<1>8. ASSUME NEW p \in Passes, EmbedFails(p) \/ PassAbandoned(p) PROVE StoreInv'
  BY <1>6, <1>8, EndKeeps DEF EmbedFails, PassAbandoned, Fault
<1> QED
  BY <1>1, <1>2, <1>3, <1>4, <1>5, <1>7, <1>8 DEF StoreNext

-------------------------------------------------------------------------------
(***************************************************************************)
(* The theorem.                                                            *)
(***************************************************************************)

\* Whatever hooks replace, whatever passes list and write back meanwhile, and whatever is
\* killed: a run's record is of its last stop when the hook is through, and its vector is of
\* the record's own text unless the run was stopped while a pass held the old one
\* (TrajectoryWriter.write_from_run, TrajectoryIndexer.index_pending).
THEOREM StoreIsRight == StoreSpec => []StoreHolds
<1>1. StoreInv => StoreHolds
  BY DEF StoreInv
<1> QED
  BY <1>1, InvariantAtStart, InvariantIsKept, PTL DEF StoreSpec
============================================================================
