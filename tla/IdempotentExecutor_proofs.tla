--------------------- MODULE IdempotentExecutor_proofs ---------------------
(***************************************************************************)
(* Proofs about the idempotency ledger, for every set of keys and any      *)
(* number of crashes and clears.                                           *)
(*                                                                         *)
(* ReexecutionsArePaid is not inductive: it does not say why a call that   *)
(* is about to execute has a free exposure.  CreditInv does, by counting a *)
(* call's durable row, or its execution that is still waiting for the ack, *)
(* as one unit of credit; AckInv says that an ack can only turn the second *)
(* kind of credit into the first.                                          *)
(***************************************************************************)
EXTENDS IdempotentExecutor, TLAPS

Credit(k) == IF /\ pc[k] # "execute"
                /\ Durable(k) \/ pc[k] = "mark"
               THEN 1 ELSE 0

\* What an execution costs is covered by past exposures and at most one credit.
CreditInv == \A k \in Key : effects[k] <= exposures[k] + Credit(k)

\* The /mark the client still waits for has its row, or the row was cleared.
AckInv ==
  \A m \in marks :
    (m.inserted /\ pc[m.key] = "mark" /\ obs[m.key] = m.res)
      => \/ view[m.key] # 0
         \/ effects[m.key] <= exposures[m.key]

\* Only a DELETE sets the connection's view apart from a committed row.
ViewInv == \A k \in Key : db[k] # 0 /\ view[k] # db[k] => k \in deleted

IInv == TypeOK /\ NoPhantomResult /\ ViewInv /\ CreditInv /\ AckInv

----------------------------------------------------------------------------
(* The types of the variables, for every value of the constants.           *)
THEOREM TypeCorrect == Spec => []TypeOK
<1>1. Init => TypeOK
  BY BoundsAreNat DEF Init, TypeOK, Step, Mark
<1>2. TypeOK /\ [Next]_vars => TypeOK'
  <2> SUFFICES ASSUME TypeOK, [Next]_vars
               PROVE  TypeOK'
    OBVIOUS
  <2> USE DEF TypeOK, Step
  <2>1. ASSUME NEW k \in Key, Invoke(k)
        PROVE  TypeOK'
    BY <2>1 DEF Invoke, ledger
  <2>2. ASSUME NEW k \in Key, Executor(k)
        PROVE  TypeOK'
    <3>1. CASE CheckHit(k)
      BY <3>1 DEF CheckHit, ledger
    <3>2. CASE CheckMiss(k)
      BY <3>2 DEF CheckMiss, ledger
    <3>3. CASE CheckFailed(k)
      BY <3>3 DEF CheckFailed, ledger, Expose
    <3>4. CASE Execute(k)
      <4>1. effects[k] + 1 \in Nat \ {0}
        OBVIOUS
      <4>2. [key |-> k, res |-> effects[k] + 1, inserted |-> FALSE] \in Mark
        BY <4>1 DEF Mark
      <4>3. marks' \in SUBSET Mark
        BY <3>4, <4>2 DEF Execute
      <4> QED BY <3>4, <4>1, <4>3 DEF Execute
    <3>5. CASE MarkFailed(k)
      BY <3>5 DEF MarkFailed, ledger, Expose
    <3> QED BY <2>2, <3>1, <3>2, <3>3, <3>4, <3>5 DEF Executor
  <2>3. ASSUME NEW k \in Key, Settle(k)
        PROVE  TypeOK'
    BY <2>3 DEF Settle, ledger
  <2>4. CASE AgentCrash
    BY <2>4 DEF AgentCrash, ledger, Expose
  <2>5. CASE Ledger
    <3>1. ASSUME NEW m \in marks, MarkInsert(m)
          PROVE  TypeOK'
      BY <3>1 DEF MarkInsert, Mark
    <3>2. ASSUME NEW m \in marks, MarkCommit(m)
          PROVE  TypeOK'
      BY <3>2 DEF MarkCommit, CommitAll
    <3>3. ASSUME NEW c \in Conv, ClearDelete(c)
          PROVE  TypeOK'
      BY <3>3 DEF ClearDelete, Expose
    <3>6. CASE ClearCommit
      BY <3>6 DEF ClearCommit, CommitAll
    <3>4. CASE BffStop
      BY <3>4 DEF BffStop
    <3>5. CASE BffStart
      BY <3>5 DEF BffStart
    <3> QED BY <2>5, <3>1, <3>2, <3>3, <3>4, <3>5, <3>6 DEF Ledger
  <2>6. CASE UNCHANGED vars
    BY <2>6 DEF vars, ledger
  <2> QED BY <2>1, <2>2, <2>3, <2>4, <2>5, <2>6 DEF Next
<1> QED BY <1>1, <1>2, PTL DEF Spec

----------------------------------------------------------------------------
(* Observations are never invented, and pending rows never shadow others.  *)
LEMMA ResultStep ==
  ASSUME TypeOK, NoPhantomResult, ViewInv, [Next]_vars
  PROVE  NoPhantomResult' /\ ViewInv'
<1> USE DEF TypeOK, Step, NoPhantomResult, ViewInv
<1>1. ASSUME NEW k \in Key, Invoke(k)
      PROVE  NoPhantomResult' /\ ViewInv'
  BY <1>1 DEF Invoke, ledger
<1>2. ASSUME NEW k \in Key, CheckHit(k)
      PROVE  NoPhantomResult' /\ ViewInv'
  BY <1>2 DEF CheckHit, ledger
<1>3. ASSUME NEW k \in Key, CheckMiss(k)
      PROVE  NoPhantomResult' /\ ViewInv'
  BY <1>3 DEF CheckMiss, ledger
<1>4. ASSUME NEW k \in Key, CheckFailed(k)
      PROVE  NoPhantomResult' /\ ViewInv'
  BY <1>4 DEF CheckFailed, ledger
<1>5. ASSUME NEW k \in Key, Execute(k)
      PROVE  NoPhantomResult' /\ ViewInv'
  <2>1. \A j \in Key : effects[j] <= effects'[j]
    BY <1>5 DEF Execute
  <2>2. \A m \in marks' : m.res <= effects'[m.key]
    BY <1>5, <2>1 DEF Execute, Mark
  <2> QED BY <1>5, <2>1, <2>2 DEF Execute
<1>6. ASSUME NEW k \in Key, MarkFailed(k)
      PROVE  NoPhantomResult' /\ ViewInv'
  BY <1>6 DEF MarkFailed, ledger
<1>7. ASSUME NEW k \in Key, Settle(k)
      PROVE  NoPhantomResult' /\ ViewInv'
  BY <1>7 DEF Settle, ledger
<1>8. CASE AgentCrash
  BY <1>8 DEF AgentCrash, ledger
<1>9. ASSUME NEW m \in marks, MarkInsert(m)
      PROVE  NoPhantomResult' /\ ViewInv'
  <2>1. m.key \in Key /\ m.res \in Nat
    BY DEF Mark
  <2>2. \A n \in marks' : n.res <= effects'[n.key]
    BY <1>9 DEF MarkInsert, Mark
  <2> QED BY <1>9, <2>1, <2>2 DEF MarkInsert
<1>10. ASSUME NEW m \in marks, MarkCommit(m)
       PROVE  NoPhantomResult' /\ ViewInv'
  <2>1. m.key \in Key /\ m.res # 0
    BY DEF Mark
  <2> QED BY <1>10, <2>1 DEF MarkCommit, CommitAll
<1>11. ASSUME NEW c \in Conv, ClearDelete(c)
       PROVE  NoPhantomResult' /\ ViewInv'
  BY <1>11 DEF ClearDelete
<1>15. CASE ClearCommit
  BY <1>15 DEF ClearCommit, CommitAll
<1>12. CASE BffStop
  BY <1>12 DEF BffStop
<1>13. CASE BffStart
  BY <1>13 DEF BffStart
<1>14. CASE UNCHANGED vars
  BY <1>14 DEF vars, ledger
<1> QED
  BY <1>1, <1>2, <1>3, <1>4, <1>5, <1>6, <1>7, <1>8, <1>9, <1>10, <1>11,
     <1>12, <1>13, <1>14, <1>15 DEF Next, Executor, Ledger

----------------------------------------------------------------------------
(* The accounting of executions against exposures, action by action.       *)
LEMMA CreditStep ==
  ASSUME IInv, TypeOK', [Next]_vars
  PROVE  CreditInv' /\ AckInv'
<1> USE DEF IInv, TypeOK, Step, CreditInv, Credit, AckInv, Durable
<1>1. ASSUME NEW k \in Key, Invoke(k)
      PROVE  CreditInv' /\ AckInv'
  BY <1>1 DEF Invoke, ledger
<1>2. ASSUME NEW k \in Key, CheckHit(k)
      PROVE  CreditInv' /\ AckInv'
  BY <1>2 DEF CheckHit, ledger
<1>3. ASSUME NEW k \in Key, CheckMiss(k)
      PROVE  CreditInv' /\ AckInv'
  BY <1>3 DEF CheckMiss, ledger
<1>4. ASSUME NEW k \in Key, CheckFailed(k)
      PROVE  CreditInv' /\ AckInv'
  <2>1. CreditInv'
    BY <1>4 DEF CheckFailed, ledger, Expose
  <2>2. \A j \in Key : exposures'[j] >= exposures[j]
    BY <1>4 DEF CheckFailed, Expose
  <2>3. AckInv'
    BY <1>4, <2>2 DEF CheckFailed, ledger, Mark
  <2> QED BY <2>1, <2>3
<1>5. ASSUME NEW k \in Key, Execute(k)
      PROVE  CreditInv' /\ AckInv'
  <2>1. CreditInv'
    BY <1>5 DEF Execute
  <2>2. ASSUME NEW m \in marks', m.inserted, pc'[m.key] = "mark",
               obs'[m.key] = m.res
        PROVE  m \in marks /\ m.key # k
    BY <1>5, <2>2 DEF Execute, NoPhantomResult, Mark
  <2>3. AckInv'
    BY <1>5, <2>2 DEF Execute, Mark
  <2> QED BY <2>1, <2>3
<1>6. ASSUME NEW k \in Key, MarkFailed(k)
      PROVE  CreditInv' /\ AckInv'
  <2>1. CreditInv'
    BY <1>6 DEF MarkFailed, ledger, Expose
  <2>2. \A j \in Key : exposures'[j] >= exposures[j]
    BY <1>6 DEF MarkFailed, Expose
  <2>3. AckInv'
    BY <1>6, <2>2 DEF MarkFailed, ledger, Mark
  <2> QED BY <2>1, <2>3
<1>7. ASSUME NEW k \in Key, Settle(k)
      PROVE  CreditInv' /\ AckInv'
  BY <1>7 DEF Settle, ledger
<1>8. CASE AgentCrash
  BY <1>8 DEF AgentCrash, ledger, Expose, Mark
<1>9. ASSUME NEW m \in marks, MarkInsert(m)
      PROVE  CreditInv' /\ AckInv'
  <2>1. m.key \in Key /\ m.res \in Nat \ {0}
    BY DEF Mark
  <2>2. \A j \in Key : view[j] # 0 => view'[j] # 0
    BY <1>9, <2>1 DEF MarkInsert
  <2>3. view'[m.key] # 0
    BY <1>9, <2>1 DEF MarkInsert
  <2>4. ASSUME NEW n \in marks', n.key # m.key
        PROVE  n \in marks
    BY <1>9, <2>4 DEF MarkInsert, Mark
  <2>5. AckInv'
    BY <1>9, <2>2, <2>3, <2>4 DEF MarkInsert, Mark
  <2> QED BY <1>9, <2>5 DEF MarkInsert
<1>10. ASSUME NEW m \in marks, MarkCommit(m)
       PROVE  CreditInv' /\ AckInv'
  <2>1. m.key \in Key
    BY DEF Mark
  <2>2. \A j \in Key : view'[j] = view[j] /\ db'[j] = view[j]
    BY <1>10 DEF MarkCommit, CommitAll
  <2>3. CreditInv'
    BY <1>10, <2>1, <2>2 DEF MarkCommit
  <2>4. AckInv'
    BY <1>10, <2>1, <2>2 DEF MarkCommit, Mark
  <2> QED BY <2>3, <2>4
<1>11. ASSUME NEW c \in Conv, ClearDelete(c)
       PROVE  CreditInv' /\ AckInv'
  <2>1. \A j \in Key : exposures'[j] >= exposures[j]
    BY <1>11 DEF ClearDelete, Expose
  <2>2. CreditInv'
    BY <1>11, <2>1 DEF ClearDelete, Expose
  <2>3. AckInv'
    <3> SUFFICES ASSUME NEW m \in marks, m.inserted, pc[m.key] = "mark",
                        obs[m.key] = m.res, view'[m.key] = 0
                 PROVE  effects[m.key] <= exposures'[m.key]
      BY <1>11 DEF ClearDelete
    <3>1. m.key \in Key
      BY DEF Mark
    <3>2. CASE view[m.key] = 0
      BY <3>1, <3>2, <2>1
    <3>3. CASE view[m.key] # 0
      <4>1. ConvOf[m.key] = c
        BY <1>11, <3>1, <3>3 DEF ClearDelete
      <4>2. exposures'[m.key] = exposures[m.key] + 1
        BY <1>11, <3>1, <3>3, <4>1 DEF ClearDelete, Expose
      <4> QED BY <3>1, <4>2
    <3> QED BY <3>2, <3>3
  <2> QED BY <2>2, <2>3
<1>12. CASE BffStop
  BY <1>12 DEF BffStop
<1>13. CASE BffStart
  BY <1>13 DEF BffStart
<1>15. CASE ClearCommit
  BY <1>15 DEF ClearCommit, CommitAll
<1>14. CASE UNCHANGED vars
  BY <1>14 DEF vars, ledger
<1> QED
  BY <1>1, <1>2, <1>3, <1>4, <1>5, <1>6, <1>7, <1>8, <1>9, <1>10, <1>11,
     <1>12, <1>13, <1>14, <1>15 DEF Next, Executor, Ledger

(* The inductive invariant holds in every reachable state.                 *)
LEMMA Invariance == Spec => []IInv
<1>1. Init => IInv
  BY BoundsAreNat DEF Init, IInv, TypeOK, Step, Mark, NoPhantomResult, ViewInv,
     CreditInv, Credit, AckInv
<1>2. IInv /\ TypeOK' /\ [Next]_vars => IInv'
  BY ResultStep, CreditStep DEF IInv
<1> QED BY <1>1, <1>2, TypeCorrect, PTL DEF Spec

----------------------------------------------------------------------------
(* Every observation anyone holds comes from an execution of its own key.  *)
THEOREM ResultsAreReal == Spec => []NoPhantomResult
<1>1. IInv => NoPhantomResult
  BY DEF IInv
<1> QED BY <1>1, Invariance, PTL

(* For any number of keys, crashes, clears and BFF restarts, a call is     *)
(* executed at most once more than it was exposed by a fault.              *)
THEOREM ReexecutionBound == Spec => []ReexecutionsArePaid
<1>1. ASSUME IInv, NEW k \in Key
      PROVE  effects[k] <= exposures[k] + 1
  <2>1. Credit(k) \in {0, 1}
    BY DEF Credit
  <2>2. effects[k] <= exposures[k] + Credit(k)
    BY <1>1 DEF IInv, CreditInv
  <2> QED BY <1>1, <2>1, <2>2 DEF IInv, TypeOK
<1>2. IInv => ReexecutionsArePaid
  BY <1>1 DEF ReexecutionsArePaid
<1> QED BY <1>2, Invariance, PTL

(* What a handler saw gives way to no other row, and a committed row only  *)
(* changes in a commit that carries a DELETE of it.                        *)
THEOREM LedgerIsFirstWins == Spec => FirstMarkWins
<1>1. IInv /\ [Next]_vars => [\A k \in Key : FirstWins(k)]_vars
  <2> SUFFICES ASSUME IInv, Next, NEW k \in Key
               PROVE  FirstWins(k)
    OBVIOUS
  <2> USE DEF IInv, TypeOK, FirstWins
  <2>1. ASSUME NEW c \in Conv, ClearDelete(c)
        PROVE  FirstWins(k)
    BY <2>1 DEF ClearDelete
  <2>2. ASSUME CommitAll, UNCHANGED view
        PROVE  FirstWins(k)
    BY <2>2 DEF CommitAll, ViewInv
  <2>3. ASSUME NEW m \in marks, MarkInsert(m)
        PROVE  FirstWins(k)
    BY <2>3 DEF MarkInsert
  <2>4. CASE BffStop
    BY <2>4 DEF BffStop
  <2>5. ASSUME UNCHANGED <<db, view>>
        PROVE  FirstWins(k)
    BY <2>5
  <2> QED
    BY <2>1, <2>2, <2>3, <2>4, <2>5 DEF Next, Executor, Ledger, Invoke, CheckHit,
       CheckMiss, CheckFailed, Execute, MarkFailed, Settle, AgentCrash, MarkCommit,
       ClearCommit, BffStart, ledger
<1> QED BY <1>1, Invariance, PTL DEF Spec, FirstMarkWins

----------------------------------------------------------------------------
(* The executor and the ledger implement the at-least-once contract.       *)
THEOREM RefinesContract == Spec => ImplementsContract
<1> DEFINE ans == [k \in Key |-> IF pc[k] \in {"returned", "settled"}
                                   THEN obs[k] ELSE 0]
           set == {k \in Key : pc[k] = "settled"}
<1>1. Init => Contract!Init
  BY DEF Init, Contract!Init
<1>2. IInv /\ [Next]_vars => [Contract!Next]_Contract!vars
  <2> SUFFICES ASSUME IInv, [Next]_vars
               PROVE  \/ Contract!Next
                      \/ UNCHANGED <<effects, ans, set>>
    BY DEF Contract!vars
  <2> USE DEF IInv, TypeOK, Step
  <2>1. ASSUME NEW k \in Key, CheckHit(k)
        PROVE  Contract!Answer(k)
    <3>1. view[k] \in 1..effects[k]
      BY <2>1 DEF CheckHit, NoPhantomResult
    <3>2. ans' = [ans EXCEPT ![k] = view[k]]
      BY <2>1 DEF CheckHit
    <3>3. ans[k] = 0 /\ set' = set /\ effects' = effects
      BY <2>1 DEF CheckHit
    <3> QED BY <3>1, <3>2, <3>3 DEF Contract!Answer
  <2>2. ASSUME NEW k \in Key, Execute(k)
        PROVE  Contract!Perform(k)
    BY <2>2 DEF Execute, Contract!Perform
  <2>3. ASSUME NEW k \in Key, MarkFailed(k)
        PROVE  Contract!Answer(k)
    <3>1. obs[k] \in 1..effects[k]
      BY <2>3 DEF MarkFailed, NoPhantomResult
    <3>2. ans' = [ans EXCEPT ![k] = obs[k]]
      BY <2>3 DEF MarkFailed
    <3>3. ans[k] = 0 /\ set' = set /\ effects' = effects
      BY <2>3 DEF MarkFailed
    <3> QED BY <3>1, <3>2, <3>3 DEF Contract!Answer
  <2>4. ASSUME NEW k \in Key, Settle(k)
        PROVE  Contract!Settle(k)
    BY <2>4 DEF Settle, ledger, NoPhantomResult, Contract!Settle
  <2>5. CASE AgentCrash
    BY <2>5 DEF AgentCrash, ledger, Contract!Next, Contract!Forget
  <2>6. ASSUME NEW m \in marks, MarkCommit(m)
        PROVE  Contract!Answer(m.key) \/ UNCHANGED <<effects, ans, set>>
    <3>1. m.key \in Key /\ m.res \in Nat \ {0}
      BY DEF Mark
    <3>2. CASE UNCHANGED pc
      BY <2>6, <3>2 DEF MarkCommit
    <3>3. CASE ~UNCHANGED pc
      <4>1. /\ pc[m.key] = "mark"
            /\ pc' = [pc EXCEPT ![m.key] = "returned"]
            /\ UNCHANGED <<obs, effects>>
        BY <2>6, <3>3 DEF MarkCommit
      <4>2. obs[m.key] \in 1..effects[m.key]
        BY <3>1, <4>1 DEF NoPhantomResult
      <4>3. ans' = [ans EXCEPT ![m.key] = obs[m.key]]
        BY <3>1, <4>1
      <4>4. ans[m.key] = 0 /\ set' = set
        BY <3>1, <4>1
      <4> QED BY <4>1, <4>2, <4>3, <4>4 DEF Contract!Answer
    <3> QED BY <3>2, <3>3
  <2>7. ASSUME NEW k \in Key, Invoke(k) \/ CheckMiss(k) \/ CheckFailed(k)
        PROVE  UNCHANGED <<effects, ans, set>>
    BY <2>7 DEF Invoke, CheckMiss, CheckFailed, ledger
  <2>8. ASSUME UNCHANGED <<effects, pc, obs>>
        PROVE  UNCHANGED <<effects, ans, set>>
    BY <2>8
  <2>9. ASSUME Ledger, ~\E m \in marks : MarkCommit(m)
        PROVE  UNCHANGED <<effects, pc, obs>>
    BY <2>9 DEF Ledger, MarkInsert, ClearDelete, ClearCommit, BffStop, BffStart
  <2>10. \A m \in marks : m.key \in Key
    BY DEF Mark
  <2> QED
    BY <2>1, <2>2, <2>3, <2>4, <2>5, <2>6, <2>7, <2>8, <2>9, <2>10
    DEF Next, Executor, vars, Contract!Next
<1> QED BY <1>1, <1>2, Invariance, PTL
        DEF Spec, ImplementsContract, Contract!Spec
============================================================================
