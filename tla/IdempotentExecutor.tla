------------------------ MODULE IdempotentExecutor -------------------------
(***************************************************************************)
(* The exactly-once ledger for state-changing tools.                       *)
(*                                                                         *)
(* A tool call runs in the agent-server (IdempotentToolExecutor.__call__): *)
(* ask the BFF whether the call's key has completed, execute on a miss,    *)
(* then tell the BFF to record the key.  Both HTTP calls fail open after   *)
(* two seconds.  The ledger is one SQLite table behind one shared          *)
(* connection of the BFF process, so what a handler writes is seen by all  *)
(* of them at once and is durable only when some handler commits.          *)
(*                                                                         *)
(* The agent-server runs one call per key at a time; after a crash it      *)
(* issues again every call whose observation it had not persisted.         *)
(*                                                                         *)
(* An observation is abstracted to the number of the execution it comes    *)
(* from, 0 standing for "no observation" and for "no row".  The key is a   *)
(* model value: equal keys are equal (conversation, leaf, tool, arguments).*)
(***************************************************************************)
EXTENDS Naturals

CONSTANTS
  Key,          \* the calls of the run, one per idempotency key
  Conv,         \* conversation ids
  ConvOf,       \* [Key -> Conv]
  MaxCrashes,   \* bound: crashes of the agent-server
  MaxClears     \* bound: calls of clear_conversation

ASSUME KeysBelongToConversations == ConvOf \in [Key -> Conv]
ASSUME BoundsAreNat == MaxCrashes \in Nat /\ MaxClears \in Nat

VARIABLES
  pc,           \* [Key -> where its invocation is]
  obs,          \* [Key -> the observation the invocation holds]
  effects,      \* [Key -> how often the side effect has happened]
  db,           \* [Key -> the committed row's observation]
  view,         \* [Key -> the row the shared connection sees]
  clearing,     \* calls of clear_conversation between DELETE and commit
  marks,        \* POST /mark requests the BFF holds
  up,           \* is the BFF serving?
  crashes,      \* crashes of the agent-server so far
  clears,       \* calls of clear_conversation so far
  deleted,      \* history: keys the open transaction holds a DELETE of
  exposures     \* history: [Key -> how often a fault hid or lost its row]

ledger == <<db, view, clearing, marks, up, clears, deleted>>
vars   == <<pc, obs, effects, ledger, crashes, exposures>>

Step == {"idle", "check", "execute", "mark", "returned", "settled"}

Mark == [key : Key, res : Nat \ {0}, inserted : BOOLEAN]

\* The row of k is durable, and no uncommitted DELETE is about to take it.
Durable(k) == db[k] # 0 /\ view[k] # 0

\* Faults are counted only when they leave the call without a durable row,
\* or when they hide the row that is there.
Expose(S) == exposures' = [k \in Key |-> IF k \in S THEN exposures[k] + 1
                                                    ELSE exposures[k]]

Init ==
  /\ pc = [k \in Key |-> "idle"]
  /\ obs = [k \in Key |-> 0]
  /\ effects = [k \in Key |-> 0]
  /\ db = [k \in Key |-> 0]
  /\ view = [k \in Key |-> 0]
  /\ clearing = 0
  /\ marks = {}
  /\ up = TRUE
  /\ crashes = 0
  /\ clears = 0
  /\ deleted = {}
  /\ exposures = [k \in Key |-> 0]

----------------------------------------------------------------------------
(* Mutated forms, each a plausible bug; no specification uses them.        *)

\* the key loses its leaf and its arguments: another call's row is a hit
CheckHitAnyRow(k) ==
  /\ pc[k] = "check"
  /\ up
  /\ \E j \in Key : /\ view[j] # 0
                    /\ obs' = [obs EXCEPT ![k] = view[j]]
  /\ pc' = [pc EXCEPT ![k] = "returned"]
  /\ UNCHANGED <<effects, crashes, exposures, ledger>>

\* a failed check raises instead of failing open: no observation is returned
CheckFailedClosed(k) ==
  /\ pc[k] = "check"
  /\ pc' = [pc EXCEPT ![k] = "returned"]
  /\ UNCHANGED <<obs, effects, crashes, exposures, ledger>>

\* no timeout on /check: an unreachable BFF blocks the tool
CheckFailedNoTimeout(k) ==
  /\ pc[k] = "check"
  /\ up
  /\ pc' = [pc EXCEPT ![k] = "execute"]
  /\ Expose(IF Durable(k) THEN {k} ELSE {})
  /\ UNCHANGED <<obs, effects, crashes, ledger>>

\* the mark is sent with result_json = None
ExecuteNoPayload(k) ==
  /\ pc[k] = "execute"
  /\ effects' = [effects EXCEPT ![k] = @ + 1]
  /\ obs' = [obs EXCEPT ![k] = effects[k] + 1]
  /\ pc' = [pc EXCEPT ![k] = "mark"]
  /\ up
  /\ marks' = marks \cup {[key |-> k, res |-> 0, inserted |-> FALSE]}
  /\ UNCHANGED <<db, view, clearing, up, crashes, clears, deleted,
                 exposures>>

\* INSERT OR REPLACE
MarkInsertReplace(m) ==
  /\ up
  /\ m \in marks
  /\ ~m.inserted
  /\ view' = [view EXCEPT ![m.key] = m.res]
  /\ marks' = (marks \ {m}) \cup {[m EXCEPT !.inserted = TRUE]}
  /\ UNCHANGED <<pc, obs, effects, db, clearing, up, crashes, clears, deleted,
                 exposures>>

\* the commit is forgotten
MarkCommitForgotten(m) ==
  /\ up
  /\ m \in marks
  /\ m.inserted
  /\ marks' = marks \ {m}
  /\ pc[m.key] = "mark" /\ obs[m.key] = m.res
  /\ pc' = [pc EXCEPT ![m.key] = "returned"]
  /\ UNCHANGED <<obs, effects, db, view, clearing, up, crashes, clears, deleted,
                 exposures>>

----------------------------------------------------------------------------
(* The executor, in the agent-server.                                      *)

Invoke(k) ==
  /\ pc[k] = "idle"
  /\ pc' = [pc EXCEPT ![k] = "check"]
  /\ UNCHANGED <<obs, effects, crashes, exposures, ledger>>

CheckHit(k) ==
  /\ pc[k] = "check"
  /\ up
  /\ view[k] # 0
  /\ pc' = [pc EXCEPT ![k] = "returned"]
  /\ obs' = [obs EXCEPT ![k] = view[k]]
  /\ UNCHANGED <<effects, crashes, exposures, ledger>>

CheckMiss(k) ==
  /\ pc[k] = "check"
  /\ up
  /\ view[k] = 0
  /\ pc' = [pc EXCEPT ![k] = "execute"]
  /\ UNCHANGED <<obs, effects, crashes, exposures, ledger>>

\* Timeout, refused connection or a status other than 200: (False, None, None).
CheckFailed(k) ==
  /\ pc[k] = "check"
  /\ pc' = [pc EXCEPT ![k] = "execute"]
  /\ Expose(IF Durable(k) THEN {k} ELSE {})
  /\ UNCHANGED <<obs, effects, crashes, ledger>>

\* _execute: os.replace is the one visible effect.  Then POST /mark goes out;
\* it may never reach the BFF.
Execute(k) ==
  /\ pc[k] = "execute"
  /\ effects' = [effects EXCEPT ![k] = @ + 1]
  /\ obs' = [obs EXCEPT ![k] = effects[k] + 1]
  /\ pc' = [pc EXCEPT ![k] = "mark"]
  /\ \/ UNCHANGED marks
     \/ /\ up
        /\ marks' = marks \cup {[key |-> k, res |-> effects[k] + 1,
                                 inserted |-> FALSE]}
  /\ UNCHANGED <<db, view, clearing, up, crashes, clears, deleted,
                 exposures>>

\* The client gives up on /mark, logs, and returns the observation anyway.
\* The request may still be in the BFF.
MarkFailed(k) ==
  /\ pc[k] = "mark"
  /\ pc' = [pc EXCEPT ![k] = "returned"]
  /\ Expose(IF Durable(k) THEN {} ELSE {k})
  /\ UNCHANGED <<obs, effects, crashes, ledger>>

\* The SDK persists the observation event.
Settle(k) ==
  /\ pc[k] = "returned"
  /\ pc' = [pc EXCEPT ![k] = "settled"]
  /\ UNCHANGED <<obs, effects, crashes, exposures, ledger>>

\* kill -9 of the agent-server: every call without a persisted observation
\* will be issued again.
AgentCrash ==
  /\ crashes < MaxCrashes
  /\ crashes' = crashes + 1
  /\ pc'  = [k \in Key |-> IF pc[k] = "settled" THEN "settled" ELSE "idle"]
  /\ obs' = [k \in Key |-> IF pc[k] = "settled" THEN obs[k] ELSE 0]
  /\ Expose({k \in Key : pc[k] = "mark" /\ ~Durable(k)})
  /\ UNCHANGED <<effects, ledger>>

----------------------------------------------------------------------------
(* The ledger, in the BFF.                                                 *)

\* mark_completed up to its first await: INSERT OR IGNORE.
MarkInsert(m) ==
  /\ up
  /\ m \in marks
  /\ ~m.inserted
  /\ view' = [view EXCEPT ![m.key] = IF view[m.key] = 0 THEN m.res ELSE @]
  /\ marks' = (marks \ {m}) \cup {[m EXCEPT !.inserted = TRUE]}
  /\ UNCHANGED <<pc, obs, effects, db, clearing, up, crashes, clears, deleted,
                 exposures>>

\* A commit makes whatever the connection holds durable, whoever wrote it.
CommitAll ==
  /\ db' = view
  /\ deleted' = {}

\* The 200 finds the client waiting, or it is lost.
MarkCommit(m) ==
  /\ up
  /\ m \in marks
  /\ m.inserted
  /\ CommitAll
  /\ marks' = marks \ {m}
  /\ \/ UNCHANGED pc
     \/ /\ pc[m.key] = "mark"
        /\ obs[m.key] = m.res
        /\ pc' = [pc EXCEPT ![m.key] = "returned"]
  /\ UNCHANGED <<obs, effects, view, clearing, up, crashes, clears, exposures>>

\* clear_conversation up to its first await: the conversation's rows are gone
\* for every handler, and back again if the BFF stops before a commit.
ClearDelete(c) ==
  /\ up
  /\ clears < MaxClears
  /\ clears' = clears + 1
  /\ clearing' = clearing + 1
  /\ view' = [k \in Key |-> IF ConvOf[k] = c THEN 0 ELSE view[k]]
  /\ deleted' = deleted \cup {k \in Key : ConvOf[k] = c /\ view[k] # 0}
  /\ Expose({k \in Key : ConvOf[k] = c /\ view[k] # 0})
  /\ UNCHANGED <<pc, obs, effects, db, marks, up, crashes>>

\* Its second await.  A mark may have inserted, or even committed, in between.
ClearCommit ==
  /\ up
  /\ clearing > 0
  /\ clearing' = clearing - 1
  /\ CommitAll
  /\ UNCHANGED <<pc, obs, effects, view, marks, up, crashes, clears, exposures>>

\* A crash, or a shutdown through close_db: requests and the open transaction
\* are gone, the committed rows are not.
BffStop ==
  /\ up
  /\ up' = FALSE
  /\ marks' = {}
  /\ clearing' = 0
  /\ view' = db
  /\ deleted' = {}
  /\ UNCHANGED <<pc, obs, effects, db, crashes, clears, exposures>>

\* init_db: CREATE TABLE IF NOT EXISTS keeps what is on disk.
BffStart ==
  /\ ~up
  /\ up' = TRUE
  /\ UNCHANGED <<pc, obs, effects, db, view, clearing, marks, crashes, clears,
                 deleted, exposures>>

----------------------------------------------------------------------------
Executor(k) ==
  \/ CheckHit(k) \/ CheckMiss(k) \/ CheckFailed(k)
  \/ Execute(k) \/ MarkFailed(k)

Ledger ==
  \/ \E m \in marks : MarkInsert(m) \/ MarkCommit(m)
  \/ \E c \in Conv : ClearDelete(c)
  \/ ClearCommit
  \/ BffStop
  \/ BffStart

Next ==
  \/ \E k \in Key : Invoke(k) \/ Executor(k) \/ Settle(k)
  \/ AgentCrash
  \/ Ledger

Spec == Init /\ [][Next]_vars

\* __call__ is synchronous code with a timeout on both requests: each step of
\* an invocation is taken.  Nothing is assumed of the BFF.
FairSpec == Spec /\ \A k \in Key : WF_vars(Executor(k))

----------------------------------------------------------------------------
TypeOK ==
  /\ pc \in [Key -> Step]
  /\ obs \in [Key -> Nat]
  /\ effects \in [Key -> Nat]
  /\ db \in [Key -> Nat]
  /\ view \in [Key -> Nat]
  /\ clearing \in Nat
  /\ marks \in SUBSET Mark
  /\ up \in BOOLEAN
  /\ crashes \in Nat
  /\ clears \in Nat
  /\ deleted \in SUBSET Key
  /\ exposures \in [Key -> Nat]

(* No answer without an effect: every observation that is held, returned,  *)
(* pending in a request, inserted or committed is the observation of an    *)
(* execution of that key that really happened (__call__ marks only after   *)
(* _execute, and a hit is served from the row of the same key).            *)
NoPhantomResult ==
  /\ \A k \in Key : /\ obs[k] <= effects[k]
                    /\ db[k] <= effects[k]
                    /\ view[k] <= effects[k]
                    /\ pc[k] \in {"mark", "returned", "settled"} => obs[k] # 0
  /\ \A m \in marks : m.res <= effects[m.key]

(* Each execution after the first is paid for by a fault that hid or lost  *)
(* the row: a check that failed open over a committed row, a crash or a    *)
(* failed /mark between the effect and the commit, or a clear.  Without    *)
(* such a fault the ledger is exactly-once, whatever delayed or duplicate  *)
(* marks the BFF still processes.                                          *)
ReexecutionsArePaid == \A k \in Key : effects[k] <= exposures[k] + 1

(* The first mark wins: a row a handler can see gives way to no other row  *)
(* (INSERT OR IGNORE in mark_completed); only a DELETE of its conversation *)
(* hides it, or the rollback of a transaction the BFF never committed.     *)
(* And a committed row changes in no commit but one that carries such a    *)
(* DELETE, also when the row of a late mark is committed along with it.    *)
FirstWins(k) ==
  /\ view[k] # 0 => \/ view'[k] = view[k]
                    \/ view'[k] = 0 /\ clears' > clears
                    \/ view'[k] = db[k] /\ ~up'
  /\ db[k] # 0 => db'[k] = db[k] \/ k \in deleted

FirstMarkWins == [][\A k \in Key : FirstWins(k)]_vars

(* Fail-open: an invocation returns, or dies with the agent-server, even   *)
(* if the BFF never answers (the timeouts of _check_completed and          *)
(* _mark_completed).                                                       *)
CallReturns ==
  \A k \in Key : pc[k] \in {"check", "execute", "mark"}
                   ~> pc[k] \in {"returned", "settled", "idle"}

(* What the module docstring promises ("durable exactly-once ledger"; "a   *)
(* crash after _execute but before mark is still safe"): no call has its   *)
(* side effect twice.                                                      *)
ExactlyOnce == \A k \in Key : effects[k] <= 1

----------------------------------------------------------------------------
(* The at-least-once contract this component implements.                   *)

Contract == INSTANCE AtLeastOnceCall WITH
  answer  <- [k \in Key |-> IF pc[k] \in {"returned", "settled"}
                              THEN obs[k] ELSE 0],
  settled <- {k \in Key : pc[k] = "settled"}

(* Every step of executor, ledger and faults is a step of the contract.    *)
ImplementsContract == Contract!Spec
============================================================================
