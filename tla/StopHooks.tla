----------------------------- MODULE StopHooks -----------------------------
(***************************************************************************)
(* The STOP hooks of a conversation.  When the agent wants to stop, the    *)
(* SDK runs the verify hook and then, whatever that said, the trajectory   *)
(* hook.  The verify hook is a fresh process each time: it loads its       *)
(* session's entry of verify-state.json, applies VerifyLoop.on_stop, and   *)
(* writes the whole file back, without a lock and in place; then it        *)
(* answers "block" or not.  The trajectory hook reads the verdict from the *)
(* file and replaces the run's record with one of that status; it is       *)
(* killed at a timeout, too, and fails on a database that stays locked.    *)
(*                                                                         *)
(* Sessions are conversations that share a workspace: with a worktree each *)
(* there is one, and when provisioning falls back to the raw path there    *)
(* are several.                                                            *)
(***************************************************************************)
EXTENDS Integers, FiniteSets

CONSTANTS
  Sessions,
  MaxIterations,  \* FORGE_OH_VERIFY_MAX_ITERATIONS (3 by default)
  MaxTasks,       \* bound: follow-up messages the user sends
  MaxKills,       \* bound: hooks that are killed at their timeout, or fail
  MaxBlocks       \* bound: stops of one conversation that are blocked

ASSUME SessionsFinite == IsFiniteSet(Sessions)
ASSUME BudgetPositive == MaxIterations \in Nat \ {0}
ASSUME BoundsAreNat == {MaxTasks, MaxKills, MaxBlocks} \subseteq Nat

VARIABLES
  file,         \* verify-state.json: [Sessions -> entry]
  pc,           \* per session: where its hooks are
  used,         \* local: _iterations_used
  edited,       \* local: are there edited files since the last verify?
  verdict,      \* local: decision.step.verdict, or "no-step"
  block,        \* local: decision.block
  snap,         \* local: the file as _save_state read it
  record,       \* final_status of the trajectory record, or "none"
  tasks,        \* follow-up messages sent so far
  kills,        \* hooks killed or failed so far
  spent,        \* history: verifications that were run
  blocks,       \* history: stops that were blocked
  lost,         \* history: the most of them that a hook found missing in the file
  missed        \* history: sessions whose last stop recorded nothing

locals  == <<used, edited, verdict, block, snap>>
history == <<spent, blocks, lost, missed>>
vars    == <<file, pc, locals, record, tasks, kills, history>>

Verdict == {"pass", "fail", "skipped", "no-step", ""}
Entry   == [used : Nat, edited : BOOLEAN, verdict : Verdict]
NoEntry == [used |-> 0, edited |-> FALSE, verdict |-> ""]

\* No file, and a file that does not parse: every reader takes both for {}.
Empty   == [s \in Sessions |-> NoEntry]
Hook == {"load", "verify", "truncate", "write"}

Init ==
  /\ file = Empty
  /\ pc = [s \in Sessions |-> "working"]
  /\ used = [s \in Sessions |-> 0]
  /\ edited = [s \in Sessions |-> FALSE]
  /\ verdict = [s \in Sessions |-> ""]
  /\ block = [s \in Sessions |-> FALSE]
  /\ snap = [s \in Sessions |-> Empty]
  /\ record = [s \in Sessions |-> "none"]
  /\ tasks = 0
  /\ kills = 0
  /\ spent = [s \in Sessions |-> 0]
  /\ blocks = [s \in Sessions |-> 0]
  /\ lost = [s \in Sessions |-> 0]
  /\ missed = {}

\* The process of the verify hook is gone, and its locals with it.
Exit(s) ==
  /\ used' = [used EXCEPT ![s] = 0]
  /\ edited' = [edited EXCEPT ![s] = FALSE]
  /\ snap' = [snap EXCEPT ![s] = Empty]
  /\ pc' = [pc EXCEPT ![s] = "trajectory"]

Goto(s, l) == pc' = [pc EXCEPT ![s] = l]

\* A hook of s reads the file: are verifications missing in it?
Found(s) ==
  lost' = [lost EXCEPT ![s] =
    IF spent[s] - file[s].used > @ THEN spent[s] - file[s].used ELSE @]

----------------------------------------------------------------------------
(* The verify hook.                                                        *)

\* The agent tries to stop; the event may carry edited files.
AgentStops(s, e) ==
  /\ pc[s] = "working"
  /\ blocks[s] < MaxBlocks
  /\ edited' = [edited EXCEPT ![s] = e]
  /\ verdict' = [verdict EXCEPT ![s] = ""]
  /\ Goto(s, "load")
  /\ UNCHANGED <<file, used, block, snap, record, tasks, kills, history>>

\* _load_state, then note_edit for each file of the event.
LoadState(s) ==
  /\ pc[s] = "load"
  /\ LET e == file[s] IN
       /\ used' = [used EXCEPT ![s] = e.used]
       /\ edited' = [edited EXCEPT ![s] = @ \/ e.edited]
  /\ Found(s)
  /\ Goto(s, "verify")
  /\ UNCHANGED <<file, verdict, block, snap, record, tasks, kills, spent, blocks, missed>>

\* Mutated: the cap is checked with > instead of >=.
AtCapLate(s) == used[s] > MaxIterations

AtCap(s) == used[s] >= MaxIterations

\* on_stop is done and _save_state has read the whole file.
Decided(s) ==
  /\ snap' = [snap EXCEPT ![s] = file]
  /\ Goto(s, "truncate")

\* Mutated: a stop that cannot be verified is not let through.
GiveUpBlocks(s) ==
  /\ pc[s] = "verify" /\ AtCap(s)
  /\ verdict' = [verdict EXCEPT ![s] = "no-step"]
  /\ block' = [block EXCEPT ![s] = TRUE]
  /\ Decided(s)
  /\ UNCHANGED <<file, used, edited, record, tasks, kills, history>>

\* on_stop with the budget used up: no step, no block.
GiveUp(s) ==
  /\ pc[s] = "verify"
  /\ AtCap(s)
  /\ verdict' = [verdict EXCEPT ![s] = "no-step"]
  /\ block' = [block EXCEPT ![s] = FALSE]
  /\ Decided(s)
  /\ UNCHANGED <<file, used, edited, record, tasks, kills, history>>

\* run_verification: nothing is selected when nothing was edited.  "fail" is
\* the runner's failure, crash or timeout.
Verdicts(s) == IF edited[s] THEN {"pass", "fail", "skipped"} ELSE {"skipped"}

\* Mutated: the last verification of the budget blocks, too.
VerifyBlocksAtCap(s, v) ==
  /\ pc[s] = "verify" /\ ~AtCap(s) /\ v \in Verdicts(s)
  /\ used' = [used EXCEPT ![s] = @ + 1]
  /\ verdict' = [verdict EXCEPT ![s] = v]
  /\ edited' = [edited EXCEPT ![s] = @ /\ v # "pass"]
  /\ block' = [block EXCEPT ![s] = v = "fail"]
  /\ spent' = [spent EXCEPT ![s] = @ + 1]
  /\ Decided(s)
  /\ UNCHANGED <<file, record, tasks, kills, blocks, lost, missed>>

\* on_stop with budget left.
Verify(s, v) ==
  /\ pc[s] = "verify"
  /\ ~AtCap(s)
  /\ v \in Verdicts(s)
  /\ used' = [used EXCEPT ![s] = @ + 1]
  /\ verdict' = [verdict EXCEPT ![s] = v]
  /\ edited' = [edited EXCEPT ![s] = @ /\ v # "pass"]
  /\ block' = [block EXCEPT
       ![s] = v = "fail" /\ used[s] + 1 < MaxIterations]
  /\ spent' = [spent EXCEPT ![s] = @ + 1]
  /\ Decided(s)
  /\ UNCHANGED <<file, record, tasks, kills, blocks, lost, missed>>

\* _save_state: write_text truncates the file ...
SaveTruncate(s) ==
  /\ pc[s] = "truncate"
  /\ file' = Empty
  /\ Goto(s, "write")
  /\ UNCHANGED <<locals, record, tasks, kills, history>>

\* ... and writes it with this session's entry replaced.
SaveWrite(s) ==
  /\ pc[s] = "write"
  /\ file' = [snap[s] EXCEPT ![s] =
       [used |-> used[s], edited |-> edited[s], verdict |-> verdict[s]]]
  /\ Exit(s)
  /\ UNCHANGED <<verdict, block, record, tasks, kills, history>>

\* The hook runs into the SDK's timeout, which is the runner's own: it is
\* killed where it is, and the stop is not blocked.
KillVerify(s) ==
  /\ pc[s] \in Hook
  /\ kills < MaxKills
  /\ kills' = kills + 1
  /\ verdict' = [verdict EXCEPT ![s] = ""]
  /\ block' = [block EXCEPT ![s] = FALSE]
  /\ Exit(s)
  /\ UNCHANGED <<file, record, tasks, history>>

----------------------------------------------------------------------------
(* The trajectory hook, and what follows.                                  *)

\* Mutated: only the past-tense spelling of a failure is known.
StatusOfVerdictBlind(v) == IF v = "failed" THEN "failed" ELSE "success"

\* _infer_final_status without an override in the sidecar: no verdict, or
\* one that says nothing was verified, counts as success.
StatusOfVerdict(v) ==
  IF v = "fail" THEN "failed" ELSE "success"

\* The hooks of the stop are through: the SDK acts on the verify hook's answer.
Answered(s) ==
  /\ blocks' = [blocks EXCEPT ![s] = IF block[s] THEN @ + 1 ELSE @]
  /\ block' = [block EXCEPT ![s] = FALSE]
  /\ Goto(s, IF block[s] THEN "working" ELSE "finished")

\* The record is replaced, on a blocked stop too.
Trajectory(s) ==
  /\ pc[s] = "trajectory"
  /\ record' = [record EXCEPT ![s] = StatusOfVerdict(file[s].verdict)]
  /\ missed' = missed \ {s}
  /\ Found(s)
  /\ Answered(s)
  /\ UNCHANGED <<file, used, edited, verdict, snap, tasks, kills, spent>>

\* Killed at 60 s, or the database stays locked: the older record stays, or is
\* deleted already and not inserted again.
TrajectoryFails(s) ==
  /\ pc[s] = "trajectory"
  /\ kills < MaxKills
  /\ kills' = kills + 1
  /\ \E r \in {record[s], "none"} : record' = [record EXCEPT ![s] = r]
  /\ missed' = missed \cup {s}
  /\ Answered(s)
  /\ UNCHANGED <<file, used, edited, verdict, snap, tasks, spent, lost>>

\* The user sends another message to a finished conversation.
FollowUp(s) ==
  /\ pc[s] = "finished"
  /\ tasks < MaxTasks
  /\ tasks' = tasks + 1
  /\ Goto(s, "working")
  /\ UNCHANGED <<file, locals, record, kills, history>>

----------------------------------------------------------------------------
Step(s) ==
  \/ \E e \in BOOLEAN : AgentStops(s, e)
  \/ LoadState(s)
  \/ GiveUp(s)
  \/ \E v \in {"pass", "fail", "skipped"} : Verify(s, v)
  \/ SaveTruncate(s) \/ SaveWrite(s)
  \/ Trajectory(s)

Next == \E s \in Sessions : Step(s) \/ KillVerify(s) \/ TrajectoryFails(s) \/ FollowUp(s)

Spec == Init /\ [][Next]_vars

\* The SDK awaits each hook, and an agent that was blocked tries again.
FairSpec == Spec /\ \A s \in Sessions : WF_vars(Step(s))

----------------------------------------------------------------------------
TypeOK ==
  /\ file \in [Sessions -> Entry]
  /\ pc \in [Sessions -> Hook \cup {"working", "trajectory", "finished"}]
  /\ used \in [Sessions -> Nat]
  /\ edited \in [Sessions -> BOOLEAN]
  /\ verdict \in [Sessions -> Verdict]
  /\ block \in [Sessions -> BOOLEAN]
  /\ snap \in [Sessions -> [Sessions -> Entry]]
  /\ record \in [Sessions -> {"none", "success", "failed"}]
  /\ tasks \in Nat
  /\ kills \in Nat
  /\ spent \in [Sessions -> Nat]
  /\ blocks \in [Sessions -> Nat]
  /\ lost \in [Sessions -> Nat]
  /\ missed \subseteq Sessions

(* The loop blocks a conversation at most MaxIterations - 1 times in its   *)
(* life, over all its tasks, and once more for every verification that its *)
(* hooks found missing in the file: undone by a write of another session,  *)
(* or never saved because the hook was killed.                             *)
RetryBound ==
  \A s \in Sessions : blocks[s] <= MaxIterations - 1 + lost[s]

(* A budget is never overdrawn, in memory or in the file.                  *)
WithinBudget ==
  \A s \in Sessions :
    used[s] <= MaxIterations /\ file[s].used <= MaxIterations

(* The agent is let go in the end, however often its tests fail and over   *)
(* all its tasks, unless its hooks found verifications missing.            *)
AgentIsLetGo ==
  \A s \in Sessions :
    pc[s] = "working" ~> pc[s] = "finished" \/ lost[s] > 0

(* What a verification found is what the record says, a failure and a      *)
(* success alike, when the stop that ran it lets the agent go; unless      *)
(* verifications were missing in the file, or the trajectory hook of that  *)
(* very stop failed.  A stop that gives up or is killed verifies nothing   *)
(* and may record a success over an earlier failure.                       *)
VerdictRecorded ==
  \A s \in Sessions :
    /\ pc[s] = "finished" /\ verdict[s] \in {"pass", "fail", "skipped"}
    /\ lost[s] = 0 /\ s \notin missed
    => record[s] = IF verdict[s] = "fail" THEN "failed" ELSE "success"

(* The verdicts as a whole: well-formed, and none is lost or mistaken.     *)
VerdictsHold == TypeOK /\ VerdictRecorded

----------------------------------------------------------------------------
(* Claims of the documentation that the code does not keep.                *)

(* "Multiple concurrent sessions on the same workspace do not interfere":  *)
(* only a session's own hook changes its entry.                            *)
SessionsDoNotInterfere ==
  [][\A s \in Sessions :
       pc'[s] = pc[s] => file'[s] = file[s]]_vars
============================================================================
