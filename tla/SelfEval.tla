------------------------------ MODULE SelfEval ------------------------------
(***************************************************************************)
(* The self-evaluation cycle: the BFF's flag and reaper (routers/          *)
(* selfeval.py), the systemd unit they start and watch, and the harness    *)
(* that the unit runs (openhands_tools_ext/selfeval: manifest.py,          *)
(* harness.py, proposer.py, cli.py).  The unit is external: oneshot, so a  *)
(* start of a unit that is activating does nothing.  All cycles are of one *)
(* day, the worst case for the names of the files.                         *)
(***************************************************************************)
EXTENDS Integers, Sequences, SequencesExt, FiniteSets

CONSTANTS
  Manifest,      \* the tasks of the manifest, in order
  Tagged,        \* those with the tag asked for
  Strategies,    \* subset of {"head", "random", "tag"}
  Limit,         \* tasks of a cycle
  MaxCycles,     \* bound: starts of the unit
  MaxEvalFaults  \* bound: failed calls, kills and restarts

ASSUME EvalConstants ==
  /\ {MaxCycles, MaxEvalFaults} \subseteq Nat /\ Limit \in Nat \ {0}
  /\ Manifest \in Seq(Range(Manifest)) /\ IsInjective(Manifest)
  /\ Tagged \subseteq Range(Manifest) /\ Strategies \subseteq {"head", "random", "tag"}

VARIABLES
  flag,       \* _state.running
  lastResult, \* _state.last_result: "none", "ok" or "bad"
  launcher,   \* the handler that has raised the flag: idle, launching, stuck
  reaper,     \* its task: off, polling
  queued,     \* a start of the unit is queued
  unit,       \* inactive, activating, failed
  harness,    \* where the harness is
  selected,   \* its tasks
  run,        \* the run of the current task, 0 if none
  ended,      \* what the polling has come to: "", a terminal status, "timeout"
  outcomes,   \* its results so far
  proposed,   \* how many of them the proposer is done with
  summary,    \* the summary on disk: the outcomes of a cycle, or <<>>
  proposals,  \* the proposals on disk: from names to what they were written for
  runStatus,  \* per run that was ever created, its status at the BFF
  evalCount   \* [cycles, written, faults, raised]: counters, and whether a
              \* harness has died of an exception

bffPart     == <<flag, lastResult, launcher, reaper>>
harnessPart == <<harness, selected, run, ended, outcomes, proposed>>
diskPart    == <<summary, proposals>>
evalVars    == <<bffPart, queued, unit, harnessPart, diskPart, runStatus, evalCount>>

\* An earlier cycle of the day may have left the proposal of a run that was never made.
EvalInit ==
  /\ flag = FALSE /\ lastResult = "none" /\ launcher = "idle" /\ reaper = "off"
  /\ queued = FALSE /\ unit = "inactive"
  /\ harness = "off" /\ selected = <<>> /\ run = 0 /\ ended = "" /\ outcomes = <<>>
  /\ proposed = 0
  /\ summary = <<>>
  /\ proposals \in {<<>>} \cup {[n \in {<<t, 0, 1>>} |-> 0] : t \in Range(Manifest)}
  /\ runStatus = <<>>
  /\ evalCount = [cycles |-> 0, written |-> 0, faults |-> 0, raised |-> FALSE]

OneFault == evalCount.faults < MaxEvalFaults /\ evalCount' = [evalCount EXCEPT !.faults = @ + 1]

----------------------------------------------------------------------------
(* The BFF.                                                                *)

\* post_run: with the flag up it answers 409 and changes nothing.
PostRun ==
  /\ ~flag /\ evalCount.cycles < MaxCycles
  /\ flag' = TRUE /\ lastResult' = "none" /\ launcher' = "launching"
  /\ UNCHANGED <<reaper, queued, unit, harnessPart, diskPart, runStatus, evalCount>>

LaunchSucceeds ==
  /\ launcher = "launching"
  /\ queued' = TRUE
  /\ launcher' = "idle" /\ reaper' = "polling"
  /\ UNCHANGED <<flag, lastResult, unit, harnessPart, diskPart, runStatus, evalCount>>

\* Mutated: the flag stays up.
LaunchRefusedKeepsFlag ==
  /\ launcher = "launching" /\ OneFault
  /\ lastResult' = "bad" /\ launcher' = "idle"
  /\ UNCHANGED <<flag, reaper, queued, unit, harnessPart, diskPart, runStatus>>

\* systemctl exits with an error, or is not there.
LaunchRefused ==
  /\ launcher = "launching" /\ OneFault
  /\ flag' = FALSE /\ lastResult' \in {"bad", "none"} /\ launcher' = "idle"
  /\ UNCHANGED <<reaper, queued, unit, harnessPart, diskPart, runStatus>>

\* Any other error of the fork: nothing lowers the flag.
LaunchRaises ==
  /\ launcher = "launching" /\ OneFault
  /\ launcher' = "stuck"
  /\ UNCHANGED <<flag, lastResult, reaper, queued, unit, harnessPart, diskPart, runStatus>>

\* One lap of _reap_cycle that finds the unit done, or not yet started.
ReaperEnds ==
  /\ reaper = "polling" /\ unit # "activating"
  /\ lastResult' = IF unit = "inactive" THEN "ok" ELSE "bad"
  /\ flag' = FALSE /\ reaper' = "off"
  /\ UNCHANGED <<launcher, queued, unit, harnessPart, diskPart, runStatus, evalCount>>

\* systemctl is-active cannot be run: the cycle counts as over, and as bad.
ReaperRaises ==
  /\ reaper = "polling" /\ OneFault
  /\ lastResult' = "bad" /\ flag' = FALSE /\ reaper' = "off"
  /\ UNCHANGED <<launcher, queued, unit, harnessPart, diskPart, runStatus>>

\* The flag, the result and the tasks are memory.
BffRestarts ==
  /\ OneFault
  /\ flag' = FALSE /\ lastResult' = "none" /\ launcher' = "idle" /\ reaper' = "off"
  /\ UNCHANGED <<queued, unit, harnessPart, diskPart, runStatus>>

----------------------------------------------------------------------------
(* The unit.                                                               *)

\* systemctl start from a terminal.
TerminalStarts ==
  /\ ~queued /\ evalCount.cycles < MaxCycles
  /\ queued' = TRUE
  /\ UNCHANGED <<bffPart, unit, harnessPart, diskPart, runStatus, evalCount>>

UnitStarts ==
  /\ queued
  /\ queued' = FALSE
  /\ IF unit = "activating" \/ evalCount.cycles = MaxCycles
     THEN UNCHANGED <<unit, harnessPart, evalCount>>
     ELSE /\ unit' = "activating" /\ harness' = "select"
          /\ UNCHANGED <<selected, run, ended, outcomes, proposed>>
          /\ evalCount' = [evalCount EXCEPT !.cycles = @ + 1]
  /\ UNCHANGED <<bffPart, diskPart, runStatus>>

\* The memory of the harness is gone with its process.
Forgets ==
  /\ harness' = "off" /\ selected' = <<>> /\ run' = 0 /\ ended' = "" /\ outcomes' = <<>>
  /\ proposed' = 0

\* The unit's own limit, or somebody, kills the harness.
UnitIsKilled ==
  /\ unit = "activating" /\ OneFault
  /\ unit' = "failed" /\ Forgets
  /\ UNCHANGED <<bffPart, queued, diskPart, runStatus>>

Exits(code) == unit' = (IF code = 0 THEN "inactive" ELSE "failed") /\ Forgets

----------------------------------------------------------------------------
(* The harness.                                                            *)

ComesBefore(a, b) ==
  \E l \in DOMAIN Manifest : \E k \in 1 .. l - 1 : Manifest[k] = a /\ Manifest[l] = b

\* select_tasks: the candidates of a strategy, cut off at the limit.
SelectTasks(strategy) ==
  LET candidates ==
        CASE strategy = "head" -> {Manifest}
          [] strategy = "random" -> SetToSeqs(Range(Manifest))
          [] strategy = "tag" -> {s \in SetToSeqs(Tagged) :
               \A j \in DOMAIN s : \A i \in 1 .. j - 1 : ComesBefore(s[i], s[j])}
  IN {SubSeq(s, 1, IF Len(s) < Limit THEN Len(s) ELSE Limit) : s \in candidates}

\* No task matches: the exit code is 0 all the same.
HarnessSelects ==
  /\ harness = "select"
  /\ \E s \in UNION {SelectTasks(st) : st \in Strategies} :
       IF s = <<>> THEN Exits(0)
       ELSE /\ selected' = s /\ harness' = "resolve"
            /\ UNCHANGED <<unit, run, ended, outcomes, proposed>>
  /\ UNCHANGED <<bffPart, queued, diskPart, runStatus, evalCount>>

\* load_manifest raises, or select_tasks: exit code 2.
ManifestFails ==
  /\ harness = "select" /\ OneFault
  /\ Exits(2)
  /\ UNCHANGED <<bffPart, queued, diskPart, runStatus>>

HarnessResolves ==
  /\ harness = "resolve"
  /\ harness' = "create"
  /\ UNCHANGED <<bffPart, queued, unit, selected, run, ended, outcomes, proposed, diskPart,
                 runStatus, evalCount>>

\* The preset cannot be resolved.  The outcome that should say so is built
\* with a field that TaskOutcome does not have, and that raises.
ResolveFails ==
  /\ harness = "resolve"
  /\ evalCount.faults < MaxEvalFaults
  /\ evalCount' = [evalCount EXCEPT !.faults = @ + 1, !.raised = TRUE]
  /\ Exits(1)
  /\ UNCHANGED <<bffPart, queued, diskPart, runStatus>>

\* The task at hand, and the step after its outcome is known.
Current == selected[Len(outcomes) + 1]

Record(r, verdict) ==
  /\ outcomes' = Append(outcomes, [task |-> Current, run |-> r, verdict |-> verdict])
  /\ run' = 0 /\ ended' = ""
  /\ harness' = IF Len(outcomes) + 1 = Len(selected) THEN "summary" ELSE "create"

CreateSucceeds ==
  /\ harness = "create"
  /\ runStatus' = Append(runStatus, "running")
  /\ run' = Len(runStatus) + 1
  /\ harness' = "poll"
  /\ UNCHANGED <<bffPart, queued, unit, selected, ended, outcomes, proposed, diskPart, evalCount>>

\* POST /api/runs fails, or only its answer is lost.
CreateFails ==
  /\ harness = "create" /\ OneFault
  /\ runStatus' \in {runStatus, Append(runStatus, "running")}
  /\ Record(0, "error")
  /\ UNCHANGED <<bffPart, queued, unit, selected, proposed, diskPart>>

\* A poll that fails or finds the run alive changes nothing.
PollEnds ==
  /\ harness = "poll"
  /\ \/ runStatus[run] # "running" /\ ended' = runStatus[run]
     \/ ended' = "timeout"
  /\ harness' = "score"
  /\ UNCHANGED <<bffPart, queued, unit, selected, run, outcomes, proposed, diskPart, runStatus,
                 evalCount>>

TrajectoryFailed == {"failed", "verified_failure", "aborted"}

\* Mutated: a record without a failure counts as a success.
ScoreOfRecord(end, trajectory, verify) ==
  IF verify \in {"fail", "error"} \/ trajectory \in TrajectoryFailed THEN "failed"
  ELSE IF end = "timeout" /\ trajectory = "none" THEN "timeout"
  ELSE IF end = "failed" THEN "failed" ELSE "passed"

Score(end, trajectory, verify) ==
  IF end = "timeout" THEN "timeout"
  ELSE IF verify \in {"fail", "error"} \/ trajectory \in TrajectoryFailed THEN "failed"
  ELSE IF end = "succeeded" THEN "passed" ELSE "failed"

\* _lookup_trajectory: there may be no record, or one of any kind.
HarnessScores ==
  /\ harness = "score"
  /\ \E trajectory \in {"none", "completed", "verified_failure"} :
     \E verify \in {"none", "pass", "fail"} :
       /\ trajectory = "none" => verify = "none"
       /\ Record(run, Score(ended, trajectory, verify))
  /\ UNCHANGED <<bffPart, queued, unit, selected, proposed, diskPart, runStatus, evalCount>>

\* dump_summary: the name of the file holds nothing but the day.
HarnessDumps ==
  /\ harness = "summary"
  /\ summary' = outcomes
  /\ harness' = "propose"
  /\ UNCHANGED <<bffPart, queued, unit, selected, run, ended, outcomes, proposed, proposals,
                 runStatus, evalCount>>

ProposalNames == DOMAIN proposals

\* Mutated: the name's number stays away.
FreshNameBase(o) == <<o.task, o.run, 1>>

\* The first of base, base-v2, base-v3, ... that is not on disk.
FreshName(o) ==
  LET name(v) == <<o.task, o.run, v>> IN
  name(CHOOSE v \in 1 .. Cardinality(ProposalNames) + 1 :
    name(v) \notin ProposalNames /\ \A w \in 1 .. v - 1 : name(w) \in ProposalNames)

\* propose_fixes, one outcome; the planner's answer or an apology is written.
HarnessProposes ==
  /\ harness = "propose"
  /\ IF proposed = Len(outcomes)
     THEN Exits(0) /\ UNCHANGED <<proposals, evalCount>>
     ELSE /\ proposed' = proposed + 1
          /\ IF outcomes[proposed + 1].verdict = "passed"
             THEN UNCHANGED <<proposals, evalCount>>
             ELSE LET n == FreshName(outcomes[proposed + 1]) IN
                  /\ proposals' = [x \in ProposalNames \cup {n} |->
                       IF x = n THEN evalCount.written + 1 ELSE proposals[x]]
                  /\ evalCount' = [evalCount EXCEPT !.written = @ + 1]
          /\ UNCHANGED <<unit, harness, selected, run, ended, outcomes>>
  /\ UNCHANGED <<bffPart, queued, summary, runStatus>>

\* How a run ends that the harness is done with is nothing anybody reads.
RunEnds ==
  /\ harness = "poll" /\ runStatus[run] = "running"
  /\ runStatus' \in {[runStatus EXCEPT ![run] = s] : s \in {"succeeded", "failed"}}
  /\ UNCHANGED <<bffPart, queued, unit, harnessPart, diskPart, evalCount>>

----------------------------------------------------------------------------
HarnessStep ==
  \/ HarnessSelects \/ HarnessResolves \/ CreateSucceeds \/ PollEnds \/ HarnessScores
  \/ HarnessDumps \/ HarnessProposes

EvalNext ==
  \/ PostRun \/ LaunchSucceeds \/ LaunchRefused \/ LaunchRaises \/ ReaperEnds \/ ReaperRaises
  \/ BffRestarts
  \/ TerminalStarts \/ UnitStarts \/ UnitIsKilled
  \/ HarnessStep \/ ManifestFails \/ ResolveFails \/ CreateFails
  \/ RunEnds

EvalSpec == EvalInit /\ [][EvalNext]_evalVars

\* The event loop runs the handler and the reaper, systemd the queue, and
\* every wait of the harness has a timeout.
EvalFair ==
  /\ WF_evalVars(LaunchSucceeds) /\ WF_evalVars(ReaperEnds)
  /\ WF_evalVars(UnitStarts) /\ WF_evalVars(HarnessStep)

----------------------------------------------------------------------------
(* The types of the state.                                                 *)
EvalTypeOK ==
  /\ flag \in BOOLEAN /\ queued \in BOOLEAN
  /\ lastResult \in {"none", "ok", "bad"}
  /\ launcher \in {"idle", "launching", "stuck"} /\ reaper \in {"off", "polling"}
  /\ unit \in {"inactive", "activating", "failed"}
  /\ harness \in {"off", "select", "resolve", "create", "poll", "score", "summary", "propose"}
  /\ run \in 0 .. Len(runStatus) /\ proposed \in 0 .. Len(outcomes)
  /\ (unit = "activating") = (harness # "off")

(* The summary on disk accounts for its cycle: one outcome per task, in the*)
(* order of the tasks, each of a run of its own, and nothing has passed    *)
(* whose run has not succeeded, however late records and statuses come.    *)
SummaryIsHonest ==
  /\ harness = "propose" => summary = outcomes /\ Len(outcomes) = Len(selected)
  /\ \A s \in {summary, outcomes} : \A i \in DOMAIN s :
       /\ s[i].verdict = "passed" => s[i].run # 0 /\ runStatus[s[i].run] = "succeeded"
       /\ \A j \in DOMAIN s : i # j => /\ s[i].task # s[j].task
                                       /\ (s[i].run = s[j].run => s[i].run = 0)

(* "Never overwrites an existing proposal file": not on the same day, not  *)
(* for the runs without an id, which share one name.                       *)
ProposalsArePreserved ==
  [][\A n \in ProposalNames : n \in DOMAIN proposals' /\ proposals'[n] = proposals[n]]_evalVars

(* The flag falls, whatever fails, unless the fork of systemctl itself     *)
(* raises: then only a restart of the BFF lowers it.                       *)
FlagFalls == flag ~> (~flag \/ launcher = "stuck")

----------------------------------------------------------------------------
(* "Failure to resolve turns into a per-task error verdict" (run_selfeval):*)
(* no harness dies of an exception.                                        *)
UnresolvedIsReported == ~evalCount.raised
============================================================================
