---------------------------- MODULE BenchSessions ----------------------------
(***************************************************************************)
(* The two SWE-bench harnesses: bench_pathF_swebench.py (path A, one call  *)
(* of the model per task) and bench_pathB.py (path B, the same tasks as    *)
(* runs of the BFF).  A session works through its tasks, keeps one record  *)
(* per task in the run directory and one list in memory, and may raise,    *)
(* be interrupted or be killed at every step; a later session resumes into *)
(* the directory.  Clones of the repositories are cached over sessions.    *)
(*                                                                         *)
(* A record is "pass", "fail", or "torn" when the process died in          *)
(* write_text; "harness_error" is a record of memory only.  --dry-plan-only*)
(* is left out.  The BFF, its agent, git, the model and the evaluation     *)
(* harness are external.                                                   *)
(***************************************************************************)
EXTENDS Naturals, Sequences, SequencesExt

CONSTANTS
  TaskList,     \* the tasks of the session, in order
  WallLaps,     \* laps of the poll until WALL_CAP_S is over
  ToolCap,      \* TOOL_CALL_CAP
  MaxSessions,  \* bound: the first session and its resumptions
  MaxMishaps    \* bound: failed calls, interrupts and kills

\* A data set has each instance_id once.
ASSUME BenchConstants ==
  /\ TaskList \in Seq(ToSet(TaskList)) /\ IsInjective(TaskList) /\ "none" \notin ToSet(TaskList)
  /\ MaxSessions \in Nat /\ MaxMishaps \in Nat

VARIABLES
  bench,     \* the session: path, pc, todo, cur, laps, out, records in memory
  disk,      \* the run directory: task |-> record
  clone,     \* the cached clone of each task's repository
  live,      \* what exists outside: <<kind, task, session>>
  agent,     \* of the run the session follows: status, tool calls, whether it has edited
  report,    \* the last summary: the records it counts, or "none"
  cut,       \* history: the things that the harness was kept from taking away
  mishaps, sessions

benchVars == <<bench, disk, clone, live, agent, report, cut, mishaps, sessions>>
Tasks     == ToSet(TaskList)
NoAgent   == [status |-> "none", calls |-> 0, edits |-> FALSE]
NoTask    == [path |-> "none", pc |-> "idle", todo |-> {}, cur |-> "none", laps |-> 0,
              out |-> "none", recs |-> <<>>]

BenchInit ==
  /\ bench = NoTask /\ disk = [t \in Tasks |-> "none"] /\ clone = [t \in Tasks |-> "none"]
  /\ live = {} /\ agent = NoAgent /\ report = "none" /\ cut = {} /\ mishaps = 0 /\ sessions = 0

At(pc)       == bench.pc = pc
Goes(pc)     == bench' = [bench EXCEPT !.pc = pc]
Outside      == <<clone, live, agent, cut>>
Books        == <<disk, report, sessions>>
Mishap       == mishaps < MaxMishaps /\ mishaps' = mishaps + 1
Rec(t, o)    == [task |-> t, outcome |-> o]
Mine(kind)   == <<kind, bench.cur, sessions>>

----------------------------------------------------------------------------
(* main: what a resumed session restores and what it skips.                *)

\* Path A parses each file and skips the tasks with an outcome; path B skips
\* every task that has a file, and restores those that parse.
Restored(path, t) == disk[t] \in {"pass", "fail"}
SkippedAny(path, t) == disk[t] # "none"
Skipped(path, t)  == IF path = "A" THEN disk[t] \in {"pass", "fail"} ELSE disk[t] # "none"

SessionStarts ==
  /\ At("idle") /\ sessions < MaxSessions
  /\ \E p \in IF sessions = 0 THEN {"A", "B"} ELSE {bench.path} :
       bench' = [NoTask EXCEPT !.path = p, !.pc = "next",
                   !.todo = {t \in Tasks : ~Skipped(p, t)},
                   !.recs = SetToSeq({Rec(t, disk[t]) : t \in {t \in Tasks : Restored(p, t)}})]
  /\ sessions' = sessions + 1
  /\ UNCHANGED <<disk, clone, live, agent, report, cut, mishaps>>

\* The first of the list that remains.
NextTask ==
  /\ At("next")
  /\ \E i \in DOMAIN TaskList :
       /\ TaskList[i] \in bench.todo /\ \A j \in 1..(i - 1) : TaskList[j] \notin bench.todo
       /\ bench' = [bench EXCEPT !.pc = "repo", !.cur = TaskList[i],
                                 !.todo = @ \ {TaskList[i]}, !.laps = 0, !.out = "none"]
  /\ UNCHANGED <<Outside, Books, mishaps>>

\* _emit_summary, at the end of the loop.
Ended(recs) == bench' = [NoTask EXCEPT !.path = bench.path] /\ report' = recs
SessionEnds ==
  /\ At("next") /\ bench.todo = {} /\ Ended(bench.recs)
  /\ live' = {l \in live : l[1] # "sampler"}
  /\ UNCHANGED <<disk, clone, agent, cut, mishaps, sessions>>

----------------------------------------------------------------------------
(* run_task, up to the point where the paths part.                         *)

\* _repo_checkout_path takes a directory that exists for a good checkout.
RepoCached == At("repo") /\ clone[bench.cur] # "none" /\ Goes("oracle")
              /\ UNCHANGED <<Outside, Books, mishaps>>
RepoCloned ==
  /\ At("repo") /\ clone[bench.cur] = "none" /\ Goes("checkout")
  /\ clone' = [clone EXCEPT ![bench.cur] = "default"]
  /\ UNCHANGED <<live, agent, cut, Books, mishaps>>
RepoCheckedOut ==
  /\ At("checkout") /\ Goes("oracle") /\ clone' = [clone EXCEPT ![bench.cur] = "base"]
  /\ UNCHANGED <<live, agent, cut, Books, mishaps>>

\* read_files_at_commit asks git for the commit, so it does not matter what is
\* checked out; build_prompt.
OracleRead == At("oracle") /\ Goes(IF bench.path = "A" THEN "model" ELSE "workspace")
              /\ UNCHANGED <<Outside, Books, mishaps>>

Outcome(o, pc) == bench' = [bench EXCEPT !.pc = pc, !.out = o]

\* Path A: the model answers, or the error (or the prompt without room) is a
\* record that says unresolved.  The harness too says unresolved of whatever
\* keeps it from a report.
ModelAnswers == At("model") /\ Goes("score") /\ UNCHANGED <<Outside, Books, mishaps>>
ModelFails   == At("model") /\ Mishap /\ Outcome("fail", "write") /\ UNCHANGED <<Outside, Books>>
Scored       == At("score") /\ (\E o \in {"pass", "fail"} : Outcome(o, "write"))
                /\ bench.path = "A" /\ UNCHANGED <<Outside, Books, mishaps>>

\* Path B.
WorkspaceMade ==
  /\ At("workspace") /\ Goes("create")
  /\ live' = live \cup {Mine("ws"), Mine("sampler")}
  /\ UNCHANGED <<clone, agent, cut, Books, mishaps>>
\* A call with code >= 400, code 0 or no id in its answer: it may have taken
\* effect all the same, and then nobody knows the id.
WorkspaceRefused ==
  /\ At("workspace") /\ Mishap /\ Outcome("fail", "write")
  /\ \E made \in SUBSET {Mine("ws")} : live' = live \cup made /\ cut' = cut \cup made
  /\ UNCHANGED <<clone, agent, Books>>
RunMade ==
  /\ At("create") /\ Goes("poll") /\ live' = live \cup {Mine("run")}
  /\ agent' = [NoAgent EXCEPT !.status = "running"]
  /\ UNCHANGED <<clone, cut, Books, mishaps>>
\* delete_workspace may be refused in its turn, and only says so.
RunRefused ==
  /\ At("create") /\ Mishap /\ Outcome("fail", "write")
  /\ \E stays \in SUBSET {Mine("run"), Mine("ws")} :
       /\ live' = (live \ {Mine("ws"), Mine("sampler")}) \cup stays
       /\ cut' = cut \cup stays
  /\ UNCHANGED <<clone, agent, Books>>

----------------------------------------------------------------------------
(* The agent of the run, and poll_until_terminal.                          *)

AgentCalls ==
  /\ agent.status = "running" /\ agent.calls <= ToolCap
  /\ \E edit \in BOOLEAN : agent' = [agent EXCEPT !.calls = @ + 1, !.edits = @ \/ edit]
  /\ UNCHANGED <<bench, disk, clone, live, report, cut, mishaps, sessions>>

\* It ends, or waits for an approval that nobody gives.
AgentRests ==
  /\ agent.status = "running"
  /\ \E s \in {"succeeded", "failed", "awaiting_approval"} : agent' = [agent EXCEPT !.status = s]
  /\ UNCHANGED <<bench, disk, clone, live, report, cut, mishaps, sessions>>

TerminalStates == {"succeeded", "failed", "stopped"}

\* What GET /api/runs/{id}/metrics answers (run_metrics.py) and what the poll
\* asks of it.
RunMetricsOf(a) == [toolCallCount |-> a.calls]
AskedMetrics(data, key, default) == IF key \in DOMAIN data THEN data[key] ELSE default
ToolCalls == AskedMetrics(RunMetricsOf(agent), "tool_call_count", 0)

\* The window of the sampler ends with the poll.
PollOver == Goes("patch") /\ live' = live \ {Mine("sampler")}
PollTerminal ==
  /\ At("poll") /\ agent.status \in TerminalStates /\ PollOver
  /\ UNCHANGED <<clone, agent, cut, Books, mishaps>>
PollAgain ==
  /\ At("poll") /\ agent.status \notin TerminalStates
  /\ ToolCalls < ToolCap /\ bench.laps < WallLaps
  /\ bench' = [bench EXCEPT !.laps = @ + 1]
  /\ UNCHANGED <<Outside, Books, mishaps>>
\* Over a cap: the run is stopped, and the answer is not looked at.
PollCapped ==
  /\ At("poll") /\ agent.status \notin TerminalStates
  /\ ToolCalls >= ToolCap \/ bench.laps >= WallLaps
  /\ \/ agent' = [agent EXCEPT !.status = "stopped"] /\ UNCHANGED mishaps
     \/ Mishap /\ UNCHANGED agent
  /\ PollOver /\ UNCHANGED <<clone, cut, Books>>
RunPollFails ==
  /\ At("poll") /\ Mishap
  /\ IF bench.laps > WallLaps THEN PollOver
     ELSE bench' = [bench EXCEPT !.laps = @ + 1] /\ UNCHANGED live
  /\ UNCHANGED <<clone, agent, cut, Books>>

----------------------------------------------------------------------------
(* reconstruct_patch_from_run, the score, the clean-up and the record.     *)

\* What GET /api/runs/{id}/files/{path} answers (file_diff_reconstruction.py).
FileAnswer(a) == [path |-> "oracle", original |-> "old",
                  modified |-> IF a.edits THEN "new" ELSE "old"]
PatchOf(data) == AskedMetrics(data, "diff", AskedMetrics(data, "patch", ""))

PatchScored ==
  /\ At("patch")
  /\ IF PatchOf(FileAnswer(agent)) = "" THEN Outcome("fail", "deleterun")
     ELSE \E o \in {"pass", "fail"} : Outcome(o, "deleterun")
  /\ UNCHANGED <<Outside, Books, mishaps>>

\* Mutated: only the run is deleted.
CleanupOnlyRun(pc, thing, next) ==
  /\ At(pc) /\ Goes(next)
  /\ \/ live' = (IF thing = "run" THEN live \ {Mine(thing)} ELSE live)
        /\ UNCHANGED <<cut, mishaps>>
     \/ Mishap /\ UNCHANGED live /\ cut' = cut \cup {Mine(thing)}
\* A refused deletion is printed and the harness goes on.
Cleanup(pc, thing, next) ==
  /\ At(pc) /\ Goes(next)
  /\ \/ live' = live \ {Mine(thing)} /\ UNCHANGED <<cut, mishaps>>
     \/ Mishap /\ UNCHANGED live /\ cut' = cut \cup {Mine(thing)}

RunDeleted ==
  /\ Cleanup("deleterun", "run", "deletews")
  /\ agent' = IF Mine("run") \in live' THEN agent ELSE NoAgent
  /\ UNCHANGED <<clone, Books>>
WorkspaceDeleted == Cleanup("deletews", "ws", "write") /\ UNCHANGED <<clone, agent, Books>>

Kept(o) == bench' = [bench EXCEPT !.pc = "next", !.cur = "none", !.out = "none",
                                  !.recs = Append(@, Rec(bench.cur, o))]
RecordWritten ==
  /\ At("write") /\ Kept(bench.out) /\ disk' = [disk EXCEPT ![bench.cur] = bench.out]
  /\ UNCHANGED <<Outside, report, mishaps, sessions>>

----------------------------------------------------------------------------
(* The ways out.                                                           *)

InTask == bench.pc \notin {"idle", "next"}
\* What the task has, and what the call in flight makes (a timeout or a reset
\* connection after the request is not a URLError and raises), is left, but
\* for what ends with the session.
InFlight == IF At("workspace") THEN {Mine("ws")} ELSE IF At("create") THEN {Mine("run")} ELSE {}
Leaves(ends) ==
  \E made \in SUBSET InFlight :
    /\ live' = {l \in live \cup made : l[1] \notin ends}
    /\ cut' = cut \cup made \cup {l \in live : l[2] = bench.cur /\ l[3] = sessions}

\* An exception: path A keeps it in memory, path B writes an unresolved record.
\* Neither cleans up.
TaskRaises ==
  /\ InTask /\ Mishap /\ Leaves({})
  /\ IF bench.path = "A" THEN Kept("harness_error") /\ UNCHANGED disk
     ELSE Kept("fail") /\ disk' = [disk EXCEPT ![bench.cur] = "fail"]
  /\ UNCHANGED <<clone, agent, report, sessions>>

\* A key: the loop is left and the summary written.
Interrupted ==
  /\ InTask /\ Mishap /\ Leaves({"sampler"}) /\ Ended(bench.recs)
  /\ UNCHANGED <<disk, clone, agent, sessions>>

\* The process dies: in write_text it leaves half a file.
Killed ==
  /\ bench.pc # "idle" /\ Mishap
  /\ bench' = [NoTask EXCEPT !.path = bench.path]
  /\ Leaves({"sampler"})
  /\ disk' = IF At("write") THEN [disk EXCEPT ![bench.cur] = "torn"] ELSE disk
  /\ UNCHANGED <<clone, agent, report, sessions>>

BenchNext ==
  \/ SessionStarts \/ NextTask \/ SessionEnds \/ RepoCached \/ RepoCloned \/ RepoCheckedOut
  \/ OracleRead \/ ModelAnswers \/ ModelFails \/ Scored
  \/ WorkspaceMade \/ WorkspaceRefused \/ RunMade \/ RunRefused \/ AgentCalls \/ AgentRests
  \/ PollTerminal \/ PollAgain \/ PollCapped \/ RunPollFails \/ PatchScored
  \/ RunDeleted \/ WorkspaceDeleted \/ RecordWritten \/ TaskRaises \/ Interrupted \/ Killed
BenchSpec == BenchInit /\ [][BenchNext]_benchVars

----------------------------------------------------------------------------

BenchTypeOK ==
  /\ disk \in [Tasks -> {"none", "torn", "pass", "fail"}]
  /\ clone \in [Tasks -> {"none", "default", "base"}]
  /\ live \subseteq {"ws", "run", "sampler"} \X Tasks \X (1..MaxSessions)
  /\ cut \subseteq {"ws", "run", "sampler"} \X Tasks \X (1..MaxSessions)
  /\ mishaps \in 0..MaxMishaps /\ sessions \in 0..MaxSessions

Counted(t) == \E i \in DOMAIN bench.recs : bench.recs[i].task = t

\* Over interrupts, kills and resumptions no task is counted twice; what memory
\* counts as an outcome is what the directory holds, so the next session starts
\* from the same books; and when path A has come to the end of its list, every
\* task is counted.
BooksBalance ==
  /\ \A i, j \in DOMAIN bench.recs : bench.recs[i].task = bench.recs[j].task => i = j
  /\ \A i \in DOMAIN bench.recs :
       bench.recs[i].outcome # "harness_error" => disk[bench.recs[i].task] = bench.recs[i].outcome
  /\ (At("next") /\ bench.todo = {} /\ bench.path = "A") => \A t \in Tasks : Counted(t)

\* Outside the task at hand nothing of a session is left on the BFF, save what
\* the harness was kept from taking away: what a task had when it was cut short,
\* what it asked to delete in vain, and what was made by a call that looked
\* refused.  A task that is done again in a later session has things of its own.
NothingLeftBehind ==
  \A l \in live \ cut : l[2] = bench.cur /\ l[3] = sessions

\* What a session owes to the next one and to the BFF.
SessionsHold == BooksBalance /\ NothingLeftBehind

\* The claim "so summary math is complete on resume" of path B.
SummaryIsComplete ==
  At("next") /\ bench.todo = {} => \A t \in Tasks : Counted(t)

\* The claim of reconstruct_patch_from_run that the files route "returns the
\* diff": what an agent has edited gets a patch.
EditsAreScored == At("deleterun") /\ agent.edits => PatchOf(FileAnswer(agent)) # ""

\* The claim that the "tool cap catches thrashing".
ToolCapHolds == [][PollAgain => agent.calls < ToolCap]_benchVars

\* The assumption of create_workspace that the repository is at base_commit.
WorkspaceAtBase == At("poll") => clone[bench.cur] = "base"
=============================================================================
