----------------------------- MODULE RunReports -----------------------------
(***************************************************************************)
(* The read side of a run.  The agent-server's log of a conversation grows *)
(* event by event; every tab of the run page is a pure function of it:     *)
(* commands, artifacts, plan, file diffs, spans, metrics, the comparison   *)
(* with another run, and the fields the sidecar producers write.           *)
(*                                                                         *)
(* The agent calls tools, the environment answers, and a file of the       *)
(* workspace changes when the file editor answers.  What the reports say   *)
(* of the workspace can so be compared with the workspace.                 *)
(***************************************************************************)
EXTENDS EventNormalize, SequencesExt

CONSTANTS
  Paths,        \* files of the workspace
  Contents,     \* what a file may hold
  Plans,        \* task lists the agent writes
  MaxLog,       \* bound: events of the conversation
  MaxOpen,      \* bound: calls that wait for their answer at one time
  Tokens,       \* tokens of one completion
  Sayings,      \* the texts that come with a call or an answer, and which are white space
  Results       \* how bash may answer

Missing == "missing"
NoPlan == "no steps"

\* The fields of an observation that say how a call went, and whether it is a
\* TerminalObservation; "text" is an exit code of 1 written as a string.
Clean == [exit |-> "null", flagged |-> FALSE, error |-> FALSE, terminal |-> FALSE]
AnyResult ==
  [exit : {"null", "0", "1", "text"}, flagged : BOOLEAN, error : BOOLEAN, terminal : BOOLEAN]
Texts == {"content", "summary", "thought"}

ASSUME ReportConstants ==
  /\ Sayings \subseteq [has : SUBSET Texts, blank : SUBSET Texts] /\ Results \subseteq AnyResult
  /\ Missing \notin Contents /\ NoPlan \notin Plans
  /\ MaxLog \in Nat /\ MaxOpen \in Nat /\ Tokens \in Nat

VARIABLES
  log,          \* the conversation's events, in the order of their timestamps
  files,        \* external: the workspace
  undo,         \* external: the file editor's history of each file
  atStart,      \* history: the workspace at the start of the run
  unseen        \* history: files changed with no answer of the file editor

reportVars == <<log, files, undo, atStart, unseen>>

Base == [kind |-> "", id |-> 0, source |-> "agent", tool |-> "", risk |-> "none",
         has |-> {}, blank |-> {}, of |-> 0, cmd |-> "", path |-> "",
         old |-> Missing, new |-> Missing, prev |-> FALSE, result |-> Clean,
         tasks |-> NoPlan]

ReportInit ==
  /\ log = <<>>
  /\ files \in [Paths -> Contents \cup {Missing}]
  /\ undo = [p \in Paths |-> <<>>]
  /\ atStart = files
  /\ unseen = {}

Room == Len(log) < MaxLog
Answered(a) == \E i \in DOMAIN log : log[i].of = log[a].id
Open(a) == log[a].kind = "ActionEvent" /\ ~Answered(a)

Store(e) == log' = Append(log, [e EXCEPT !.id = Len(log) + 1])
Untouched == UNCHANGED <<files, undo, atStart, unseen>>

\* external: the user writes, or the agent answers.
Speak(source, has, blank) ==
  /\ Room
  /\ Store([Base EXCEPT !.kind = "MessageEvent", !.source = source, !.has = has,
                        !.blank = blank])
  /\ Untouched

\* external: the model's completion is logged.
LogCompletion ==
  /\ Room
  /\ Store([Base EXCEPT !.kind = "LLMCompletionLogEvent"])
  /\ Untouched

\* external: the agent calls a tool.
Call(tool, cmd, path, says) ==
  /\ Room /\ Cardinality({a \in DOMAIN log : Open(a)}) < MaxOpen
  /\ Store([Base EXCEPT !.kind = "ActionEvent", !.tool = tool, !.cmd = cmd, !.path = path,
                        !.risk = IF tool = "bash" THEN "LOW" ELSE "none",
                        !.has = says.has, !.blank = says.blank])
  /\ Untouched

\* external: a hook of the agent ran; flagged is an unsuccessful one, or a failing verdict.
HookLogged(bad) ==
  /\ Room
  /\ Store([Base EXCEPT !.kind = "HookExecutionEvent", !.source = "hook",
                        !.result = [Clean EXCEPT !.flagged = bad]])
  /\ Untouched

Reply(a, e) ==
  Store([e EXCEPT !.kind = "ObservationEvent", !.of = log[a].id, !.tool = log[a].tool,
                  !.cmd = log[a].cmd, !.path = log[a].path])

\* external: bash may change a file, and the file editor does not report it.
BashAnswers(a, result, p) ==
  /\ Room /\ Open(a) /\ log[a].tool = "bash"
  /\ Reply(a, [Base EXCEPT !.result = result])
  /\ IF p \in Paths
       THEN \E c \in Contents : files' = [files EXCEPT ![p] = c] /\ c # files[p]
       ELSE files' = files
  /\ unseen' = unseen \cup ({p} \cap Paths)
  /\ UNCHANGED <<undo, atStart>>

\* external: what the file editor can do to a file.
Editable(cmd, p) ==
  CASE cmd = "create" -> files[p] = Missing
    [] cmd = "str_replace" -> files[p] # Missing
    [] cmd = "undo_edit" -> undo[p] # <<>>

\* external: the file editor's answer carries the whole content, before and after.
EditorAnswers(a) ==
  LET p == log[a].path IN
  /\ Room /\ Open(a) /\ log[a].tool = "file_editor" /\ log[a].cmd # "view"
  /\ Editable(log[a].cmd, p)
  /\ \E c \in Contents :
       /\ IF log[a].cmd = "undo_edit" THEN c = Last(undo[p]) ELSE c # files[p]
       /\ Reply(a, [Base EXCEPT !.old = files[p], !.new = c, !.prev = files[p] # Missing])
       /\ files' = [files EXCEPT ![p] = c]
  /\ undo' = [undo EXCEPT ![p] =
       CASE log[a].cmd = "undo_edit" -> Front(@)
         [] log[a].cmd = "create" -> @
         [] OTHER -> Append(@, files[p])]
  /\ UNCHANGED <<atStart, unseen>>

\* external: the editor refuses, or a view only reads.
EditorRefuses(a) ==
  /\ Room /\ Open(a) /\ log[a].tool = "file_editor"
  /\ LET was == files[log[a].path]
     IN  Reply(a, [Base EXCEPT !.result = [Clean EXCEPT !.flagged = (log[a].cmd # "view")],
                               !.old = was, !.new = was, !.prev = (was # Missing)])
  /\ Untouched

\* external: task_tracker answers with the whole list, which may be empty.
PlanAnswers(a, tasks, says) ==
  /\ Room /\ Open(a) /\ log[a].tool = "task_tracker"
  /\ Reply(a, [Base EXCEPT !.tasks = tasks, !.has = says.has, !.blank = says.blank])
  /\ Untouched

Commands == {"create", "str_replace", "undo_edit", "view"}

ReportNext ==
  \/ \E b \in {{}, {"content"}} : Speak("user", {"content"}, b)
  \/ Speak("agent", {"content"}, {})
  \/ LogCompletion
  \/ \E s \in Sayings :
       \/ Call("bash", "", "", s)
       \/ Call("task_tracker", "", "", s)
       \/ \E c \in Commands, p \in Paths : Call("file_editor", c, p, s)
  \/ \E b \in BOOLEAN : HookLogged(b)
  \/ \E a \in DOMAIN log :
       \/ \E r \in Results, p \in Paths \cup {""} : BashAnswers(a, r, p)
       \/ EditorAnswers(a)
       \/ EditorRefuses(a)
       \/ \E t \in Plans \cup {NoPlan}, s \in Sayings : PlanAnswers(a, t, s)

ReportSpec == ReportInit /\ [][ReportNext]_reportVars

----------------------------------------------------------------------------
(* The reports, as functions of a list of events.  A list of rows is kept  *)
(* as the positions its rows stand for, or as a function of them.          *)

Mutations == {"create", "str_replace", "insert", "undo_edit"}

Of(events, kind) == {i \in DOMAIN events : events[i].kind = kind}
CallsOf(events, tool) == {a \in Of(events, "ActionEvent") : events[a].tool = tool}
PathsAt(events, I) == {events[i].path : i \in I}

\* _pair_observations: the last observation of each action, 0 when there is none.
Pairing(events, id) ==
  LET hits == {i \in Of(events, "ObservationEvent") : events[i].of = id}
  IN  IF hits = {} THEN 0 ELSE Max(hits)

\* _extract_observation_output: digits are a number too.
ExitCode(result) == IF result.exit = "text" THEN "1" ELSE result.exit

\* build_commands: one row per bash action, with the exit code of its answer if it has one.
BuildCommands(events) ==
  [a \in CallsOf(events, "bash") |->
     LET o == Pairing(events, events[a].id)
     IN  [id |-> events[a].id,
          exit |-> IF o = 0 THEN "null" ELSE ExitCode(events[o].result)]]

\* Mutated: a view is an artifact too.
BuildArtifactsOfViews(events) == CallsOf(events, "file_editor")

\* build_artifacts: every mutating call of the file editor, answered or not.
BuildArtifacts(events) == {a \in CallsOf(events, "file_editor") : events[a].cmd \in Mutations}

\* build_plan: of the answered lists that have steps, the one with the latest timestamp.
BuildPlan(events) ==
  LET answers == {o \in Of(events, "ObservationEvent") :
                    /\ events[o].tasks # NoPlan
                    /\ \E a \in CallsOf(events, "task_tracker") : Pairing(events, events[a].id) = o}
  IN  IF answers = {} THEN NoPlan ELSE events[Max(answers)].tasks

\* _iter_events: the answers that changed a file.
Edits(events) ==
  {o \in Of(events, "ObservationEvent") :
     events[o].tool = "file_editor" /\ ~events[o].result.flagged /\ events[o].cmd \in Mutations}

EditsOf(events, p) == {o \in Edits(events) : events[o].path = p}

\* Mutated: the content before the last edit stands for the original.
ReconstructLastOld(events, p) ==
  LET first == events[Min(EditsOf(events, p))]
      last  == events[Max(EditsOf(events, p))]
  IN  [path |-> p, original |-> last.old, modified |-> last.new,
       status |-> IF first.prev THEN "modified" ELSE "added"]

\* reconstruct and _FileState.apply: the first touch fixes the original and the
\* status, every touch replaces the content.
Reconstruct(events, p) ==
  LET first == events[Min(EditsOf(events, p))]
      last  == events[Max(EditsOf(events, p))]
  IN  [path |-> p,
       original |-> IF first.cmd = "create" /\ ~first.prev THEN Missing ELSE first.old,
       modified |-> last.new,
       status |-> IF first.prev THEN "modified" ELSE "added"]

Touched(events) == PathsAt(events, Edits(events))

\* build_summaries, which GET /runs/{id}/diffs and the sidecar's diffs share.
BuildSummaries(events) == {Reconstruct(events, p) : p \in Touched(events)}

\* _observation_status: a number other than 0, an error text or an error flag.
ObservationStatus(result) ==
  IF result.exit = "1" \/ result.error \/ result.flagged THEN "error" ELSE "ok"

\* build_spans: a tool span per action, an llm span per message of the agent.
SpanAt(events, i) ==
  LET e == events[i]
      o == Pairing(events, e.id)
  IN  [id |-> e.id, start |-> e.id,
       kind |-> IF e.kind = "MessageEvent" THEN "llm"
                ELSE IF e.tool = "task_tracker" THEN "internal" ELSE "workspace",
       status |-> IF e.kind = "MessageEvent" THEN "ok"
                  ELSE IF o = 0 THEN "unset" ELSE ObservationStatus(events[o].result)]

BuildSpans(events) ==
  [i \in Of(events, "ActionEvent")
          \cup {m \in Of(events, "MessageEvent") : events[m].source = "agent"} |->
     SpanAt(events, i)]

\* build_trace_summary: an error anywhere makes the trace an error.
TraceStatus(spans) ==
  IF DOMAIN spans = {} THEN "unset"
  ELSE IF \E i \in DOMAIN spans : spans[i].status = "error" THEN "error" ELSE "ok"

\* build_run_metrics: files are counted from the calls, not from the answers.
BuildRunMetrics(events) ==
  [tokens |-> Tokens * Cardinality(Of(events, "LLMCompletionLogEvent")),
   calls |-> Cardinality(Of(events, "ActionEvent")),
   touched |-> PathsAt(events, BuildArtifacts(events))]

\* compare_runs: a path only the base touched is "deleted", only the fork, "added".
CompareStatus(base, fork, p) ==
  LET B == PathsAt(base, BuildArtifacts(base))
      F == PathsAt(fork, BuildArtifacts(fork))
  IN  IF p \in B \cap F THEN "modified" ELSE IF p \in B THEN "deleted" ELSE "added"

\* _extract_symptom_from_event: a hook that failed, and of the answers one with the error flag,
\* or of a terminal with a number other than 0.
Symptoms(events) ==
  {h \in Of(events, "HookExecutionEvent") : events[h].result.flagged}
    \cup {o \in Of(events, "ObservationEvent") :
           LET r == events[o].result IN r.flagged \/ (r.terminal /\ r.exit = "1")}

\* Mutated: the walk is not reversed.
ProduceSymptomFirst(events) == IF Symptoms(events) = {} THEN 0 ELSE Min(Symptoms(events))

\* _produce_symptom: the latest stands, whatever succeeded after it.
ProduceSymptom(events) == IF Symptoms(events) = {} THEN 0 ELSE Max(Symptoms(events))

\* update_from_event: a producer with nothing to say leaves its field alone.
ProduceFields(events) ==
  [symptom |-> ProduceSymptom(events),
   plan |-> BuildPlan(events),
   diffs |-> BuildSummaries(events)]

----------------------------------------------------------------------------
ReportTypeOK ==
  /\ Len(log) <= MaxLog
  /\ files \in [Paths -> Contents \cup {Missing}]
  /\ unseen \subseteq Paths

(* The diff tab shows the workspace: for a file only the file editor       *)
(* changes, the reconstructed original is the file at the start of the     *)
(* run, the modified text is the file as it is, "added" is said of the     *)
(* files the run created and of no other, and no changed file is left out. *)
DiffShowsWorkspace ==
  \A p \in Paths \ unseen :
    IF p \in Touched(log)
    THEN LET d == Reconstruct(log, p) IN
         /\ d.original = atStart[p] /\ d.modified = files[p]
         /\ d.status = IF atStart[p] = Missing THEN "added" ELSE "modified"
    ELSE files[p] = atStart[p]

(* The tabs of one run agree, at every length of its log, although each    *)
(* reads other fields of an answer: a changed file has an artifact, an     *)
(* artifact without a diff comes from a call that has failed or is not     *)
(* answered, the metrics count what the trace and the artifact list show,  *)
(* a command that shows a failure has a span that is an error, unless its  *)
(* code came as a string, and one that shows a result is answered; a run   *)
(* compared with itself only has modified files; a symptom in the sidecar  *)
(* is a failed hook or an error in the trace; and an error in the trace    *)
(* has a symptom as late as it, unless only the error text or the code of  *)
(* another tool than the terminal tells of it.                             *)
ReportsAgree ==
  LET spans == BuildSpans(log)
      commands == BuildCommands(log)
      changed == PathsAt(log, BuildArtifacts(log))
      metrics == BuildRunMetrics(log)
      symptom == ProduceFields(log).symptom
      SpanFor(id) == CHOOSE s \in Range(spans) : s.id = id
  IN  /\ Touched(log) \subseteq changed
      /\ \A p \in changed \ Touched(log) :
           \E a \in DOMAIN log :
             /\ log[a].path = p /\ log[a].kind = "ActionEvent"
             /\ SpanFor(log[a].id).status \in {"unset", "error"}
      /\ metrics.touched = changed
      /\ metrics.calls = Cardinality({i \in DOMAIN spans : spans[i].kind # "llm"})
      /\ \A c \in Range(commands) :
           LET o == Pairing(log, c.id)
               status == SpanFor(c.id).status
           IN  /\ c.exit = "1" => status = "error" \/ log[o].result.exit = "text"
               /\ status = "unset" => c.exit = "null"
      /\ \A p \in changed : CompareStatus(log, log, p) = "modified"
      /\ symptom # 0 => \/ log[symptom].kind = "HookExecutionEvent"
                       \/ SpanFor(log[symptom].of).status = "error"
      /\ \A o \in Of(log, "ObservationEvent") :
           SpanFor(log[o].of).status = "error" =>
             \/ o <= symptom
             \/ /\ ~log[o].result.flagged
                /\ log[o].result.error \/ ~log[o].result.terminal

(* A report only grows with the log: a row once shown stays in its place,  *)
(* and a span or a command that has its result keeps it.                   *)
ReportsGrow ==
  [][ /\ DOMAIN BuildSpans(log) = DOMAIN BuildSpans(log') \cap DOMAIN log
      /\ DOMAIN BuildCommands(log) = DOMAIN BuildCommands(log') \cap DOMAIN log
      /\ \A i \in DOMAIN BuildSpans(log) :
           LET was == BuildSpans(log)[i]
               now == BuildSpans(log')[i]
           IN  now.id = was.id /\ (was.status # "unset" => now = was)
      /\ \A i \in DOMAIN BuildCommands(log) :
           LET was == BuildCommands(log)[i]
               now == BuildCommands(log')[i]
           IN  now.id = was.id /\ (was.exit # "null" => now = was) ]_reportVars

(* The row of the event that came last is blank only where the agent or a  *)
(* tool gave it a text of white space: a message never is, whatever it     *)
(* holds.  Only a user's message with a commit behind it offers to restart *)
(* from it, in the list and never in the live feed.  A row depends on its  *)
(* event alone, so this is said of every row.                              *)
RowsAreLegible ==
  log # <<>> =>
    LET e == Last(log) IN
    /\ Blank(e) => /\ e.kind \in {"ActionEvent", "ObservationEvent"}
                   /\ Summary(e) \in {"summary", "thought"} \cap e.blank
    /\ Normalize(e, TRUE).sha => e.source = "user" /\ e.id \in Commits
    /\ ~Normalize(e, FALSE).sha
    /\ \A f \in {"id", "type", "source", "summary", "risk"} :
         Normalize(e, TRUE)[f] = Normalize(e, FALSE)[f]

(* The plan tab shows the list task_tracker wrote last.                    *)
PlanIsLatest ==
  LET answers == {o \in Of(log, "ObservationEvent") : log[o].tool = "task_tracker"}
  IN  answers # {} => BuildPlan(log) = log[Max(answers)].tasks
=============================================================================
