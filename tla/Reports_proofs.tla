---------------------------- MODULE Reports_proofs ----------------------------
(***************************************************************************)
(* Proofs about what is computed from the records: the reports on a run,   *)
(* the tables of the dashboard and of the benchmarks, and the patches that *)
(* are scored.  Then MCServices and MCRecords, which put components side   *)
(* by side: a behaviour of such a union is a behaviour of every component  *)
(* of it, so what holds of the components holds of the union.              *)
(***************************************************************************)
EXTENDS MCServices, MCRecords, Services_proofs, Records_proofs, FunctionTheorems


-----------------------------------------------------------------------------
(***************************************************************************)
(* RunReports: the log and the workspace go together.                      *)
(***************************************************************************)

FileStates == Contents \cup {Missing}
EventKinds ==
  {"", "MessageEvent", "LLMCompletionLogEvent", "ActionEvent", "ObservationEvent",
   "HookExecutionEvent"}
Sources == {"user", "agent", "hook"}
Tools == {"", "bash", "task_tracker", "file_editor"}
EventRecords ==
  [kind : EventKinds, id : Nat, source : Sources, tool : Tools, risk : {"none", "LOW"},
   has : SUBSET Texts, blank : SUBSET Texts, of : Nat, cmd : Commands \cup {""},
   path : Paths \cup {""}, old : FileStates, new : FileStates, prev : BOOLEAN,
   result : AnyResult, tasks : Plans \cup {NoPlan}]

ReportTypes ==
  /\ log \in Seq(EventRecords) /\ Len(log) <= MaxLog
  /\ files \in [Paths -> FileStates] /\ atStart \in [Paths -> FileStates]
  /\ unseen \subseteq Paths

\* An answer is to one earlier call, whose tool, command and file it repeats; no other event
\* answers; and a call of the editor is about a file.
Answering(i) ==
  /\ log[i].of \in 1 .. (i - 1) /\ log[log[i].of].kind = "ActionEvent"
  /\ log[i].tool = log[log[i].of].tool /\ log[i].cmd = log[log[i].of].cmd
  /\ log[i].path = log[log[i].of].path
  /\ \A j \in 1 .. (i - 1) : log[j].of # log[i].of
EventOK(i) ==
  /\ log[i].id = i /\ log[i].kind # ""
  /\ log[i].kind = "ObservationEvent" => Answering(i)
  /\ log[i].kind # "ObservationEvent" => log[i].of = 0
  /\ log[i].kind = "ActionEvent" /\ log[i].tool = "file_editor" =>
       log[i].path \in Paths /\ log[i].cmd \in Commands
LogOK == \A i \in 1 .. Len(log) : EventOK(i)

\* The same of an event that is about to be stored.
Fits(e) ==
  /\ e \in EventRecords /\ e.kind # ""
  /\ \/ e.kind # "ObservationEvent" /\ e.of = 0
     \/ /\ e.kind = "ObservationEvent"
        /\ \E a \in 1 .. Len(log) :
             /\ Open(a) /\ e.of = a
             /\ e.tool = log[a].tool /\ e.cmd = log[a].cmd /\ e.path = log[a].path
  /\ e.kind = "ActionEvent" /\ e.tool = "file_editor" => e.path \in Paths /\ e.cmd \in Commands

\* The workspace moves with the log: a file that bash has not touched changes with the editor's
\* answer, which holds it as it was and as it is.
IsEdit(e) ==
  /\ e.kind = "ObservationEvent" /\ e.tool = "file_editor" /\ ~e.result.flagged /\ e.cmd \in Mutations
FilesFollow(e) ==
  /\ files' \in [Paths -> FileStates] /\ atStart' = atStart
  /\ unseen \subseteq unseen' /\ unseen' \subseteq Paths
  /\ \A p \in Paths \ unseen' :
       IF IsEdit(e) /\ e.path = p
       THEN /\ e.old = files[p] /\ e.new = files'[p] /\ e.prev = (files[p] # Missing)
            /\ e.cmd = "create" => files[p] = Missing
       ELSE files'[p] = files[p]

ReportInv == ReportTypes /\ LogOK /\ DiffShowsWorkspace

\* What is stored comes last, with its position for an id, and nothing else changes.
LEMMA EventStored ==
  ASSUME log \in Seq(EventRecords), NEW e \in EventRecords, Store(e)
  PROVE  /\ log' \in Seq(EventRecords) /\ Len(log) \in Nat /\ Len(log') = Len(log) + 1
         /\ DOMAIN log = 1 .. Len(log) /\ DOMAIN log' = 1 .. (Len(log) + 1)
         /\ \A i \in 1 .. Len(log) : log'[i] = log[i]
         /\ log'[Len(log) + 1] = [e EXCEPT !.id = Len(log) + 1]
<1>1. Len(log) \in Nat /\ Len(log) + 1 \in Nat /\ DOMAIN log = 1 .. Len(log)
  OBVIOUS
<1>2. [e EXCEPT !.id = Len(log) + 1] \in EventRecords
  BY <1>1, Zenon DEF EventRecords
<1> QED
  BY <1>1, <1>2 DEF Store

\* The events that the steps store: an empty one with some fields replaced.
LEMMA BaseIsAnEvent ==
  Base \in EventRecords
<1>1. /\ "" \in EventKinds /\ "agent" \in Sources /\ "" \in Tools /\ "none" \in {"none", "LOW"}
      /\ "" \in Commands \cup {""}
  BY DEF EventKinds, Sources, Tools
<1>2. 0 \in Nat /\ {} \in SUBSET Texts
  OBVIOUS
<1>5. Clean \in AnyResult
  BY DEF Clean, AnyResult
<1>3. Missing \in FileStates /\ FALSE \in BOOLEAN
  BY DEF FileStates
<1>4. NoPlan \in Plans \cup {NoPlan} /\ "" \in Paths \cup {""}
  OBVIOUS
<1> QED
  BY <1>1, <1>2, <1>3, <1>4, <1>5, Zenon DEF Base, EventRecords

Message(source, has, blank) ==
  [Base EXCEPT !.kind = "MessageEvent", !.source = source, !.has = has, !.blank = blank]

LEMMA Spoken ==
  ASSUME NEW source \in Sources, NEW has \in SUBSET Texts,
         NEW blank \in SUBSET Texts
  PROVE  /\ Message(source, has, blank) \in EventRecords
         /\ Message(source, has, blank).kind = "MessageEvent"
         /\ Message(source, has, blank).of = 0
<1>1. "MessageEvent" \in EventKinds
  BY DEF EventKinds
<1>2. [Base EXCEPT !.kind = "MessageEvent"] \in EventRecords
  BY <1>1, BaseIsAnEvent, Zenon DEF EventRecords
<1>3. [Base EXCEPT !.kind = "MessageEvent", !.source = source] \in EventRecords
  BY <1>2, Zenon DEF EventRecords
<1>4. [Base EXCEPT !.kind = "MessageEvent", !.source = source, !.has = has] \in EventRecords
  BY <1>3, Zenon DEF EventRecords
<1>5. [Base EXCEPT !.kind = "MessageEvent", !.source = source, !.has = has, !.blank = blank]
        \in EventRecords
  BY <1>4, Zenon DEF EventRecords
<1> QED
  BY <1>5 DEF Base, Message

LEMMA Completed ==
  LET e == [Base EXCEPT !.kind = "LLMCompletionLogEvent"]
  IN  /\ e \in EventRecords /\ e.kind = "LLMCompletionLogEvent" /\ e.of = 0
<1>1. "LLMCompletionLogEvent" \in EventKinds
  BY DEF EventKinds
<1>2. [Base EXCEPT !.kind = "LLMCompletionLogEvent"] \in EventRecords
  BY <1>1, BaseIsAnEvent, Zenon DEF EventRecords
<1> QED
  BY <1>2 DEF Base

CallOf(tool, cmd, path, has, blank) ==
  [Base EXCEPT !.kind = "ActionEvent", !.tool = tool, !.cmd = cmd, !.path = path,
               !.risk = IF tool = "bash" THEN "LOW" ELSE "none", !.has = has, !.blank = blank]

LEMMA HookStored ==
  ASSUME NEW bad \in BOOLEAN
  PROVE  LET e == [Base EXCEPT !.kind = "HookExecutionEvent", !.source = "hook",
                               !.result = [Clean EXCEPT !.flagged = bad]]
         IN  e \in EventRecords /\ e.kind = "HookExecutionEvent" /\ e.of = 0
<1>1. "HookExecutionEvent" \in EventKinds /\ "hook" \in Sources
  BY DEF EventKinds, Sources
<1> DEFINE r == [Clean EXCEPT !.flagged = bad]
<1>2. r \in AnyResult
  BY DEF Clean, AnyResult
<1> HIDE DEF r
<1>3. [Base EXCEPT !.kind = "HookExecutionEvent"] \in EventRecords
  BY <1>1, BaseIsAnEvent, Zenon DEF EventRecords
<1>4. [Base EXCEPT !.kind = "HookExecutionEvent", !.source = "hook"] \in EventRecords
  BY <1>1, <1>3, Zenon DEF EventRecords
<1>5. [Base EXCEPT !.kind = "HookExecutionEvent", !.source = "hook", !.result = r]
        \in EventRecords
  BY <1>2, <1>4, Zenon DEF EventRecords
<1> QED
  BY <1>5 DEF Base, r

LEMMA Replied ==
  ASSUME LogOK, log \in Seq(EventRecords), NEW a \in 1 .. Len(log), NEW f \in EventRecords
  PROVE  LET e == [f EXCEPT !.kind = "ObservationEvent", !.of = log[a].id, !.tool = log[a].tool,
                            !.cmd = log[a].cmd, !.path = log[a].path]
         IN  /\ e \in EventRecords /\ e.kind = "ObservationEvent" /\ e.of = a
             /\ e.tool = log[a].tool /\ e.cmd = log[a].cmd /\ e.path = log[a].path
             /\ e.result = f.result
             /\ e.old = f.old /\ e.new = f.new /\ e.prev = f.prev
<1>1. "ObservationEvent" \in EventKinds
  BY DEF EventKinds
<1> DEFINE x == log[a]
<1>2. x \in EventRecords
  OBVIOUS
<1>9. x.id = a
  BY DEF LogOK, EventOK
<1> HIDE DEF x
<1>3. [f EXCEPT !.kind = "ObservationEvent"] \in EventRecords
  BY <1>1, Zenon DEF EventRecords
<1>4. [f EXCEPT !.kind = "ObservationEvent", !.of = x.id] \in EventRecords
  BY <1>2, <1>3, Zenon DEF EventRecords
<1>5. [f EXCEPT !.kind = "ObservationEvent", !.of = x.id, !.tool = x.tool] \in EventRecords
  BY <1>2, <1>4, Zenon DEF EventRecords
<1>6. [f EXCEPT !.kind = "ObservationEvent", !.of = x.id, !.tool = x.tool, !.cmd = x.cmd]
        \in EventRecords
  BY <1>2, <1>5, Zenon DEF EventRecords
<1> DEFINE e == [f EXCEPT !.kind = "ObservationEvent", !.of = x.id, !.tool = x.tool,
                          !.cmd = x.cmd, !.path = x.path]
<1>7. e \in EventRecords
  BY <1>2, <1>6, Zenon DEF EventRecords
<1>8. /\ e.kind = "ObservationEvent" /\ e.of = x.id /\ e.tool = x.tool /\ e.cmd = x.cmd
      /\ e.path = x.path /\ e.result = f.result
      /\ e.old = f.old /\ e.new = f.new /\ e.prev = f.prev
  BY DEF EventRecords
<1> QED
  BY <1>7, <1>8, <1>9 DEF x

\* Every step stores one event that fits the log, and the workspace follows it.
LEMMA EveryStepStores ==
  ASSUME ReportTypes, LogOK, ReportNext
  PROVE  Room /\ \E e : Fits(e) /\ Store(e) /\ FilesFollow(e)
<1>1. log \in Seq(EventRecords) /\ DOMAIN log = 1 .. Len(log)
  BY DEF ReportTypes
<1>2. ASSUME NEW e, Untouched, ~IsEdit(e) PROVE FilesFollow(e)
  BY <1>2 DEF Untouched, FilesFollow, ReportTypes
<1>3. ASSUME NEW a \in 1 .. Len(log), Open(a), NEW f \in EventRecords, Reply(a, f)
      PROVE  \E e : /\ Fits(e) /\ Store(e) /\ e.kind = "ObservationEvent" /\ e.tool = log[a].tool
                    /\ e.cmd = log[a].cmd /\ e.path = log[a].path /\ e.result = f.result
                    /\ e.old = f.old /\ e.new = f.new /\ e.prev = f.prev
  <2> DEFINE e == [f EXCEPT !.kind = "ObservationEvent", !.of = log[a].id, !.tool = log[a].tool,
                            !.cmd = log[a].cmd, !.path = log[a].path]
  <2>1. /\ e \in EventRecords /\ e.kind = "ObservationEvent" /\ e.of = a
        /\ e.tool = log[a].tool /\ e.cmd = log[a].cmd /\ e.path = log[a].path
        /\ e.result = f.result
        /\ e.old = f.old /\ e.new = f.new /\ e.prev = f.prev
    BY <1>1, Replied, ZenonT(60)
  <2>2. Store(e)
    BY <1>3 DEF Reply
  <2> HIDE DEF e
  <2>4. Fits(e)
    BY <1>3, <2>1 DEF Fits
  <2> QED
    BY <2>1, <2>2, <2>4
<1>4. ASSUME NEW source \in {"user", "agent"}, NEW blank \in {{}, {"content"}},
             Speak(source, {"content"}, blank)
      PROVE  Room /\ \E e : Fits(e) /\ Store(e) /\ FilesFollow(e)
  <2> DEFINE e == Message(source, {"content"}, blank)
  <2>1. Room /\ Store(e) /\ Untouched
    BY <1>4 DEF Speak, Message
  <2>2. source \in Sources /\ {"content"} \in SUBSET Texts /\ blank \in SUBSET Texts
    BY DEF Sources, Texts
  <2>3. e \in EventRecords /\ e.kind = "MessageEvent" /\ e.of = 0
    BY <2>2, Spoken
  <2> HIDE DEF e
  <2>4. Fits(e) /\ ~IsEdit(e)
    BY <2>3 DEF Fits, IsEdit
  <2> QED
    BY <1>2, <2>1, <2>4
<1>5. CASE LogCompletion
  <2> DEFINE e == [Base EXCEPT !.kind = "LLMCompletionLogEvent"]
  <2>1. /\ e \in EventRecords /\ e.kind = "LLMCompletionLogEvent" /\ e.of = 0
    BY Completed
  <2>2. Room /\ Store(e) /\ Untouched
    BY <1>5 DEF LogCompletion
  <2> HIDE DEF e
  <2>3. Fits(e) /\ ~IsEdit(e)
    BY <2>1 DEF Fits, IsEdit
  <2> QED
    BY <1>2, <2>2, <2>3
<1>13. \A s \in Sayings : s.has \in SUBSET Texts /\ s.blank \in SUBSET Texts
  <2> SUFFICES ASSUME NEW s \in Sayings PROVE s.has \in SUBSET Texts /\ s.blank \in SUBSET Texts
    OBVIOUS
  <2>1. s \in [has : SUBSET Texts, blank : SUBSET Texts]
    BY ReportConstants DEF ReportConstants
  <2> QED
    BY <2>1
<1>6. ASSUME NEW tool \in Tools, NEW cmd \in Commands \cup {""}, NEW path \in Paths \cup {""},
             NEW s \in Sayings,
             tool = "file_editor" => path \in Paths /\ cmd \in Commands,
             Call(tool, cmd, path, s)
      PROVE  Room /\ \E e : Fits(e) /\ Store(e) /\ FilesFollow(e)
  <2>4. PICK has \in SUBSET Texts, blank \in SUBSET Texts : has = s.has /\ blank = s.blank
    BY <1>13
  <2> DEFINE e == CallOf(tool, cmd, path, has, blank)
  <2>2. Room /\ Store(e) /\ Untouched
    BY <1>6, <2>4 DEF Call, CallOf
  <2>1. /\ e \in EventRecords /\ e.kind = "ActionEvent" /\ e.of = 0
        /\ e.tool = tool /\ e.cmd = cmd /\ e.path = path
    <3> DEFINE risk == IF tool = "bash" THEN "LOW" ELSE "none"
    <3>1. "ActionEvent" \in EventKinds /\ risk \in {"none", "LOW"}
      BY DEF EventKinds
    <3> HIDE DEF risk
    <3>2. [Base EXCEPT !.kind = "ActionEvent"] \in EventRecords
      BY <3>1, BaseIsAnEvent, Zenon DEF EventRecords
    <3>3. [Base EXCEPT !.kind = "ActionEvent", !.tool = tool] \in EventRecords
      BY <3>2, Zenon DEF EventRecords
    <3>4. [Base EXCEPT !.kind = "ActionEvent", !.tool = tool, !.cmd = cmd] \in EventRecords
      BY <3>3, Zenon DEF EventRecords
    <3>5. [Base EXCEPT !.kind = "ActionEvent", !.tool = tool, !.cmd = cmd, !.path = path]
            \in EventRecords
      BY <3>4, Zenon DEF EventRecords
    <3>6. [Base EXCEPT !.kind = "ActionEvent", !.tool = tool, !.cmd = cmd, !.path = path,
                       !.risk = risk]
            \in EventRecords
      BY <3>1, <3>5, Zenon DEF EventRecords
    <3>7. [Base EXCEPT !.kind = "ActionEvent", !.tool = tool, !.cmd = cmd, !.path = path,
                       !.risk = risk, !.has = has]
            \in EventRecords
      BY <3>6, Zenon DEF EventRecords
    <3>8. [Base EXCEPT !.kind = "ActionEvent", !.tool = tool, !.cmd = cmd, !.path = path,
                       !.risk = risk, !.has = has, !.blank = blank]
            \in EventRecords
      BY <3>7, Zenon DEF EventRecords
    <3> QED
      BY <3>8 DEF Base, CallOf, risk
  <2> HIDE DEF e
  <2>3. Fits(e) /\ ~IsEdit(e)
    BY <1>6, <2>1 DEF Fits, IsEdit
  <2> QED
    BY <1>2, <2>2, <2>3
<1>14. ASSUME NEW bad \in BOOLEAN, HookLogged(bad)
       PROVE  Room /\ \E e : Fits(e) /\ Store(e) /\ FilesFollow(e)
  <2> DEFINE e == [Base EXCEPT !.kind = "HookExecutionEvent", !.source = "hook",
                               !.result = [Clean EXCEPT !.flagged = bad]]
  <2>1. e \in EventRecords /\ e.kind = "HookExecutionEvent" /\ e.of = 0
    BY HookStored, ZenonT(60)
  <2>2. Room /\ Store(e) /\ Untouched
    BY <1>14 DEF HookLogged
  <2> HIDE DEF e
  <2>3. Fits(e) /\ ~IsEdit(e)
    BY <2>1 DEF Fits, IsEdit
  <2> QED
    BY <1>2, <2>2, <2>3
<1>7. ASSUME NEW a \in DOMAIN log, NEW result \in Results, NEW p \in Paths \cup {""},
             BashAnswers(a, result, p)
      PROVE  Room /\ \E e : Fits(e) /\ Store(e) /\ FilesFollow(e)
  <2>1. Room /\ Open(a) /\ log[a].tool = "bash" /\ Reply(a, [Base EXCEPT !.result = result])
    BY <1>7 DEF BashAnswers
  <2>3. result \in AnyResult
    BY ReportConstants DEF ReportConstants
  <2>2. [Base EXCEPT !.result = result] \in EventRecords
    BY <2>3, BaseIsAnEvent, Zenon DEF EventRecords
  <2>4. PICK e : Fits(e) /\ Store(e) /\ e.tool = log[a].tool
    BY <1>1, <1>3, <2>1, <2>2, ZenonT(60)
  <2>5. ~IsEdit(e)
    BY <2>1, <2>4 DEF IsEdit
  <2>6. /\ files' \in [Paths -> FileStates]
        /\ \A q \in Paths : q # p => files'[q] = files[q]
    <3>1. CASE p \in Paths
      BY <1>7, <3>1 DEF BashAnswers, ReportTypes, FileStates
    <3>2. CASE p \notin Paths
      BY <1>7, <3>2 DEF BashAnswers, ReportTypes
    <3> QED
      BY <3>1, <3>2
  <2>7. unseen' = unseen \cup ({p} \cap Paths) /\ atStart' = atStart /\ unseen \subseteq Paths
    BY <1>7 DEF BashAnswers, ReportTypes
  <2>8. FilesFollow(e)
    BY <2>5, <2>6, <2>7 DEF FilesFollow
  <2> QED
    BY <2>1, <2>4, <2>8
<1>8. ASSUME NEW a \in DOMAIN log, EditorAnswers(a)
      PROVE  Room /\ \E e : Fits(e) /\ Store(e) /\ FilesFollow(e)
  <2> DEFINE p == log[a].path
  <2>1. Room /\ Open(a) /\ log[a].tool = "file_editor" /\ log[a].cmd # "view"
    BY <1>8 DEF EditorAnswers
  <2>2. p \in Paths /\ log[a].cmd \in Mutations
    BY <1>1, <2>1 DEF LogOK, EventOK, Open, Commands, Mutations
  <2>3. log[a].cmd = "create" => files[p] = Missing
    BY <1>8 DEF EditorAnswers, Editable
  <2>4. PICK c \in Contents :
          /\ Reply(a, [Base EXCEPT !.old = files[p], !.new = c, !.prev = files[p] # Missing])
          /\ files' = [files EXCEPT ![p] = c]
    BY <1>8 DEF EditorAnswers
  <2>5. atStart' = atStart /\ unseen' = unseen
    BY <1>8 DEF EditorAnswers
  <2> DEFINE was == files[p]
             f == [Base EXCEPT !.old = was, !.new = c, !.prev = was # Missing]
  <2>6. was \in FileStates /\ c \in FileStates /\ (was # Missing) \in BOOLEAN
    BY <2>2 DEF ReportTypes, FileStates
  <2>7. f.result.flagged = FALSE /\ f.old = was /\ f.new = c /\ f.prev = (was # Missing)
    BY DEF Base, Clean
  <2>8. Reply(a, f)
    BY <2>4
  <2>9. f \in EventRecords
    <3> HIDE DEF was
    <3>1. [Base EXCEPT !.old = was] \in EventRecords
      BY <2>6, BaseIsAnEvent, Zenon DEF EventRecords
    <3>2. [Base EXCEPT !.old = was, !.new = c] \in EventRecords
      BY <2>6, <3>1, Zenon DEF EventRecords
    <3> QED
      BY <2>6, <3>2, Zenon DEF EventRecords
  <2> HIDE DEF f
  <2>10. PICK e : /\ Fits(e) /\ Store(e) /\ e.kind = "ObservationEvent" /\ e.tool = log[a].tool
                  /\ e.cmd = log[a].cmd /\ e.path = log[a].path /\ e.result = f.result
                  /\ e.old = f.old /\ e.new = f.new /\ e.prev = f.prev
    BY <1>1, <1>3, <2>1, <2>7, <2>8, <2>9
  <2>11. /\ files' \in [Paths -> FileStates] /\ files'[p] = c
         /\ \A q \in Paths : q # p => files'[q] = files[q]
    BY <2>2, <2>4, <2>6 DEF ReportTypes
  <2>12. IsEdit(e) /\ e.path = p
    BY <2>1, <2>2, <2>7, <2>10 DEF IsEdit
  <2>13. e.old = files[p] /\ e.new = files'[p] /\ e.prev = (files[p] # Missing)
    BY <2>7, <2>10, <2>11
  <2>14. FilesFollow(e)
    BY <2>3, <2>5, <2>10, <2>11, <2>12, <2>13 DEF FilesFollow, ReportTypes
  <2> QED
    BY <2>1, <2>10, <2>14
<1>9. ASSUME NEW a \in DOMAIN log, EditorRefuses(a)
      PROVE  Room /\ \E e : Fits(e) /\ Store(e) /\ FilesFollow(e)
  <2> DEFINE was == files[log[a].path]
             r == [Clean EXCEPT !.flagged = (log[a].cmd # "view")]
             f == [Base EXCEPT !.result = r, !.old = was, !.new = was, !.prev = (was # Missing)]
  <2>1. Room /\ Open(a) /\ log[a].tool = "file_editor" /\ Reply(a, f) /\ Untouched
    BY <1>9 DEF EditorRefuses
  <2>2. log[a].path \in Paths /\ log[a].cmd \in Commands
    BY <1>1, <2>1 DEF LogOK, EventOK, Open
  <2>3. was \in FileStates /\ (was # Missing) \in BOOLEAN
    BY <2>2 DEF ReportTypes
  <2>8. r \in AnyResult /\ r.flagged = (log[a].cmd # "view")
    BY DEF Clean, AnyResult
  <2> HIDE DEF r
  <2>4. f.result = r
    BY DEF Base
  <2>5. f \in EventRecords
    <3> HIDE DEF was
    <3>1. [Base EXCEPT !.result = r] \in EventRecords
      BY <2>8, BaseIsAnEvent, Zenon DEF EventRecords
    <3>2. [Base EXCEPT !.result = r, !.old = was] \in EventRecords
      BY <2>3, <3>1, Zenon DEF EventRecords
    <3>3. [Base EXCEPT !.result = r, !.old = was, !.new = was] \in EventRecords
      BY <2>3, <3>2, Zenon DEF EventRecords
    <3> QED
      BY <2>3, <3>3, ZenonT(60) DEF EventRecords
  <2> HIDE DEF f
  <2>6. PICK e : /\ Fits(e) /\ Store(e) /\ e.cmd = log[a].cmd /\ e.result = f.result
    BY <1>1, <1>3, <2>1, <2>5
  <2>7. ~IsEdit(e)
    BY <2>4, <2>6, <2>8 DEF IsEdit, Mutations
  <2> QED
    BY <1>2, <2>1, <2>6, <2>7
<1>10. ASSUME NEW a \in DOMAIN log, NEW t \in Plans \cup {NoPlan}, NEW s \in Sayings,
              PlanAnswers(a, t, s)
       PROVE  Room /\ \E e : Fits(e) /\ Store(e) /\ FilesFollow(e)
  <2> DEFINE has == s.has
             blank == s.blank
             f == [Base EXCEPT !.tasks = t, !.has = has, !.blank = blank]
  <2>1. Room /\ Open(a) /\ log[a].tool = "task_tracker" /\ Untouched /\ Reply(a, f)
    BY <1>10 DEF PlanAnswers
  <2>2. has \in SUBSET Texts /\ blank \in SUBSET Texts
    BY <1>13
  <2>3. f \in EventRecords
    <3> HIDE DEF has, blank
    <3>1. [Base EXCEPT !.tasks = t] \in EventRecords
      BY BaseIsAnEvent, Zenon DEF EventRecords
    <3>2. [Base EXCEPT !.tasks = t, !.has = has] \in EventRecords
      BY <2>2, <3>1, Zenon DEF EventRecords
    <3> QED
      BY <2>2, <3>2, Zenon DEF EventRecords
  <2> HIDE DEF f
  <2>4. PICK e : Fits(e) /\ Store(e) /\ e.tool = log[a].tool
    BY <1>1, <1>3, <2>1, <2>3, ZenonT(60)
  <2>5. ~IsEdit(e)
    BY <2>1, <2>4 DEF IsEdit
  <2> QED
    BY <1>2, <2>1, <2>4, <2>5
<1>11. ASSUME NEW s \in Sayings, Call("bash", "", "", s) \/ Call("task_tracker", "", "", s)
       PROVE  Room /\ \E e : Fits(e) /\ Store(e) /\ FilesFollow(e)
  BY <1>6, <1>11 DEF Tools
<1>12. ASSUME NEW s \in Sayings, NEW c \in Commands, NEW p \in Paths,
              Call("file_editor", c, p, s)
       PROVE  Room /\ \E e : Fits(e) /\ Store(e) /\ FilesFollow(e)
  BY <1>6, <1>12 DEF Tools
<1> QED
  BY <1>4, <1>5, <1>7, <1>8, <1>9, <1>10, <1>11, <1>12, <1>14 DEF ReportNext

\* An event that fits keeps the log well formed.
LEMMA LogStays ==
  ASSUME ReportTypes, LogOK, NEW e, Fits(e), Store(e)
  PROVE  LogOK'
<1>0. PICK n : n = Len(log) + 1
  OBVIOUS
<1>1. /\ log' \in Seq(EventRecords) /\ Len(log) \in Nat /\ Len(log') = n /\ n = Len(log) + 1
      /\ DOMAIN log = 1 .. Len(log) /\ DOMAIN log' = 1 .. n
      /\ \A i \in 1 .. Len(log) : log'[i] = log[i]
      /\ log'[n] = [e EXCEPT !.id = n]
  BY <1>0, EventStored DEF Fits, ReportTypes
<1>2. /\ log'[n].id = n /\ log'[n].kind = e.kind /\ log'[n].of = e.of /\ log'[n].tool = e.tool
      /\ log'[n].cmd = e.cmd /\ log'[n].path = e.path
  BY <1>1 DEF Fits, EventRecords
<1>3. ASSUME NEW i \in 1 .. Len(log) PROVE EventOK(i)'
  <2>1. EventOK(i) /\ log'[i] = log[i]
    BY <1>1 DEF LogOK
  <2>2. ASSUME log[i].kind = "ObservationEvent" PROVE Answering(i)'
    <3>1. Answering(i)
      BY <2>1, <2>2 DEF EventOK
    <3>2. \A j \in 1 .. (i - 1) : j \in 1 .. Len(log) /\ log'[j] = log[j]
      BY <1>1
    <3>3. log[i].of \in 1 .. (i - 1)
      BY <3>1 DEF Answering
    <3> QED
      BY <2>1, <3>1, <3>2, <3>3 DEF Answering
  <2> QED
    BY <2>1, <2>2 DEF EventOK
<1>4. EventOK(n)'
  <2>1. CASE e.kind # "ObservationEvent"
    BY <1>2, <2>1 DEF Fits, EventOK
  <2>2. CASE e.kind = "ObservationEvent"
    <3>1. PICK a \in 1 .. Len(log) :
            /\ Open(a) /\ e.of = a /\ e.tool = log[a].tool /\ e.cmd = log[a].cmd
            /\ e.path = log[a].path
      BY <2>2 DEF Fits
    <3>6. log[a].id = a
      BY DEF LogOK, EventOK
    <3>7. a \in 1 .. (n - 1)
      BY <1>1
    <3>2. a \in 1 .. (n - 1) /\ log'[a] = log[a] /\ log[a].id = a
      BY <1>1, <3>6, <3>7
    <3>3. \A j \in 1 .. (n - 1) : log'[j].of # a
      BY <1>1, <3>1, <3>2 DEF Open, Answered
    <3>4. log[a].kind = "ActionEvent"
      BY <3>1 DEF Open
    <3>5. Answering(n)'
      BY <1>2, <3>1, <3>2, <3>3, <3>4 DEF Answering
    <3> QED
      BY <1>2, <2>2, <3>5 DEF Fits, EventOK
  <2> QED
    BY <2>1, <2>2
<1> QED
  BY <1>1, <1>3, <1>4 DEF LogOK

\* The edits of a file, with the event that is stored.
LEMMA EditsWith ==
  ASSUME log \in Seq(EventRecords), NEW e \in EventRecords, Store(e), NEW p
  PROVE  /\ EditsOf(log, p) \subseteq 1 .. Len(log)
         /\ EditsOf(log', p) = IF IsEdit(e) /\ e.path = p
                               THEN EditsOf(log, p) \cup {Len(log) + 1} ELSE EditsOf(log, p)
<1>0. PICK n : n = Len(log) + 1
  OBVIOUS
<1>1. /\ Len(log) \in Nat /\ n = Len(log) + 1 /\ DOMAIN log = 1 .. Len(log)
      /\ DOMAIN log' = 1 .. n
      /\ \A i \in 1 .. Len(log) : log'[i] = log[i]
      /\ log'[n] = [e EXCEPT !.id = n]
  BY <1>0, EventStored
<1>2. /\ log'[n].kind = e.kind /\ log'[n].tool = e.tool /\ log'[n].cmd = e.cmd
      /\ log'[n].path = e.path /\ log'[n].result = e.result
  BY <1>1 DEF EventRecords
<1>3. ASSUME NEW i \in 1 .. Len(log) PROVE i \in EditsOf(log', p) <=> i \in EditsOf(log, p)
  <2>1. i \in DOMAIN log /\ i \in DOMAIN log' /\ log'[i] = log[i]
    BY <1>1
  <2> QED
    BY <2>1, Zenon DEF EditsOf, Edits, Of
<1>4. n \in EditsOf(log', p) <=> IsEdit(e) /\ e.path = p
  <2>1. n \in DOMAIN log'
    BY <1>1
  <2> QED
    BY <1>2, <2>1, Zenon DEF EditsOf, Edits, Of, IsEdit
<1>5. EditsOf(log, p) \subseteq 1 .. Len(log) /\ EditsOf(log', p) \subseteq 1 .. n
  BY <1>1 DEF EditsOf, Edits, Of
<1>6. 1 .. n = (1 .. Len(log)) \cup {n} /\ n \notin 1 .. Len(log)
  BY <1>1
<1>7. EditsOf(log', p) = EditsOf(log, p) \cup ({n} \cap EditsOf(log', p))
  BY <1>3, <1>5, <1>6, Zenon
<1> QED
  BY <1>1, <1>4, <1>5, <1>7, ZenonT(60)

\* The first and the last of a set of positions.
LEMMA EndsExist ==
  ASSUME NEW n \in Nat, NEW S \in SUBSET (1 .. n), S # {}
  PROVE  /\ Min(S) \in S /\ \A k \in S : Min(S) <= k
         /\ Max(S) \in S /\ \A k \in S : k <= Max(S)
<1>1. S \in SUBSET Nat
  OBVIOUS
<1>2. \E m \in S : \A k \in S : m <= k
  BY <1>1, LeastNatural
<1>4. Min(S) \in S /\ \A k \in S : Min(S) <= k
  BY <1>2 DEF Min
<1>5. Max(S) \in S /\ \A k \in S : k <= Max(S)
  BY MaxOfBounded
<1> QED
  BY <1>1, <1>4, <1>5

LEMMA MinOf ==
  ASSUME NEW n \in Nat, NEW S \in SUBSET (1 .. n), NEW m \in S, \A k \in S : m <= k
  PROVE  Min(S) = m
<1>1. S # {}
  OBVIOUS
<1>2. Min(S) \in S /\ Min(S) <= m
  BY <1>1, EndsExist
<1> DEFINE x == Min(S)
<1> HIDE DEF x
<1>3. x \in S /\ x <= m
  BY <1>2 DEF x
<1>4. x \in 1 .. n /\ m \in 1 .. n
  BY <1>3
<1>5. m <= x
  BY <1>3
<1> QED
  BY <1>3, <1>4, <1>5 DEF x

LEMMA MaxOf ==
  ASSUME NEW n \in Nat, NEW S \in SUBSET (1 .. n), NEW m \in S, \A k \in S : k <= m
  PROVE  Max(S) = m
<1>1. S # {}
  OBVIOUS
<1>2. Max(S) \in S /\ m <= Max(S)
  BY <1>1, EndsExist
<1> DEFINE x == Max(S)
<1> HIDE DEF x
<1>3. x \in S /\ m <= x
  BY <1>2 DEF x
<1>4. x \in 1 .. n /\ m \in 1 .. n
  BY <1>3
<1>5. x <= m
  BY <1>3
<1> QED
  BY <1>3, <1>4, <1>5 DEF x

\* What the diff of a file comes from: its first edit and its last.
DiffFrom(first, last, was, is) ==
  /\ (IF first.cmd = "create" /\ ~first.prev THEN Missing ELSE first.old) = was
  /\ last.new = is
  /\ (IF first.prev THEN "modified" ELSE "added") = (IF was = Missing THEN "added" ELSE "modified")

DiffOf(p) ==
  IF EditsOf(log, p) = {} THEN files[p] = atStart[p]
  ELSE DiffFrom(log[Min(EditsOf(log, p))], log[Max(EditsOf(log, p))], atStart[p], files[p])

LEMMA DiffsFrom ==
  DiffShowsWorkspace <=> \A p \in Paths \ unseen : DiffOf(p)
<1>1. ASSUME NEW p PROVE p \in Touched(log) <=> EditsOf(log, p) # {}
  BY DEF Touched, PathsAt, EditsOf
<1>2. ASSUME NEW p
      PROVE  DiffOf(p) <=>
               IF p \in Touched(log)
               THEN LET d == Reconstruct(log, p) IN
                    /\ d.original = atStart[p] /\ d.modified = files[p]
                    /\ d.status = IF atStart[p] = Missing THEN "added" ELSE "modified"
               ELSE files[p] = atStart[p]
  BY <1>1 DEF DiffOf, DiffFrom, Reconstruct
<1> QED
  BY <1>2 DEF DiffShowsWorkspace

LEMMA DiffStays ==
  ASSUME ReportInv, NEW e, Fits(e), Store(e), FilesFollow(e)
  PROVE  DiffShowsWorkspace'
<1>0. PICK n : n = Len(log) + 1
  OBVIOUS
<1>1. /\ Len(log) \in Nat /\ n = Len(log) + 1 /\ e \in EventRecords
      /\ \A i \in 1 .. Len(log) : log'[i] = log[i]
      /\ log'[n] = [e EXCEPT !.id = n]
  BY <1>0, EventStored DEF Fits, ReportInv, ReportTypes
<1>2. /\ log'[n].old = e.old /\ log'[n].new = e.new /\ log'[n].prev = e.prev
      /\ log'[n].cmd = e.cmd
  BY <1>1 DEF EventRecords
<1>3. \A p \in Paths \ unseen : DiffOf(p)
  BY DiffsFrom DEF ReportInv
<1>4. ASSUME NEW p \in Paths, p \notin unseen' PROVE DiffOf(p)'
  <2> DEFINE own == EditsOf(log, p)
  <2>1. /\ own \in SUBSET (1 .. Len(log))
        /\ EditsOf(log', p) = IF IsEdit(e) /\ e.path = p THEN own \cup {n} ELSE own
    BY <1>1, EditsWith DEF ReportInv, ReportTypes
  <2>2. DiffOf(p) /\ atStart'[p] = atStart[p]
    BY <1>3, <1>4 DEF FilesFollow
  <2>3. CASE ~ (IsEdit(e) /\ e.path = p)
    <3>1. EditsOf(log', p) = own /\ files'[p] = files[p]
      BY <1>4, <2>1, <2>3 DEF FilesFollow
    <3>2. CASE own = {}
      BY <2>2, <3>1, <3>2 DEF DiffOf
    <3>3. CASE own # {}
      <4>1. Min(own) \in own /\ Max(own) \in own
        BY <1>1, <2>1, <3>3, EndsExist
      <4>2. log'[Min(own)] = log[Min(own)] /\ log'[Max(own)] = log[Max(own)]
        BY <1>1, <2>1, <4>1
      <4> QED
        BY <2>2, <3>1, <3>3, <4>2 DEF DiffOf
    <3> QED
      BY <3>2, <3>3
  <2>4. CASE IsEdit(e) /\ e.path = p
    <3>1. /\ e.old = files[p] /\ e.new = files'[p] /\ e.prev = (files[p] # Missing)
          /\ e.cmd = "create" => files[p] = Missing
      BY <1>4, <2>4 DEF FilesFollow
    <3>2. EditsOf(log', p) = own \cup {n} /\ own \cup {n} \in SUBSET (1 .. n) /\ n \in Nat
      BY <1>1, <2>1, <2>4
    <3>6. n \in own \cup {n} /\ \A k \in own \cup {n} : k <= n
      BY <3>2
    <3>3. Max(own \cup {n}) = n
      BY <3>2, <3>6, MaxOf
    <3>4. CASE own = {}
      <4>1. Min(own \cup {n}) = n
        BY <3>2, <3>4, MinOf
      <4>2. files[p] = atStart[p]
        BY <2>2, <3>4 DEF DiffOf
      <4>3. DiffFrom(log'[n], log'[n], atStart'[p], files'[p])
        BY <1>2, <2>2, <3>1, <4>2 DEF DiffFrom
      <4> QED
        BY <3>2, <3>3, <4>1, <4>3 DEF DiffOf
    <3>5. CASE own # {}
      <4>1. Min(own) \in own /\ \A k \in own : Min(own) <= k
        BY <1>1, <2>1, <3>5, EndsExist
      <4>2. Min(own) <= n
        BY <1>1, <2>1, <4>1
      <4>3. Min(own \cup {n}) = Min(own)
        BY <3>2, <4>1, <4>2, MinOf, ZenonT(60)
      <4>4. log'[Min(own)] = log[Min(own)]
        BY <1>1, <2>1, <4>1
      <4>5. DiffFrom(log[Min(own)], log[Max(own)], atStart[p], files[p])
        BY <2>2, <3>5 DEF DiffOf
      <4>6. DiffFrom(log[Min(own)], log'[n], atStart'[p], files'[p])
        BY <1>2, <2>2, <3>1, <4>5 DEF DiffFrom
      <4> QED
        BY <3>2, <3>3, <4>3, <4>4, <4>6 DEF DiffOf
    <3> QED
      BY <3>4, <3>5
  <2> QED
    BY <2>3, <2>4
<1>5. (\A p \in Paths \ unseen : DiffOf(p))'
  BY <1>4
<1>6. (DiffShowsWorkspace <=> \A p \in Paths \ unseen : DiffOf(p))'
  BY DiffsFrom, PTL
<1> QED
  BY <1>5, <1>6

\* The log, the workspace and the diff page stay in step.
LEMMA ReportInvStays ==
  ASSUME ReportConstants, ReportInv, [ReportNext]_reportVars
  PROVE  ReportInv'
<1>1. CASE UNCHANGED reportVars
  <2>1. ReportTypes'
    BY <1>1 DEF ReportInv, ReportTypes, reportVars
  <2>2. LogOK'
    <3>1. log' = log /\ \A i \in 1 .. Len(log) : EventOK(i)
      BY <1>1 DEF ReportInv, LogOK, reportVars
    <3>2. ASSUME NEW i PROVE EventOK(i)' <=> EventOK(i)
      <4>1. Answering(i)' <=> Answering(i)
        BY <3>1 DEF Answering
      <4> QED
        BY <3>1, <4>1 DEF EventOK
    <3> QED
      BY <3>1, <3>2 DEF LogOK
  <2>3. DiffShowsWorkspace'
    <3>1. log' = log /\ files' = files /\ atStart' = atStart /\ unseen' = unseen
      BY <1>1 DEF reportVars
    <3>2. \A p \in Paths \ unseen : DiffOf(p)
      BY DiffsFrom DEF ReportInv
    <3>3. \A p : DiffOf(p)' <=> DiffOf(p)
      BY <3>1 DEF DiffOf
    <3>4. (\A p \in Paths \ unseen : DiffOf(p))'
      BY <3>1, <3>2, <3>3
    <3>5. (DiffShowsWorkspace <=> \A p \in Paths \ unseen : DiffOf(p))'
      BY DiffsFrom, PTL
    <3> QED
      BY <3>4, <3>5
  <2> QED
    BY <2>1, <2>2, <2>3 DEF ReportInv
<1>2. CASE ReportNext
  <2>1. PICK e : Room /\ Fits(e) /\ Store(e) /\ FilesFollow(e)
    BY <1>2, EveryStepStores DEF ReportInv
  <2>2. LogOK'
    BY <2>1, LogStays DEF ReportInv
  <2>3. DiffShowsWorkspace'
    BY <2>1, DiffStays
  <2>4. log' \in Seq(EventRecords) /\ Len(log') = Len(log) + 1 /\ Len(log) \in Nat
    BY <2>1, EventStored DEF Fits, ReportInv, ReportTypes
  <2>5. Len(log') <= MaxLog
    BY <2>1, <2>4 DEF Room, ReportConstants
  <2>6. ReportTypes'
    BY <2>1, <2>4, <2>5 DEF FilesFollow, ReportInv, ReportTypes
  <2> QED
    BY <2>2, <2>3, <2>6 DEF ReportInv
<1> QED
  BY <1>1, <1>2

LEMMA ReportInvHolds ==
  ReportSpec => []ReportInv
<1>1. ReportInit => ReportInv
  <2> SUFFICES ASSUME ReportInit PROVE ReportInv
    OBVIOUS
  <2>1. log = <<>> /\ Len(log) = 0 /\ DOMAIN log = {} /\ unseen = {} /\ atStart = files
    BY DEF ReportInit
  <2>2. ReportTypes
    BY <2>1, ReportConstants DEF ReportInit, ReportTypes, ReportConstants, FileStates
  <2>3. LogOK
    BY <2>1 DEF LogOK
  <2>4. Touched(log) = {}
    BY <2>1 DEF Touched, PathsAt, Edits, Of
  <2>5. DiffShowsWorkspace
    BY <2>1, <2>4 DEF DiffShowsWorkspace
  <2> QED
    BY <2>2, <2>3, <2>5 DEF ReportInv
<1>2. ReportInv /\ [ReportNext]_reportVars => ReportInv'
  BY ReportConstants, ReportInvStays
<1> QED
  BY <1>1, <1>2, PTL DEF ReportSpec

\* In every run of the reports: the state has its type.
THEOREM ReportTypeCorrect ==
  ReportSpec => []ReportTypeOK
<1>1. ReportInv => ReportTypeOK
  BY DEF ReportInv, ReportTypes, ReportTypeOK, FileStates
<1> QED
  BY <1>1, ReportInvHolds, PTL

\* In every run of the reports, whatever the agent calls and in whatever order its tools answer:
\* the diff page shows, of every file that bash has not touched, the text it had at the start and
\* the text it has now.
THEOREM DiffsShowTheWorkspace ==
  ReportSpec => []DiffShowsWorkspace
<1>1. ReportInv => DiffShowsWorkspace
  BY DEF ReportInv
<1> QED
  BY <1>1, ReportInvHolds, PTL

\* The first of two fields that is in a set is one of them, and in the set.
LEMMA FirstOfTwo ==
  ASSUME NEW set, NEW x, NEW y, NEW last
  PROVE  \/ FirstOf(set, <<x, y>>, last) = last
         \/ FirstOf(set, <<x, y>>, last) \in set \cap {x, y}
<1> DEFINE fields == <<x, y>>
           hits == {i \in 1 .. Len(fields) : fields[i] \in set}
<1>1. hits \in SUBSET (1 .. 2)
  OBVIOUS
<1>2. CASE hits = {}
  BY <1>2 DEF FirstOf
<1>3. CASE hits # {}
  <2>1. \E m \in hits : \A j \in hits : m <= j
    <3> HIDE DEF hits
    <3> QED
      BY <1>1, <1>3, EndsExist
  <2> DEFINE k == CHOOSE i \in hits : \A j \in hits : i <= j
  <2>2. k \in hits
    BY <2>1
  <2>3. FirstOf(set, fields, last) = fields[k]
    BY <1>3 DEF FirstOf
  <2>4. fields[k] \in set
    BY <2>2
  <2>5. k \in 1 .. 2
    BY <1>1, <2>2
  <2> HIDE DEF k, hits
  <2>6. fields[k] \in {x, y}
    BY <2>5
  <2> QED
    BY <2>3, <2>4, <2>6
<1> QED
  BY <1>2, <1>3

\* Only a text of white space that came with a call or an answer makes a blank row.
LEMMA Legible ==
  ASSUME NEW e \in EventRecords, e.kind # "", Blank(e)
  PROVE  /\ e.kind \in {"ActionEvent", "ObservationEvent"}
         /\ Summary(e) \in {"summary", "thought"} \cap e.blank
<1>1. /\ e.kind \in EventKinds /\ e.blank \in SUBSET Texts /\ e.has \in SUBSET Texts
      /\ e.tool \in Tools
  BY DEF EventRecords
<1>2. CASE e.kind = "MessageEvent"
  <2>1. Summary(e) = MessageSummary(e)
    BY <1>2, Zenon DEF Summary, Bridged, Condensed, Failed
  <2>2. MessageSummary(e) # Nothing /\ MessageSummary(e) \notin e.blank
    BY <1>1 DEF MessageSummary, Text, Given, Texts, Nothing, Marker
  <2> QED
    BY <2>1, <2>2 DEF Blank
<1>3. CASE e.kind = "ActionEvent"
  <2>1. Summary(e) = ActionSummary(e)
    BY <1>3, Zenon DEF Summary, Bridged, Condensed, Failed
  <2> DEFINE shown == FirstOf(e.has, <<"thought", "command">>, Marker)
  <2>4. shown = Marker \/ shown \in e.has \cap {"thought", "command"}
    BY FirstOfTwo, ZenonT(60)
  <2>5. ActionSummary(e) \in {"summary", Marker, shown}
    BY Zenon DEF ActionSummary
  <2> HIDE DEF shown
  <2>2. ActionSummary(e) \in {"summary", "thought", "command", Marker}
    BY <2>4, <2>5
  <2>3. Summary(e) \in e.blank
    BY <2>1, <2>2, <1>1 DEF Blank, Marker, Nothing
  <2> QED
    BY <1>1, <1>3, <2>1, <2>2, <2>3 DEF Texts, Marker
<1>4. CASE e.kind = "ObservationEvent"
  <2>1. Summary(e) = ObservationSummary(e)
    BY <1>4, Zenon DEF Summary, Bridged, Condensed, Failed
  <2>2. ASSUME ~Given(e, "summary") PROVE FALSE
    <3> DEFINE shown == FirstOf(e.has \ e.blank, <<"content", "output">>, Marker)
    <3>1. ObservationSummary(e) = shown
      BY <2>2, Zenon DEF ObservationSummary
    <3>2. shown = Marker \/ shown \in (e.has \ e.blank) \cap {"content", "output"}
      BY FirstOfTwo, ZenonT(60)
    <3> HIDE DEF shown
    <3> QED
      BY <1>1, <2>1, <3>1, <3>2 DEF Blank, Marker, Nothing, Texts
  <2>3. Summary(e) = "summary" /\ Nothing # "summary"
    <3>1. ObservationSummary(e) = "summary"
      BY <2>2, Zenon DEF ObservationSummary
    <3> QED
      BY <2>1, <3>1 DEF Nothing
  <2> QED
    BY <1>4, <2>3 DEF Blank
<1>5. CASE e.kind \in {"LLMCompletionLogEvent", "HookExecutionEvent"}
  <2>1. Summary(e) = GenericSummary(e)
    BY <1>5, Zenon DEF Summary, Bridged, Condensed, Failed
  <2> DEFINE shown == FirstOf(e.has \ e.blank, <<"summary", "message">>, Marker)
  <2>2. GenericSummary(e) = shown
    <3>1. e.kind # ""
      BY <1>5
    <3> QED
      BY <3>1, Zenon DEF GenericSummary
  <2>3. shown = Marker \/ shown \in (e.has \ e.blank) \cap {"summary", "message"}
    BY FirstOfTwo, ZenonT(60)
  <2> HIDE DEF shown
  <2> QED
    BY <1>1, <2>1, <2>2, <2>3 DEF Blank, Marker, Nothing, Texts
<1> QED
  BY <1>1, <1>2, <1>3, <1>4, <1>5 DEF EventKinds

LEMMA RowsLegible ==
  ASSUME ReportInv
  PROVE  RowsAreLegible
<1> SUFFICES ASSUME log # <<>>
             PROVE  LET e == Last(log) IN
                    /\ Blank(e) => /\ e.kind \in {"ActionEvent", "ObservationEvent"}
                                   /\ Summary(e) \in {"summary", "thought"} \cap e.blank
                    /\ Normalize(e, TRUE).sha => e.source = "user" /\ e.id \in Commits
                    /\ ~Normalize(e, FALSE).sha
                    /\ \A f \in {"id", "type", "source", "summary", "risk"} :
                         Normalize(e, TRUE)[f] = Normalize(e, FALSE)[f]
  BY DEF RowsAreLegible
<1> DEFINE e == Last(log)
<1>1. Len(log) \in 1 .. Len(log) /\ e = log[Len(log)] /\ e \in EventRecords
  BY DEF Last, ReportInv, ReportTypes
<1>2. e.kind # ""
  <2>1. EventOK(Len(log))
    BY <1>1 DEF ReportInv, LogOK
  <2> QED
    BY <1>1, <2>1 DEF EventOK
<1> HIDE DEF e
<1>3. Blank(e) => /\ e.kind \in {"ActionEvent", "ObservationEvent"}
                  /\ Summary(e) \in {"summary", "thought"} \cap e.blank
  BY <1>1, <1>2, Legible
<1>4. Normalize(e, TRUE).sha => e.source = "user" /\ e.id \in Commits
  BY DEF Normalize, Stamp
<1>5. ~Normalize(e, FALSE).sha
  BY DEF Normalize, Stamp
<1>6. ASSUME NEW f \in {"id", "type", "source", "summary", "risk"}
      PROVE  Normalize(e, TRUE)[f] = Normalize(e, FALSE)[f]
  BY DEF Normalize
<1> QED
  BY <1>3, <1>4, <1>5, <1>6 DEF e

\* The pair of a call is the one answer it has.
LEMMA PairIsTheAnswer ==
  ASSUME ReportInv, NEW a \in Of(log, "ActionEvent")
  PROVE  LET o == Pairing(log, log[a].id) IN
         /\ log[a].id = a
         /\ \A i \in Of(log, "ObservationEvent") : log[i].of = a <=> i = o
         /\ o # 0 => o \in Of(log, "ObservationEvent") /\ log[o].of = a
<1> DEFINE hits == {i \in Of(log, "ObservationEvent") : log[i].of = a}
<1>1. DOMAIN log = 1 .. Len(log) /\ Len(log) \in Nat
  BY DEF ReportInv, ReportTypes
<1>2. log[a].id = a
  BY <1>1 DEF ReportInv, LogOK, EventOK, Of
<1>3. ASSUME NEW i \in hits, NEW j \in hits, i < j PROVE FALSE
  <2>1. i \in 1 .. (j - 1) /\ j \in 1 .. Len(log)
    BY <1>1, <1>3 DEF Of
  <2>2. Answering(j)
    BY <2>1 DEF ReportInv, LogOK, EventOK, Of
  <2> QED
    BY <2>1, <2>2 DEF Answering
<1>4. hits \in SUBSET (1 .. Len(log))
  BY <1>1 DEF Of
<1>5. Pairing(log, log[a].id) = IF hits = {} THEN 0 ELSE Max(hits)
  BY <1>2 DEF Pairing
<1>6. CASE hits = {}
  <2>1. Pairing(log, log[a].id) = 0 /\ 0 \notin Of(log, "ObservationEvent")
    BY <1>1, <1>5, <1>6 DEF Of
  <2> QED
    BY <1>2, <1>6, <2>1
<1>7. CASE hits # {}
  <2>1. Max(hits) \in hits
    BY <1>1, <1>4, <1>7, EndsExist
  <2>2. ASSUME NEW i \in hits PROVE i = Max(hits)
    <3>1. i \in Int /\ Max(hits) \in Int
      BY <1>4, <2>1
    <3> QED
      BY <1>3, <2>1, <3>1
  <2> HIDE DEF hits
  <2>3. Pairing(log, log[a].id) = Max(hits)
    BY <1>5, <1>7
  <2>4. \A i \in Of(log, "ObservationEvent") : log[i].of = a <=> i \in hits
    BY DEF hits
  <2>5. Max(hits) \in Of(log, "ObservationEvent") /\ log[Max(hits)].of = a
    BY <2>1 DEF hits
  <2> QED
    BY <1>2, <2>1, <2>2, <2>3, <2>4, <2>5
<1> QED
  BY <1>6, <1>7

LEMMA PairsAreTheAnswers ==
  ReportInv =>
    \A x \in Of(log, "ActionEvent") : \A i \in Of(log, "ObservationEvent") :
      log[i].of = x <=> i = Pairing(log, log[x].id)
  BY PairIsTheAnswer

\* The row of a call that has no answer, that failed and that did not.
LEMMA RowOfACall ==
  ASSUME ReportInv, NEW a \in Of(log, "ActionEvent")
  PROVE  LET o == Pairing(log, log[a].id) IN
         /\ a \in DOMAIN BuildSpans(log) /\ BuildSpans(log)[a].id = a
         /\ BuildSpans(log)[a].kind # "llm"
         /\ BuildSpans(log)[a].status =
              IF o = 0 THEN "unset" ELSE ObservationStatus(log[o].result)
<1>1. log[a].kind = "ActionEvent" /\ log[a].id = a
  BY PairIsTheAnswer DEF Of
<1>2. a \in DOMAIN BuildSpans(log) /\ BuildSpans(log)[a] = SpanAt(log, a)
  BY DEF BuildSpans
<1> QED
  BY <1>1, <1>2 DEF SpanAt

\* The row of a message.
LEMMA RowOfAMessage ==
  ASSUME ReportInv, NEW m \in DOMAIN BuildSpans(log), m \notin Of(log, "ActionEvent")
  PROVE  /\ BuildSpans(log)[m].id = m /\ BuildSpans(log)[m].kind = "llm"
         /\ BuildSpans(log)[m].status = "ok"
<1>1. m \in Of(log, "MessageEvent") /\ BuildSpans(log)[m] = SpanAt(log, m)
  BY DEF BuildSpans
<1>2. m \in DOMAIN log /\ log[m].kind = "MessageEvent" /\ DOMAIN log = 1 .. Len(log)
  BY <1>1 DEF Of, ReportInv, ReportTypes
<1>3. log[m].id = m
  BY <1>2 DEF ReportInv, LogOK, EventOK
<1>4. SpanAt(log, m).id = log[m].id
  BY DEF SpanAt
<1>5. SpanAt(log, m).kind = "llm" /\ SpanAt(log, m).status = "ok"
  BY <1>2 DEF SpanAt
<1> QED
  BY <1>1, <1>3, <1>4, <1>5

\* A row is found by the id of its event.
LEMMA RowById ==
  ASSUME ReportInv, NEW i \in DOMAIN BuildSpans(log)
  PROVE  (CHOOSE s \in Range(BuildSpans(log)) : s.id = i) = BuildSpans(log)[i]
<1>1. \A j \in DOMAIN BuildSpans(log) : BuildSpans(log)[j].id = j
  BY RowOfACall, RowOfAMessage
<1>2. BuildSpans(log)[i] \in Range(BuildSpans(log))
  BY DEF Range
<1>3. \A s \in Range(BuildSpans(log)) : s.id = i => s = BuildSpans(log)[i]
  BY <1>1 DEF Range
<1> QED
  BY <1>1, <1>2, <1>3

\* What the pages say of the same calls is the same.
LEMMA TabsAgree ==
  ASSUME ReportInv
  PROVE  ReportsAgree
<1> DEFINE spans == BuildSpans(log)
           commands == BuildCommands(log)
           changed == PathsAt(log, BuildArtifacts(log))
           metrics == BuildRunMetrics(log)
           SpanFor(id) == CHOOSE s \in Range(spans) : s.id = id
<1>1. DOMAIN log = 1 .. Len(log) /\ Len(log) \in Nat
  BY DEF ReportInv, ReportTypes
<1>2. ASSUME NEW o \in Of(log, "ObservationEvent")
      PROVE  \E a \in Of(log, "ActionEvent") :
               /\ log[o].of = a /\ log[o].tool = log[a].tool /\ log[o].cmd = log[a].cmd
               /\ log[o].path = log[a].path
  <2>1. o \in 1 .. Len(log) /\ log[o].kind = "ObservationEvent"
    BY <1>1 DEF Of
  <2>2. Answering(o)
    BY <2>1 DEF ReportInv, LogOK, EventOK
  <2>3. log[o].of \in 1 .. Len(log)
    BY <1>1, <2>1, <2>2 DEF Answering
  <2> QED
    BY <1>1, <2>2, <2>3 DEF Answering, Of
<1>3. ASSUME NEW a \in Of(log, "ActionEvent")
      PROVE  SpanFor(a) = spans[a] /\ log[a].id = a
    BY RowOfACall, RowById, PairIsTheAnswer
<1>4. Touched(log) \subseteq changed
  <2> SUFFICES ASSUME NEW o \in Edits(log) PROVE log[o].path \in changed
    BY DEF Touched, PathsAt
  <2>1. o \in Of(log, "ObservationEvent") /\ log[o].tool = "file_editor" /\ log[o].cmd \in Mutations
    BY DEF Edits
  <2>2. PICK a \in Of(log, "ActionEvent") :
          /\ log[o].of = a /\ log[o].tool = log[a].tool /\ log[o].cmd = log[a].cmd
          /\ log[o].path = log[a].path
    BY <1>2, <2>1
  <2>3. a \in BuildArtifacts(log)
    BY <2>1, <2>2 DEF BuildArtifacts, CallsOf
  <2> QED
    BY <2>2, <2>3 DEF PathsAt
<1>5. ASSUME NEW p \in changed \ Touched(log)
      PROVE  \E a \in DOMAIN log :
               /\ log[a].path = p /\ log[a].kind = "ActionEvent"
               /\ SpanFor(log[a].id).status \in {"unset", "error"}
  <2>1. PICK a \in BuildArtifacts(log) : log[a].path = p
    BY DEF PathsAt
  <2>2. /\ a \in Of(log, "ActionEvent") /\ log[a].tool = "file_editor" /\ log[a].cmd \in Mutations
        /\ a \in DOMAIN log /\ log[a].kind = "ActionEvent"
    BY DEF BuildArtifacts, CallsOf, Of
  <2> DEFINE o == Pairing(log, log[a].id)
  <2>6. SpanFor(log[a].id) = spans[a]
    BY <1>3, <2>2
  <2>7. spans[a].status = IF o = 0 THEN "unset" ELSE ObservationStatus(log[o].result)
    BY <2>2, RowOfACall
  <2>3. SpanFor(log[a].id).status =
          IF o = 0 THEN "unset" ELSE ObservationStatus(log[o].result)
    BY <2>6, <2>7
  <2>4. CASE o = 0
    BY <2>1, <2>2, <2>3, <2>4
  <2>5. CASE o # 0
    <3>1. o \in Of(log, "ObservationEvent") /\ log[o].of = a
      BY <2>2, <2>5, PairIsTheAnswer
    <3>2. log[o].tool = log[a].tool /\ log[o].cmd = log[a].cmd /\ log[o].path = log[a].path
      BY <1>2, <3>1
    <3> HIDE DEF o
    <3>3. ASSUME ~log[o].result.flagged PROVE FALSE
      <4>1. o \in Edits(log)
        BY <2>2, <3>1, <3>2, <3>3 DEF Edits
      <4> QED
        BY <2>1, <3>2, <4>1 DEF Touched, PathsAt
    <3> QED
      BY <2>1, <2>2, <2>3, <2>5, <3>3 DEF ObservationStatus
  <2> QED
    BY <2>4, <2>5
<1>6. metrics.touched = changed
  BY DEF BuildRunMetrics
<1>7. metrics.calls = Cardinality({i \in DOMAIN spans : spans[i].kind # "llm"})
  <2>1. Of(log, "ActionEvent") = {i \in DOMAIN spans : spans[i].kind # "llm"}
    BY RowOfACall, RowOfAMessage
  <2> QED
    BY <2>1 DEF BuildRunMetrics
<1>8. ASSUME NEW c \in Range(commands)
      PROVE  LET o == Pairing(log, c.id)
                 status == SpanFor(c.id).status
             IN  /\ c.exit = "1" => status = "error" \/ log[o].result.exit = "text"
                 /\ status = "unset" => c.exit = "null"
  <2>1. PICK a \in CallsOf(log, "bash") : c = commands[a]
    BY DEF Range, BuildCommands
  <2> DEFINE o == Pairing(log, log[a].id)
  <2>2. /\ c.id = log[a].id
        /\ c.exit = IF o = 0 THEN "null" ELSE ExitCode(log[o].result)
    BY <2>1 DEF BuildCommands
  <2>3. a \in Of(log, "ActionEvent")
    BY DEF CallsOf
  <2>5. SpanFor(c.id) = spans[a]
    BY <1>3, <2>2, <2>3
  <2>6. spans[a].status = IF o = 0 THEN "unset" ELSE ObservationStatus(log[o].result)
    BY <2>3, RowOfACall
  <2>4. SpanFor(c.id).status = IF o = 0 THEN "unset" ELSE ObservationStatus(log[o].result)
    BY <2>5, <2>6
  <2>7. Pairing(log, c.id) = o
    BY <2>2
  <2> HIDE DEF o
  <2> QED
    BY <2>2, <2>4, <2>7 DEF ExitCode, ObservationStatus
<1>9. \A p \in changed : CompareStatus(log, log, p) = "modified"
  BY DEF CompareStatus
<1> DEFINE symptom == ProduceFields(log).symptom
           bad == Symptoms(log)
<1>10. symptom = IF bad = {} THEN 0 ELSE Max(bad)
  BY DEF ProduceFields, ProduceSymptom
<1>11. bad \in SUBSET (1 .. Len(log))
  BY <1>1 DEF Symptoms, Of
<1>12. ASSUME NEW o \in Of(log, "ObservationEvent")
       PROVE  SpanFor(log[o].of).status = ObservationStatus(log[o].result)
  <2>1. PICK a \in Of(log, "ActionEvent") : log[o].of = a
    BY <1>2
  <2>2. o = Pairing(log, log[a].id) /\ o # 0
    BY <1>1, <2>1, PairIsTheAnswer DEF Of
  <2>3. spans[a].status = ObservationStatus(log[o].result)
    BY <2>2, RowOfACall
  <2> QED
    BY <1>3, <2>1, <2>3
<1>13. symptom # 0 => \/ log[symptom].kind = "HookExecutionEvent"
                      \/ SpanFor(log[symptom].of).status = "error"
  <2> SUFFICES ASSUME symptom # 0, log[symptom].kind # "HookExecutionEvent"
               PROVE  SpanFor(log[symptom].of).status = "error"
    OBVIOUS
  <2>1. symptom \in bad
    <3> HIDE DEF bad, symptom
    <3> QED
      BY <1>1, <1>10, <1>11, EndsExist
  <2> HIDE DEF symptom, SpanFor
  <2>2. /\ symptom \in Of(log, "ObservationEvent")
        /\ LET r == log[symptom].result IN r.flagged \/ (r.terminal /\ r.exit = "1")
    BY <2>1 DEF Symptoms, Of
  <2>3. ObservationStatus(log[symptom].result) = "error"
    BY <2>2 DEF ObservationStatus
  <2> QED
    BY <1>12, <2>2, <2>3
<1>14. ASSUME NEW o \in Of(log, "ObservationEvent"), SpanFor(log[o].of).status = "error"
       PROVE  \/ o <= symptom
              \/ /\ ~log[o].result.flagged
                 /\ log[o].result.error \/ ~log[o].result.terminal
  <2>1. ObservationStatus(log[o].result) = "error"
    BY <1>12, <1>14
  <2>2. CASE o \in bad
    <3>1. o <= Max(bad) /\ bad # {}
      <4> HIDE DEF bad
      <4> QED
        BY <1>1, <1>11, <2>2, EndsExist
    <3> QED
      BY <1>10, <3>1
  <2>3. CASE o \notin bad
    <3>1. ~ (log[o].result.flagged \/ (log[o].result.terminal /\ log[o].result.exit = "1"))
      BY <2>3 DEF Symptoms
    <3> HIDE DEF symptom
    <3> QED
      BY <2>1, <3>1 DEF ObservationStatus
  <2> QED
    BY <2>2, <2>3
<1> HIDE DEF symptom, bad
<1> HIDE DEF spans, commands, changed, metrics
<1> QED
  BY <1>4, <1>5, <1>6, <1>7, <1>8, <1>9, <1>13, <1>14
     DEF ReportsAgree, spans, commands, changed, metrics, symptom

\* In every run of the reports: the pages that read the same log agree on it, and every row can
\* be read.
THEOREM ReportsAgreeAlways ==
  ReportSpec => [](ReportsAgree /\ RowsAreLegible)
<1>1. ReportInv => ReportsAgree /\ RowsAreLegible
  BY TabsAgree, RowsLegible
<1> QED
  BY <1>1, ReportInvHolds, PTL

\* As the log of a run grows, no row of a page vanishes, changes its id or changes the result
\* that it has: the call that got its answer gets no other.
THEOREM ReportsOnlyGrow ==
  ReportSpec => ReportsGrow
<1> DEFINE LogGrows ==
      /\ DOMAIN BuildSpans(log) = DOMAIN BuildSpans(log') \cap DOMAIN log
      /\ DOMAIN BuildCommands(log) = DOMAIN BuildCommands(log') \cap DOMAIN log
      /\ \A i \in DOMAIN BuildSpans(log) :
           LET was == BuildSpans(log)[i]
               new == BuildSpans(log')[i]
           IN  new.id = was.id /\ (was.status # "unset" => new = was)
      /\ \A i \in DOMAIN BuildCommands(log) :
           LET was == BuildCommands(log)[i]
               new == BuildCommands(log')[i]
           IN  new.id = was.id /\ (was.exit # "null" => new = was)
<1>1. ASSUME ReportInv, ReportInv', ReportNext PROVE LogGrows
  <2>1. PICK e : Fits(e) /\ Store(e)
    BY <1>1, EveryStepStores DEF ReportInv
  <2>2. PICK n : n = Len(log) + 1
    OBVIOUS
  <2>3. /\ DOMAIN log = 1 .. Len(log) /\ DOMAIN log' = 1 .. n /\ Len(log) \in Nat
        /\ \A i \in 1 .. Len(log) : log'[i] = log[i]
    BY <1>1, <2>1, <2>2, EventStored DEF Fits, ReportInv, ReportTypes
  <2>4. /\ DOMAIN log \subseteq DOMAIN log' /\ \A i \in DOMAIN log : log'[i] = log[i]
    BY <2>2, <2>3
  <2>5. \A k : Of(log, k) = Of(log', k) \cap DOMAIN log
    BY <2>4, Zenon DEF Of
  <2>6. ASSUME NEW a \in Of(log, "ActionEvent"), Pairing(log, log[a].id) # 0
        PROVE  /\ Pairing(log', log'[a].id) = Pairing(log, log[a].id)
               /\ log'[Pairing(log, log[a].id)] = log[Pairing(log, log[a].id)]
    <3> DEFINE o == Pairing(log, log[a].id)
    <3>1. o \in Of(log, "ObservationEvent") /\ log[o].of = a
      BY <1>1, <2>6, PairIsTheAnswer
    <3>2. o \in Of(log', "ObservationEvent") /\ log'[o].of = a /\ log'[o] = log[o]
      BY <2>4, <2>5, <3>1 DEF Of
    <3>3. a \in Of(log', "ActionEvent")
      BY <2>5
    <3>4. (\A x \in Of(log, "ActionEvent") : \A i \in Of(log, "ObservationEvent") :
             log[i].of = x <=> i = Pairing(log, log[x].id))'
      BY <1>1, PairsAreTheAnswers, PTL
    <3> HIDE DEF o
    <3>5. o = Pairing(log', log'[a].id)
      BY <3>2, <3>3, <3>4
    <3> QED
      BY <3>2, <3>5 DEF o
  <2>7. \A i \in DOMAIN log : log'[i].id = log[i].id /\ log'[i].kind = log[i].kind
    BY <2>4
  <2>8. /\ DOMAIN BuildSpans(log) = DOMAIN BuildSpans(log') \cap DOMAIN log
        /\ DOMAIN BuildCommands(log) = DOMAIN BuildCommands(log') \cap DOMAIN log
    BY <2>4, <2>5 DEF BuildSpans, BuildCommands, CallsOf
  <2>9. ASSUME NEW i \in DOMAIN BuildSpans(log)
        PROVE  LET was == BuildSpans(log)[i]
                   new == BuildSpans(log')[i]
               IN  new.id = was.id /\ (was.status # "unset" => new = was)
    <3>1. /\ BuildSpans(log)[i] = SpanAt(log, i) /\ BuildSpans(log')[i] = SpanAt(log', i)
          /\ i \in DOMAIN log
      BY <2>8 DEF BuildSpans
    <3>2. log'[i] = log[i]
      BY <2>4, <3>1
    <3>3. SpanAt(log', i).id = SpanAt(log, i).id
      BY <3>2 DEF SpanAt
    <3>4. CASE i \in Of(log, "ActionEvent")
      <4>1. ASSUME SpanAt(log, i).status # "unset" PROVE SpanAt(log', i) = SpanAt(log, i)
        <5>1. log[i].kind # "MessageEvent"
          BY <3>4 DEF Of
        <5>2. Pairing(log, log[i].id) # 0
          BY <4>1, <5>1 DEF SpanAt
        <5> QED
          BY <2>6, <3>2, <3>4, <5>2 DEF SpanAt
      <4> QED
        BY <3>1, <3>3, <4>1
    <3>5. CASE i \notin Of(log, "ActionEvent")
      <4>1. log[i].kind = "MessageEvent"
        BY <3>5 DEF BuildSpans, Of
      <4>2. SpanAt(log', i) = SpanAt(log, i)
        BY <3>2, <4>1 DEF SpanAt
      <4> QED
        BY <3>1, <4>2
    <3> QED
      BY <3>4, <3>5
  <2>10. ASSUME NEW i \in DOMAIN BuildCommands(log)
         PROVE  LET was == BuildCommands(log)[i]
                    new == BuildCommands(log')[i]
                IN  new.id = was.id /\ (was.exit # "null" => new = was)
    <3>1. i \in CallsOf(log, "bash") /\ i \in CallsOf(log', "bash") /\ i \in DOMAIN log
      BY <2>8 DEF BuildCommands
    <3>2. log'[i] = log[i] /\ i \in Of(log, "ActionEvent")
      BY <2>4, <3>1 DEF CallsOf
    <3>3. BuildCommands(log')[i].id = BuildCommands(log)[i].id
      BY <3>1, <3>2 DEF BuildCommands
    <3>4. ASSUME BuildCommands(log)[i].exit # "null"
          PROVE  BuildCommands(log')[i] = BuildCommands(log)[i]
      <4>1. Pairing(log, log[i].id) # 0
        BY <3>1, <3>4 DEF BuildCommands
      <4> QED
        BY <2>6, <3>1, <3>2, <4>1 DEF BuildCommands
    <3> QED
      BY <3>3, <3>4
  <2> QED
    BY <2>8, <2>9, <2>10
<1>2. ReportInv /\ ReportInv' /\ [ReportNext]_reportVars => [LogGrows]_reportVars
  BY <1>1
<1> HIDE DEF LogGrows
<1>3. ReportSpec => [][LogGrows]_reportVars
  BY <1>2, ReportInvHolds, PTL DEF ReportSpec
<1> QED
  BY <1>3 DEF LogGrows, ReportsGrow

-----------------------------------------------------------------------------
(***************************************************************************)
(* BenchPairs: what two readers count of the same tasks, and the p-value.  *)
(***************************************************************************)

\* Tasks of different kinds are different tasks.
PairsInv == /\ tally \in [TaskKinds -> 0 .. MaxPairs]

LEMMA TasksCount ==
  ASSUME NEW K, NEW L, K \cap L = {}, IsFiniteSet(K), IsFiniteSet(L)
  PROVE  TasksIn(K \cup L) = TasksIn(K) + TasksIn(L) /\ TasksIn(K) \in Nat
<1> DEFINE T(J) == {t \in J \X (1 .. MaxPairs) : t[2] <= tally[t[1]]}
<1>1. IsFiniteSet(1 .. MaxPairs)
  BY PairsAssumption, FS_Interval DEF PairsAssumption
<1>2. ASSUME NEW J, IsFiniteSet(J) PROVE IsFiniteSet(T(J)) /\ Cardinality(T(J)) \in Nat
  <2>1. IsFiniteSet(J \X (1 .. MaxPairs))
    BY <1>1, <1>2, FS_Product
  <2> QED
    BY <2>1, FS_Subset, FS_CardinalityType
<1>3. T(K \cup L) = T(K) \cup T(L)
  OBVIOUS
<1>4. T(K) \cap T(L) = {}
  OBVIOUS
<1>6. \A J : TasksIn(J) = Cardinality(T(J))
  BY DEF TasksIn
<1> HIDE DEF T
<1>5. Cardinality(T(K) \cup T(L)) = Cardinality(T(K)) + Cardinality(T(L))
  <2>1. IsFiniteSet(T(K)) /\ IsFiniteSet(T(L))
    BY <1>2
  <2>2. Cardinality(T(K) \cup T(L)) = Cardinality(T(K)) + Cardinality(T(L)) - Cardinality({})
    BY <1>4, <2>1, FS_Union
  <2>3. Cardinality({}) = 0 /\ Cardinality(T(K)) \in Nat /\ Cardinality(T(L)) \in Nat
    BY <1>2, FS_EmptySet
  <2> QED
    BY <2>2, <2>3
<1> QED
  BY <1>2, <1>3, <1>5, <1>6

LEMMA TasksOfAKind ==
  ASSUME NEW k \in TaskKinds, tally[k] \in 0 .. MaxPairs
  PROVE  TasksIn({k}) = tally[k]
<1> DEFINE T == {t \in {k} \X (1 .. MaxPairs) : t[2] <= tally[t[1]]}
           f == [i \in 1 .. tally[k] |-> <<k, i>>]
<1>1. T = {<<k, i>> : i \in 1 .. tally[k]}
  BY PairsAssumption DEF PairsAssumption
<1>2. f \in Bijection(1 .. tally[k], T)
  BY <1>1, Fun_IsBij, ZenonT(60)
<1>3. IsFiniteSet(1 .. tally[k]) /\ Cardinality(1 .. tally[k]) = tally[k]
  BY FS_Interval, SMTT(40)
<1> HIDE DEF f, T
<1>4. Cardinality(T) = tally[k]
  BY <1>2, <1>3, FS_Bijection DEF ExistsBijection
<1> QED
  BY <1>4 DEF TasksIn, T

LEMMA FiniteKinds == IsFiniteSet(TaskKinds)
<1>1. IsFiniteSet(Outcomes)
  <2>1. Outcomes = {"absent", "true"} \cup {"false"} \cup {"null"}
    BY DEF Outcomes
  <2>2. {"absent", "true"} = {"absent"} \cup {"true"}
    OBVIOUS
  <2> QED
    BY <2>1, <2>2, FS_Singleton, FS_Union
<1>2. IsFiniteSet(Outcomes \X Outcomes)
  BY <1>1, FS_Product
<1> QED
  BY <1>2, FS_Subset DEF TaskKinds

\* In every run of the paired tables: no cell of outcomes counts more tasks than the bound.
THEOREM PairsTypeCorrect ==
  PairSpec => []PairTypeOK
<1>1. PairInit => PairsInv
  BY PairsAssumption DEF PairInit, PairsInv, PairsAssumption
<1>2. PairsInv /\ [PairNext]_tally => PairsInv'
  <2> SUFFICES ASSUME PairsInv, PairNext PROVE PairsInv'
    BY DEF PairsInv
  <2>1. PICK k \in TaskKinds : PairAdded(k)
    BY DEF PairNext
  <2>2. NumTasks < MaxPairs /\ tally' = [tally EXCEPT ![k] = @ + 1]
    BY <2>1 DEF PairAdded
  <2>3. TasksIn({k}) = tally[k] /\ tally[k] \in 0 .. MaxPairs
    BY TasksOfAKind DEF PairsInv
  <2>4. IsFiniteSet({k}) /\ IsFiniteSet(TaskKinds \ {k}) /\ {k} \cup (TaskKinds \ {k}) = TaskKinds
        /\ {k} \cap (TaskKinds \ {k}) = {}
    BY FiniteKinds, FS_Singleton, FS_RemoveElement
  <2>5. NumTasks = TasksIn({k}) + TasksIn(TaskKinds \ {k})
    BY <2>4, TasksCount DEF NumTasks
  <2>6. TasksIn(TaskKinds \ {k}) \in Nat
    <3>1. (TaskKinds \ {k}) \cap {} = {} /\ IsFiniteSet({})
      BY FS_EmptySet
    <3> QED
      BY <2>4, <3>1, TasksCount
  <2>7. tally[k] + 1 \in 0 .. MaxPairs
    BY <2>2, <2>3, <2>5, <2>6, PairsAssumption DEF PairsAssumption
  <2> QED
    BY <2>2, <2>7 DEF PairsInv
<1>3. PairsInv => PairTypeOK
  BY DEF PairsInv, PairTypeOK
<1> QED
  BY <1>1, <1>2, <1>3, PTL DEF PairSpec

LEMMA BudgetAlwaysFits == BudgetFits
<1> SUFFICES ASSUME NEW prompt \in 0 .. (MaxModelLen + 1)
             PROVE  LET tokens == BudgetMaxTokens(prompt)
                    IN  /\ tokens > 0 => /\ prompt + tokens + SafetyMargin <= MaxModelLen
                                         /\ tokens <= MaxTokensCeiling
                        /\ tokens = 0 <=> prompt + MaxTokensFloor + SafetyMargin > MaxModelLen
  BY DEF BudgetFits
<1>1. /\ MaxModelLen \in Nat /\ MaxTokensCeiling \in Nat /\ MaxTokensFloor \in Nat
      /\ SafetyMargin \in Nat /\ 0 < MaxTokensFloor /\ MaxTokensFloor <= MaxTokensCeiling
      /\ prompt \in Nat
  BY BudgetAssumption DEF BudgetAssumption
<1> QED
  BY <1>1 DEF BudgetMaxTokens

LEMMA CellsAgree ==
  /\ Regressions = CellB + TasksIn({<<"true", "null">>})
  /\ Improvements = CellC + TasksIn({<<"null", "true">>})
  /\ DeltaSolved = Improvements - Regressions
  /\ TasksIn(Paired) = CellA + CellB + CellC + CellD
  /\ CellB \in Nat /\ CellC \in Nat
<1> DEFINE a == <<"true", "true">>
           b == <<"true", "false">>
           c == <<"false", "true">>
           d == <<"false", "false">>
           r == <<"true", "null">>
           i == <<"null", "true">>
<1>1. /\ {k \in Paired : Passed(k[1]) /\ Passed(k[2])} = {a}
      /\ {k \in Paired : Passed(k[1]) /\ ~Passed(k[2])} = {b}
      /\ {k \in Paired : ~Passed(k[1]) /\ Passed(k[2])} = {c}
      /\ {k \in Paired : ~Passed(k[1]) /\ ~Passed(k[2])} = {d}
  BY DEF Paired, Passed, HasOutcome, TaskKinds, Outcomes
<1>2. /\ {k \in InBoth : Passed(k[1]) /\ ~Passed(k[2])} = {b} \cup {r}
      /\ {k \in InBoth : ~Passed(k[1]) /\ Passed(k[2])} = {c} \cup {i}
  BY DEF InBoth, Passed, TaskKinds, Outcomes
<1>3. /\ {k \in InBoth : Passed(k[2])} = {a} \cup ({c} \cup {i})
      /\ {k \in InBoth : Passed(k[1])} = {a} \cup ({b} \cup {r})
  BY DEF InBoth, Passed, TaskKinds, Outcomes
<1>4. Paired = {a} \cup ({b} \cup ({c} \cup {d}))
  BY DEF Paired, HasOutcome, TaskKinds, Outcomes
<1>5. /\ a # b /\ a # c /\ a # d /\ b # c /\ b # d /\ c # d /\ b # r /\ c # i /\ a # r /\ a # i
  OBVIOUS
<1> HIDE DEF a, b, c, d, r, i
<1>6. \A x, y : IsFiniteSet({x}) /\ IsFiniteSet({x} \cup {y})
  BY FS_Singleton, FS_Union
<1>7. ASSUME NEW x, NEW y, x # y
      PROVE  TasksIn({x} \cup {y}) = TasksIn({x}) + TasksIn({y}) /\ TasksIn({x}) \in Nat
  <2>1. {x} \cap {y} = {} /\ IsFiniteSet({x}) /\ IsFiniteSet({y})
    BY <1>6, <1>7
  <2> QED
    BY <2>1, TasksCount
<1>8. ASSUME NEW x, NEW S, IsFiniteSet(S), x \notin S
      PROVE  TasksIn({x} \cup S) = TasksIn({x}) + TasksIn(S)
  <2>1. {x} \cap S = {} /\ IsFiniteSet({x})
    BY <1>6, <1>8
  <2> QED
    BY <1>8, <2>1, TasksCount
<1>9. TasksIn({a} \cup ({b} \cup ({c} \cup {d}))) = TasksIn({a}) + TasksIn({b} \cup ({c} \cup {d}))
  <2>1. IsFiniteSet({b} \cup ({c} \cup {d})) /\ {a} \cap ({b} \cup ({c} \cup {d})) = {}
    BY <1>5, <1>6, FS_Union
  <2> QED
    BY <1>6, <2>1, TasksCount
<1>10. /\ TasksIn({b} \cup {r}) = TasksIn({b}) + TasksIn({r})
       /\ TasksIn({c} \cup {i}) = TasksIn({c}) + TasksIn({i})
       /\ TasksIn({c} \cup {d}) = TasksIn({c}) + TasksIn({d})
       /\ TasksIn({a} \cup ({c} \cup {i})) = TasksIn({a}) + TasksIn({c} \cup {i})
       /\ TasksIn({a} \cup ({b} \cup {r})) = TasksIn({a}) + TasksIn({b} \cup {r})
       /\ TasksIn({b} \cup ({c} \cup {d})) = TasksIn({b}) + TasksIn({c} \cup {d})
  <2>1. b # r /\ c # i /\ c # d /\ a # c /\ a # i /\ a # b /\ a # r /\ b # c /\ b # d
    BY <1>5
  <2>2. TasksIn({b} \cup {r}) = TasksIn({b}) + TasksIn({r})
    BY <1>7, <2>1
  <2>3. TasksIn({c} \cup {i}) = TasksIn({c}) + TasksIn({i})
    BY <1>7, <2>1
  <2>4. TasksIn({c} \cup {d}) = TasksIn({c}) + TasksIn({d})
    BY <1>7, <2>1
  <2>5. TasksIn({a} \cup ({c} \cup {i})) = TasksIn({a}) + TasksIn({c} \cup {i})
    <3>1. IsFiniteSet({c} \cup {i}) /\ a \notin {c} \cup {i}
      BY <1>6, <2>1
    <3> QED
      BY <1>8, <3>1
  <2>6. TasksIn({a} \cup ({b} \cup {r})) = TasksIn({a}) + TasksIn({b} \cup {r})
    <3>1. IsFiniteSet({b} \cup {r}) /\ a \notin {b} \cup {r}
      BY <1>6, <2>1
    <3> QED
      BY <1>8, <3>1
  <2>7. TasksIn({b} \cup ({c} \cup {d})) = TasksIn({b}) + TasksIn({c} \cup {d})
    <3>1. IsFiniteSet({c} \cup {d}) /\ b \notin {c} \cup {d}
      BY <1>6, <2>1
    <3> QED
      BY <1>8, <3>1
  <2> QED
    BY <2>2, <2>3, <2>4, <2>5, <2>6, <2>7
<1>11. /\ TasksIn({a}) \in Nat /\ TasksIn({b}) \in Nat /\ TasksIn({c}) \in Nat
       /\ TasksIn({d}) \in Nat /\ TasksIn({r}) \in Nat /\ TasksIn({i}) \in Nat
  BY <1>5, <1>7
<1>12. CellA = TasksIn({a}) /\ CellB = TasksIn({b}) /\ CellC = TasksIn({c}) /\ CellD = TasksIn({d})
  BY <1>1 DEF CellA, CellB, CellC, CellD
<1>13. /\ Regressions = TasksIn({b} \cup {r}) /\ Improvements = TasksIn({c} \cup {i})
       /\ DeltaSolved = TasksIn({a} \cup ({c} \cup {i})) - TasksIn({a} \cup ({b} \cup {r}))
  BY <1>2, <1>3 DEF Regressions, Improvements, DeltaSolved
<1> DEFINE sum(x, y) == TasksIn({x} \cup {y})
           sum3(x, y, z) == TasksIn({x} \cup ({y} \cup {z}))
<1>14. DeltaSolved = Improvements - Regressions
  <2>1. /\ DeltaSolved = sum3(a, c, i) - sum3(a, b, r)
        /\ Improvements = sum(c, i) /\ Regressions = sum(b, r)
    BY <1>13
  <2>2. sum3(a, c, i) = TasksIn({a}) + sum(c, i) /\ sum3(a, b, r) = TasksIn({a}) + sum(b, r)
    BY <1>10
  <2>3. /\ sum(c, i) = TasksIn({c}) + TasksIn({i})
        /\ sum(b, r) = TasksIn({b}) + TasksIn({r})
    BY <1>10
  <2> HIDE DEF sum, sum3
  <2>4. sum(c, i) \in Int /\ sum(b, r) \in Int
    BY <1>11, <2>3
  <2> QED
    BY <1>11, <2>1, <2>2, <2>4
<1>15. TasksIn(Paired) = CellA + CellB + CellC + CellD
  <2>1. TasksIn(Paired) = TasksIn({a}) + sum3(b, c, d)
    BY <1>4, <1>9
  <2>2. sum3(b, c, d) = TasksIn({b}) + sum(c, d)
    BY <1>10
  <2>3. sum(c, d) = TasksIn({c}) + TasksIn({d})
    BY <1>10
  <2> HIDE DEF sum, sum3
  <2> QED
    BY <1>11, <1>12, <2>1, <2>2, <2>3
<1>16. /\ Regressions = CellB + TasksIn({r}) /\ Improvements = CellC + TasksIn({i})
  BY <1>10, <1>12, <1>13
<1> QED
  BY <1>11, <1>12, <1>14, <1>15, <1>16 DEF r, i

\* As many of n pairs can flip in a number of I as flip in its complement.
Ways(n, I) == {F \in SUBSET (1 .. n) : Cardinality(F) \in I}

LEMMA WaysFinite ==
  ASSUME NEW n \in Nat
  PROVE  /\ IsFiniteSet(SUBSET (1 .. n)) /\ Cardinality(SUBSET (1 .. n)) = 2 ^ n
         /\ \A F \in SUBSET (1 .. n) : IsFiniteSet(F) /\ Cardinality(F) \in 0 .. n
         /\ \A I : IsFiniteSet(Ways(n, I)) /\ Splits(n, I) = Cardinality(Ways(n, I))
         /\ \A I : Splits(n, I) \in Nat
<1>1. IsFiniteSet(1 .. n) /\ Cardinality(1 .. n) = n
  BY FS_Interval
<1>2. IsFiniteSet(SUBSET (1 .. n)) /\ Cardinality(SUBSET (1 .. n)) = 2 ^ n
  BY <1>1, FS_SUBSET
<1>3. ASSUME NEW F \in SUBSET (1 .. n) PROVE IsFiniteSet(F) /\ Cardinality(F) \in 0 .. n
  <2>1. IsFiniteSet(F) /\ Cardinality(F) <= n
    BY <1>1, FS_Subset
  <2>2. Cardinality(F) \in Nat
    BY <2>1, FS_CardinalityType
  <2> QED
    BY <2>1, <2>2
<1>4. ASSUME NEW I PROVE IsFiniteSet(Ways(n, I)) /\ Splits(n, I) = Cardinality(Ways(n, I))
  <2>1. Ways(n, I) \in SUBSET (SUBSET (1 .. n))
    BY DEF Ways
  <2> QED
    BY <1>2, <2>1, FS_Subset DEF Splits, Ways
<1> QED
  BY <1>2, <1>3, <1>4, FS_CardinalityType

LEMMA SplitsAdd ==
  ASSUME NEW n \in Nat, NEW I, NEW J, I \cap J = {}
  PROVE  Splits(n, I \cup J) = Splits(n, I) + Splits(n, J)
<1>1. Ways(n, I \cup J) = Ways(n, I) \cup Ways(n, J) /\ Ways(n, I) \cap Ways(n, J) = {}
  BY DEF Ways
<1>2. IsFiniteSet(Ways(n, I)) /\ IsFiniteSet(Ways(n, J))
  BY WaysFinite
<1>3. Cardinality(Ways(n, I) \cup Ways(n, J))
        = Cardinality(Ways(n, I)) + Cardinality(Ways(n, J)) - 0
  BY <1>1, <1>2, FS_Union, FS_EmptySet
<1>4. Cardinality(Ways(n, I)) \in Nat /\ Cardinality(Ways(n, J)) \in Nat
  BY <1>2, FS_CardinalityType
<1> QED
  <2>1. /\ Splits(n, I \cup J) = Cardinality(Ways(n, I \cup J))
        /\ Splits(n, I) = Cardinality(Ways(n, I)) /\ Splits(n, J) = Cardinality(Ways(n, J))
    BY WaysFinite
  <2>2. Splits(n, I \cup J) = Cardinality(Ways(n, I)) + Cardinality(Ways(n, J)) - 0
    BY <1>1, <1>3, <2>1
  <2> QED
    BY <1>4, <2>1, <2>2

LEMMA SplitsMirror ==
  ASSUME NEW n \in Nat, NEW I \in SUBSET (0 .. n), NEW J \in SUBSET (0 .. n),
         \A i \in 0 .. n : i \in I <=> n - i \in J
  PROVE  Splits(n, I) = Splits(n, J)
<1> DEFINE f == [F \in Ways(n, I) |-> (1 .. n) \ F]
<1>1. ASSUME NEW F \in SUBSET (1 .. n) PROVE Cardinality((1 .. n) \ F) = n - Cardinality(F)
  <2>1. IsFiniteSet(1 .. n) /\ Cardinality(1 .. n) = n
    BY FS_Interval
  <2>2. (1 .. n) \cap F = F
    OBVIOUS
  <2>3. Cardinality((1 .. n) \ F) = Cardinality(1 .. n) - Cardinality((1 .. n) \cap F)
    BY <2>1, FS_Difference
  <2> QED
    BY <2>1, <2>2, <2>3
<1>2. ASSUME NEW F \in SUBSET (1 .. n)
      PROVE  F \in Ways(n, I) <=> (1 .. n) \ F \in Ways(n, J)
  <2>1. Cardinality(F) \in 0 .. n
    BY WaysFinite
  <2> QED
    BY <1>1, <2>1 DEF Ways
<1>3. \A F \in SUBSET (1 .. n) : (1 .. n) \ ((1 .. n) \ F) = F /\ (1 .. n) \ F \in SUBSET (1 .. n)
  OBVIOUS
<1>4. Ways(n, I) \in SUBSET (SUBSET (1 .. n)) /\ Ways(n, J) \in SUBSET (SUBSET (1 .. n))
  BY DEF Ways
<1>5. f \in [Ways(n, I) -> Ways(n, J)]
  BY <1>2, <1>4
<1>6. ASSUME NEW F \in Ways(n, I), NEW G \in Ways(n, I), f[F] = f[G] PROVE F = G
  <2>1. F \in SUBSET (1 .. n) /\ G \in SUBSET (1 .. n)
    BY <1>4
  <2>2. f[F] = (1 .. n) \ F /\ f[G] = (1 .. n) \ G
    OBVIOUS
  <2>3. F = (1 .. n) \ ((1 .. n) \ F) /\ G = (1 .. n) \ ((1 .. n) \ G)
    BY <1>3, <2>1
  <2> QED
    BY <1>6, <2>2, <2>3
<1>7. ASSUME NEW G \in Ways(n, J) PROVE \E F \in Ways(n, I) : f[F] = G
  <2>1. (1 .. n) \ G \in Ways(n, I)
    BY <1>2, <1>3, <1>4
  <2> QED
    BY <1>3, <1>4, <2>1
<1> HIDE DEF f
<1>8. f \in Bijection(Ways(n, I), Ways(n, J))
  BY <1>5, <1>6, <1>7, Fun_IsBij
<1> QED
  <2>1. IsFiniteSet(Ways(n, I)) /\ ExistsBijection(Ways(n, I), Ways(n, J))
    BY <1>8, WaysFinite DEF ExistsBijection
  <2>2. Cardinality(Ways(n, I)) = Cardinality(Ways(n, J))
    BY <2>1, FS_Bijection, <1>8
  <2>3. Splits(n, I) = Cardinality(Ways(n, I)) /\ Splits(n, J) = Cardinality(Ways(n, J))
    BY WaysFinite
  <2> QED
    BY <2>2, <2>3

LEMMA MidPIsRight ==
  ASSUME NEW b \in Nat, NEW c \in Nat
  PROVE  /\ MidP(b, c) = MidP(c, b)
         /\ b # c => 2 * MidP(b, c) = MidPByDefinition(b, c)
<1> DEFINE n == b + c
           k == IF b < c THEN b ELSE c
           p == 2 * Splits(n, 0 .. (k - 1)) + Splits(n, {k})
<1>1. n \in Nat /\ k \in 0 .. n /\ n = c + b /\ k = (IF c < b THEN c ELSE b)
  OBVIOUS
<1>2. MidP(b, c) = (IF p < 2 ^ n THEN p ELSE 2 ^ n) /\ MidP(c, b) = (IF p < 2 ^ n THEN p ELSE 2 ^ n)
  <2>1. MidP(b, c) = (IF p < 2 ^ n THEN p ELSE 2 ^ n)
    BY DEF MidP
  <2> DEFINE m == IF c < b THEN c ELSE b
             q == 2 * Splits(c + b, 0 .. (m - 1)) + Splits(c + b, {m})
  <2>2. MidP(c, b) = (IF q < 2 ^ (c + b) THEN q ELSE 2 ^ (c + b))
    BY DEF MidP
  <2>3. m = k /\ c + b = n
    BY <1>1
  <2> HIDE DEF m, n, k
  <2>4. q = p
    BY <2>3
  <2> QED
    BY <2>1, <2>2, <2>3, <2>4
<1>3. ASSUME b # c PROVE 2 * MidP(b, c) = MidPByDefinition(b, c)
  <2> DEFINE low == 0 .. (k - 1)
             high == (n - k + 1) .. n
             L == Splits(n, low)
             E == Splits(n, {k})
  <2>1. 2 * k < n /\ Uneven(b, n) = n - 2 * k
    BY <1>3 DEF Uneven
  <2>2. {i \in 0 .. n : Uneven(i, n) > Uneven(b, n)} = low \cup high
    <3> HIDE DEF n, k
    <3>1. ASSUME NEW i \in 0 .. n PROVE Uneven(i, n) > n - 2 * k <=> i < k \/ i > n - k
      BY <1>1, <2>1 DEF Uneven
    <3> QED
      BY <1>1, <2>1, <3>1
  <2>3. {i \in 0 .. n : Uneven(i, n) = Uneven(b, n)} = {k} \cup {n - k}
    <3> HIDE DEF n, k
    <3>1. ASSUME NEW i \in 0 .. n PROVE Uneven(i, n) = n - 2 * k <=> i = k \/ i = n - k
      BY <1>1, <2>1 DEF Uneven
    <3>2. k \in 0 .. n /\ n - k \in 0 .. n
      BY <1>1
    <3> QED
      BY <2>1, <3>1, <3>2
  <2>4. MidPByDefinition(b, c) = 2 * Splits(n, low \cup high) + Splits(n, {k} \cup {n - k})
    BY <2>2, <2>3 DEF MidPByDefinition
  <2> HIDE DEF n, k
  <2>5. low \cap high = {} /\ {k} \cap {n - k} = {} /\ (low \cup high) \cap {k} = {}
    BY <1>1, <2>1
  <2>6. Splits(n, low) = Splits(n, high)
    <3>1. low \in SUBSET (0 .. n) /\ high \in SUBSET (0 .. n)
      BY <1>1
    <3>2. \A i \in 0 .. n : i \in low <=> n - i \in high
      BY <1>1
    <3> QED
      BY <1>1, <3>1, <3>2, SplitsMirror
  <2>7. Splits(n, {k}) = Splits(n, {n - k})
    <3>1. {k} \in SUBSET (0 .. n) /\ {n - k} \in SUBSET (0 .. n)
      BY <1>1
    <3>2. \A i \in 0 .. n : i \in {k} <=> n - i \in {n - k}
      BY <1>1
    <3> QED
      BY <1>1, <3>1, <3>2, SplitsMirror
  <2>8. /\ Splits(n, low \cup high) = L + L /\ Splits(n, {k} \cup {n - k}) = E + E
        /\ Splits(n, (low \cup high) \cup {k}) = L + L + E
    <3> n \in Nat
      BY <1>1
    <3>1. Splits(n, low \cup high) = Splits(n, low) + Splits(n, high)
      BY <2>5, SplitsAdd, ZenonT(60)
    <3>2. Splits(n, {k} \cup {n - k}) = Splits(n, {k}) + Splits(n, {n - k})
      BY <2>5, SplitsAdd, ZenonT(60)
    <3>3. Splits(n, (low \cup high) \cup {k}) = Splits(n, low \cup high) + Splits(n, {k})
      BY <2>5, SplitsAdd
    <3> QED
      BY <2>6, <2>7, <3>1, <3>2, <3>3
  <2>9. L \in Nat /\ E \in Nat /\ 2 ^ n \in Nat /\ L + L + E <= 2 ^ n
    <3>1. Ways(n, (low \cup high) \cup {k}) \in SUBSET (SUBSET (1 .. n))
      BY DEF Ways
    <3>2. /\ Splits(n, (low \cup high) \cup {k}) = Cardinality(Ways(n, (low \cup high) \cup {k}))
          /\ IsFiniteSet(SUBSET (1 .. n)) /\ Cardinality(SUBSET (1 .. n)) = 2 ^ n
          /\ L \in Nat /\ E \in Nat
      BY <1>1, WaysFinite, ZenonT(60)
    <3>3. Splits(n, (low \cup high) \cup {k}) <= 2 ^ n
      <4> DEFINE W == Ways(n, (low \cup high) \cup {k})
                 A == SUBSET (1 .. n)
      <4>1. W \subseteq A /\ IsFiniteSet(A)
        BY <3>1, <3>2
      <4> HIDE DEF W, A
      <4>2. Cardinality(W) <= Cardinality(A)
        BY <4>1, FS_Subset
      <4> QED
        BY <3>2, <4>2 DEF W, A
    <3>4. Cardinality(SUBSET (1 .. n)) \in Nat
      BY <3>2, FS_CardinalityType
    <3>5. L + L + E <= 2 ^ n
      BY <2>8, <3>3
    <3> QED
      BY <3>2, <3>4, <3>5
  <2>10. MidP(b, c) = L + L + E
    <3>1. p = L + L + E
      BY <2>9
    <3> HIDE DEF p, L, E
    <3> QED
      BY <1>2, <2>9, <3>1
  <2> HIDE DEF L, E, low, high
  <2> QED
    BY <2>4, <2>8, <2>9, <2>10
<1> QED
  BY <1>2, <1>3

\* One pair more: a set of ways that it does not flip the first way, and one that it does.
LEMMA SplitsOfOneMore ==
  ASSUME NEW n \in Nat, NEW I \in SUBSET Nat, NEW J,
         \A i \in Nat : i + 1 \in I => i \in J
  PROVE  Splits(n + 1, I) <= Splits(n, I) + Splits(n, J)
<1> DEFINE m == n + 1
           W == {F \in Ways(m, I) : m \in F}
           V == {F \in Ways(m, I) : m \notin F}
           f == [F \in W |-> F \ {m}]
<1>1. m \in Nat /\ 1 .. m = (1 .. n) \cup {m} /\ m \notin 1 .. n
  OBVIOUS
<1>2. Ways(m, I) = W \cup V /\ W \cap V = {}
  OBVIOUS
<1>3. /\ IsFiniteSet(Ways(m, I)) /\ Splits(m, I) = Cardinality(Ways(m, I))
      /\ IsFiniteSet(Ways(n, I)) /\ Splits(n, I) = Cardinality(Ways(n, I))
      /\ IsFiniteSet(Ways(n, J)) /\ Splits(n, J) = Cardinality(Ways(n, J))
  BY <1>1, WaysFinite
<1>4. \A F \in Ways(m, I) : /\ F \in SUBSET (1 .. m) /\ Cardinality(F) \in I
                            /\ IsFiniteSet(F) /\ Cardinality(F) \in Nat
  BY <1>1, WaysFinite DEF Ways
<1>5. V \subseteq Ways(n, I)
  BY <1>1, <1>4 DEF Ways
<1>6. ASSUME NEW F \in W PROVE F \ {m} \in Ways(n, J)
  <2>1. Cardinality(F \ {m}) = Cardinality(F) - 1 /\ IsFiniteSet(F \ {m})
    BY <1>4, FS_RemoveElement
  <2>2. Cardinality(F \ {m}) \in Nat /\ Cardinality(F) = Cardinality(F \ {m}) + 1
    BY <1>4, <2>1, FS_CardinalityType
  <2>3. Cardinality(F \ {m}) \in J
    BY <1>4, <2>2
  <2>4. F \ {m} \in SUBSET (1 .. n)
    BY <1>1, <1>4
  <2> QED
    BY <2>3, <2>4 DEF Ways
<1>7. \A F \in W, G \in W : F \ {m} = G \ {m} => F = G
  <2> SUFFICES ASSUME NEW F \in W, NEW G \in W, F \ {m} = G \ {m} PROVE F = G
    OBVIOUS
  <2> HIDE DEF m
  <2>1. F = (F \ {m}) \cup {m} /\ G = (G \ {m}) \cup {m}
    OBVIOUS
  <2> QED
    BY <2>1
<1> HIDE DEF m, W, V
<1>8. f \in Injection(W, Ways(n, J))
  BY <1>6, <1>7 DEF Injection, IsInjective
<1>9. Cardinality(W) <= Cardinality(Ways(n, J)) /\ Cardinality(V) <= Cardinality(Ways(n, I))
  <2>1. IsFiniteSet(W) /\ Cardinality(W) <= Cardinality(Ways(n, J))
    BY <1>3, <1>8, FS_Injection
  <2> QED
    BY <1>3, <1>5, <2>1, FS_Subset
<1>10. Cardinality(W \cup V) = Cardinality(W) + Cardinality(V) /\ Cardinality(W) \in Nat
       /\ Cardinality(V) \in Nat
  <2>1. IsFiniteSet(W) /\ IsFiniteSet(V)
    BY <1>2, <1>3, FS_Subset
  <2>2. Cardinality(W \cup V) = Cardinality(W) + Cardinality(V) - Cardinality(W \cap V)
    BY <2>1, FS_Union
  <2>3. Cardinality(W \cap V) = 0
    BY <1>2, FS_EmptySet
  <2> QED
    BY <2>1, <2>2, <2>3, FS_CardinalityType
<1>11. Cardinality(Ways(n, I)) \in Nat /\ Cardinality(Ways(n, J)) \in Nat
  BY <1>3, FS_CardinalityType
<1>12. Splits(m, I) <= Splits(n, I) + Splits(n, J)
  BY <1>2, <1>3, <1>9, <1>10, <1>11
<1> QED
  BY <1>12 DEF m

LEMMA MidPOfAFlip ==
  ASSUME NEW b \in Nat, NEW c \in Nat, b >= c
  PROVE  MidP(b + 1, c) <= 2 * MidP(b, c)
<1> DEFINE n == b + c
           L == Splits(n, 0 .. (c - 1))
           M == Splits(n, 0 .. (c - 2))
           E == Splits(n, {c})
           D == Splits(n, {c - 1})
           L2 == Splits(n + 1, 0 .. (c - 1))
           E2 == Splits(n + 1, {c})
           p == 2 * L + E
           q == 2 * L2 + E2
<1>1. n \in Nat /\ n + 1 \in Nat /\ (b + 1) + c = n + 1 /\ ~(b < c) /\ ~(b + 1 < c \/ b < c)
  OBVIOUS
<1>2. MidP(b, c) = (IF p < 2 ^ n THEN p ELSE 2 ^ n)
  <2> DEFINE k == IF b < c THEN b ELSE c
  <2>1. k = c
    BY <1>1
  <2>2. MidP(b, c) = LET r == 2 * Splits(n, 0 .. (k - 1)) + Splits(n, {k})
                     IN  IF r < 2 ^ n THEN r ELSE 2 ^ n
    BY DEF MidP
  <2> HIDE DEF k, n
  <2> QED
    BY <2>1, <2>2
<1>3. MidP(b + 1, c) = (IF q < 2 ^ (n + 1) THEN q ELSE 2 ^ (n + 1))
  <2> DEFINE k == IF b + 1 < c THEN b + 1 ELSE c
             h == (b + 1) + c
  <2>1. k = c /\ h = n + 1
    BY <1>1
  <2>2. MidP(b + 1, c) = LET r == 2 * Splits(h, 0 .. (k - 1)) + Splits(h, {k})
                         IN  IF r < 2 ^ h THEN r ELSE 2 ^ h
    BY DEF MidP
  <2> HIDE DEF k, h, n
  <2> QED
    BY <2>1, <2>2
<1> HIDE DEF n
<1>4. L \in Nat /\ M \in Nat /\ E \in Nat /\ D \in Nat /\ L2 \in Nat /\ E2 \in Nat
  BY <1>1, WaysFinite
<1>5. L2 <= L + M
  <2> DEFINE I == 0 .. (c - 1)
             J == 0 .. (c - 2)
  <2>1. I \in SUBSET Nat /\ \A i \in Nat : i + 1 \in I => i \in J
    OBVIOUS
  <2> HIDE DEF I, J
  <2>2. Splits(n + 1, I) <= Splits(n, I) + Splits(n, J)
    BY <1>1, <2>1, SplitsOfOneMore
  <2> QED
    BY <2>2 DEF I, J
<1>6. E2 <= E + D
  <2> DEFINE I == {c}
             J == {c - 1}
  <2>1. I \in SUBSET Nat /\ \A i \in Nat : i + 1 \in I => i \in J
    OBVIOUS
  <2> HIDE DEF I, J
  <2>2. Splits(n + 1, I) <= Splits(n, I) + Splits(n, J)
    BY <1>1, <2>1, SplitsOfOneMore
  <2> QED
    BY <2>2 DEF I, J
<1>7. L = M + D
  <2>1. CASE c = 0
    <3>1. ASSUME NEW I, I \cap Nat = {} PROVE Splits(n, I) = 0
      <4>1. \A F \in SUBSET (1 .. n) : Cardinality(F) \in Nat
        <5>1. \A F \in SUBSET (1 .. n) : Cardinality(F) \in 0 .. n
          BY <1>1, WaysFinite
        <5> QED
          BY <5>1
      <4>2. Ways(n, I) = {}
        BY <3>1, <4>1 DEF Ways
      <4> QED
        BY <1>1, <4>2, WaysFinite, FS_EmptySet, ZenonT(60)
    <3>2. 0 .. (c - 1) = {} /\ 0 .. (c - 2) = {} /\ {c - 1} \cap Nat = {}
      BY <2>1
    <3>3. L = 0 /\ M = 0 /\ D = 0
      BY <3>1, <3>2
    <3> QED
      BY <3>3
  <2>2. CASE c # 0
    <3> DEFINE I == 0 .. (c - 2)
               J == {c - 1}
    <3>1. 0 .. (c - 1) = I \cup J /\ I \cap J = {}
      BY <2>2
    <3> HIDE DEF I, J
    <3>2. Splits(n, I \cup J) = Splits(n, I) + Splits(n, J)
      BY <1>1, <3>1, SplitsAdd
    <3> QED
      BY <3>1, <3>2 DEF I, J
  <2> QED
    BY <2>1, <2>2
<1>8. 2 ^ n \in Nat /\ 2 ^ (n + 1) \in Nat /\ 2 ^ (n + 1) <= 2 * 2 ^ n
  <2>1. ASSUME NEW m \in Nat PROVE Splits(m, Nat) = 2 ^ m /\ 2 ^ m \in Nat
    <3>1. Ways(m, Nat) = SUBSET (1 .. m)
      <4>1. \A F \in SUBSET (1 .. m) : Cardinality(F) \in Nat
        <5>1. \A F \in SUBSET (1 .. m) : Cardinality(F) \in 0 .. m
          BY WaysFinite
        <5> QED
          BY <5>1
      <4> QED
        BY <4>1 DEF Ways
    <3>2. /\ Splits(m, Nat) = Cardinality(Ways(m, Nat)) /\ Splits(m, Nat) \in Nat
          /\ Cardinality(SUBSET (1 .. m)) = 2 ^ m
      BY WaysFinite
    <3> QED
      BY <3>1, <3>2
  <2>2. Splits(n + 1, Nat) <= Splits(n, Nat) + Splits(n, Nat)
    <3>1. \A i \in Nat : i + 1 \in Nat => i \in Nat
      OBVIOUS
    <3> QED
      BY <1>1, <3>1, SplitsOfOneMore
  <2> QED
    BY <1>1, <2>1, <2>2
<1> HIDE DEF L, M, E, D, L2, E2
<1>9. q <= 2 * p
  BY <1>4, <1>5, <1>6, <1>7
<1> QED
  BY <1>2, <1>3, <1>4, <1>8, <1>9

\* In every run: the two reports of the same directories agree, the p-value is what its
\* definition says, and the budget of a prompt fits.
THEOREM BenchNumbersAreRight ==
  PairSpec => []BenchNumbersHold
<1>1. BenchNumbersHold
  BY CellsAgree, MidPIsRight, BudgetAlwaysFits DEF BenchNumbersHold, ReportsOfPairsAgree
<1> QED
  BY <1>1, PTL

\* In every run of the paired tables: a further flip the way most go never weakens a result.
THEOREM FlipsTellMore == PairSpec => AFlipTellsMore
<1>1. CellB \in Nat /\ CellC \in Nat
  BY CellsAgree
<1>2. CellB >= CellC /\ CellB' = CellB + 1 /\ CellC' = CellC
        => MidP(CellB', CellC') <= 2 * MidP(CellB, CellC)
  BY <1>1, MidPOfAFlip
<1> QED
  BY <1>2, PTL DEF AFlipTellsMore

-----------------------------------------------------------------------------
(***************************************************************************)
(* DashboardMetrics: the tables of one fetch.  A sum is proved equal to    *)
(* another by matching what they count, one to one.                        *)
(***************************************************************************)

(* A sum is the size of what it counts.                                    *)
Units(f) == UNION {{x} \X (1 .. f[x]) : x \in DOMAIN f}

LEMMA UnitsFinite ==
  ASSUME NEW f, IsFiniteSet(DOMAIN f), \A x \in DOMAIN f : f[x] \in Nat
  PROVE  IsFiniteSet(Units(f)) /\ SumOf(f) = Cardinality(Units(f)) /\ SumOf(f) \in Nat
<1> DEFINE D == DOMAIN f
           g == [x \in D |-> {x} \X (1 .. f[x])]
           R == {{x} \X (1 .. f[x]) : x \in D}
<1>1. \A x \in D : IsFiniteSet({x} \X (1 .. f[x]))
  <2> SUFFICES ASSUME NEW x \in D PROVE IsFiniteSet({x} \X (1 .. f[x]))
    OBVIOUS
  <2>1. IsFiniteSet({x}) /\ IsFiniteSet(1 .. f[x])
    <3>1. f[x] \in Int /\ 1 \in Int
      OBVIOUS
    <3> QED
      BY <3>1, FS_Singleton, FS_Interval
  <2> QED
    BY <2>1, FS_Product
<1>2. g \in [D -> R] /\ \A r \in R : \E x \in D : g[x] = r
  OBVIOUS
<1> HIDE DEF g
<1>3. g \in Surjection(D, R)
  BY <1>2 DEF Surjection
<1> HIDE DEF R
<1>4. IsFiniteSet(R)
  BY <1>3, FS_Surjection
<1>5. \A T \in R : IsFiniteSet(T)
  BY <1>1 DEF R
<1>6. IsFiniteSet(UNION R)
  BY <1>4, <1>5, FS_UNION
<1>7. Units(f) = UNION R /\ SumOf(f) = Cardinality(UNION R)
  BY DEF R, Units, SumOf
<1> QED
  BY <1>6, <1>7, FS_CardinalityType

(* The sizes of parts that share nothing add up to the size of the whole.  *)
LEMMA PartsAddUp ==
  ASSUME NEW K, NEW P, NEW W, IsFiniteSet(W),
         W = UNION {P[k] : k \in K},
         \A k, l \in K : \A x \in P[k] : x \in P[l] => k = l
  PROVE  SumOf([k \in K |-> Cardinality(P[k])]) = Cardinality(W)
<1> DEFINE f == [k \in K |-> Cardinality(P[k])]
           U == Units(f)
           B(k) == Bijection(1 .. Cardinality(P[k]), P[k])
           b == [k \in K |-> CHOOSE m : m \in B(k)]
           h == [u \in U |-> b[u[1]][u[2]]]
<1>1. \A k \in K : b[k] \in B(k) /\ Cardinality(P[k]) \in Nat
  <2> SUFFICES ASSUME NEW k \in K PROVE b[k] \in B(k) /\ Cardinality(P[k]) \in Nat
    OBVIOUS
  <2>1. P[k] \in SUBSET W
    OBVIOUS
  <2>2. IsFiniteSet(P[k])
    BY <2>1, FS_Subset
  <2>3. \E m : m \in B(k)
    BY <2>2, FS_CardinalityType DEF ExistsBijection
  <2> QED
    BY <2>2, <2>3, FS_CardinalityType
<1>2. U = UNION {{k} \X (1 .. Cardinality(P[k])) : k \in K}
  BY DEF Units
<1>3. \A u : u \in U <=> \E k \in K : \E i \in 1 .. Cardinality(P[k]) : u = <<k, i>>
  BY <1>2
<1> HIDE DEF b, U
<1>4. \A k \in K : /\ b[k] \in [1 .. Cardinality(P[k]) -> P[k]]
                   /\ \A i, j \in 1 .. Cardinality(P[k]) : b[k][i] = b[k][j] => i = j
                   /\ \A x \in P[k] : \E i \in 1 .. Cardinality(P[k]) : b[k][i] = x
  <2> SUFFICES ASSUME NEW k \in K
               PROVE  /\ b[k] \in [1 .. Cardinality(P[k]) -> P[k]]
                      /\ \A i, j \in 1 .. Cardinality(P[k]) : b[k][i] = b[k][j] => i = j
                      /\ \A x \in P[k] : \E i \in 1 .. Cardinality(P[k]) : b[k][i] = x
    OBVIOUS
  <2> DEFINE m == b[k]
             J == 1 .. Cardinality(P[k])
             R == P[k]
  <2>1. m \in Bijection(J, R)
    BY <1>1
  <2> HIDE DEF m, J, R
  <2>2. m \in [J -> R] /\ (\A i, j \in J : m[i] = m[j] => i = j)
        /\ \A x \in R : \E i \in J : m[i] = x
    BY <2>1 DEF Bijection, Injection, Surjection, IsInjective
  <2> QED
    BY <2>2 DEF m, J, R
<1>5. \A k \in K : \A i \in 1 .. Cardinality(P[k]) : <<k, i>> \in U /\ h[<<k, i>>] = b[k][i]
  BY <1>3
<1> HIDE DEF h
<1>6. h \in [U -> W]
  <2>1. \A u \in U : h[u] \in W
    <3> SUFFICES ASSUME NEW u \in U PROVE h[u] \in W
      OBVIOUS
    <3>1. PICK k \in K : \E i \in 1 .. Cardinality(P[k]) : u = <<k, i>>
      BY <1>3
    <3>2. PICK i \in 1 .. Cardinality(P[k]) : u = <<k, i>>
      BY <3>1
    <3>3. h[u] = b[k][i] /\ b[k][i] \in P[k]
      BY <1>4, <1>5, <3>2
    <3> QED
      BY <3>3
  <2>2. h = [u \in U |-> h[u]]
    BY DEF h
  <2> QED
    BY <2>1, <2>2
<1>7. \A u, v \in U : h[u] = h[v] => u = v
  <2> SUFFICES ASSUME NEW u \in U, NEW v \in U, h[u] = h[v] PROVE u = v
    OBVIOUS
  <2>1. PICK k \in K : \E i \in 1 .. Cardinality(P[k]) : u = <<k, i>>
    BY <1>3
  <2>2. PICK i \in 1 .. Cardinality(P[k]) : u = <<k, i>>
    BY <2>1
  <2>3. PICK l \in K : \E j \in 1 .. Cardinality(P[l]) : v = <<l, j>>
    BY <1>3
  <2>4. PICK j \in 1 .. Cardinality(P[l]) : v = <<l, j>>
    BY <2>3
  <2>5. b[k][i] = b[l][j] /\ b[k][i] \in P[k] /\ b[l][j] \in P[l]
    <3>1. h[u] = b[k][i] /\ h[v] = b[l][j]
      BY <1>5, <2>2, <2>4, Zenon
    <3>2. b[k] \in [1 .. Cardinality(P[k]) -> P[k]] /\ b[l] \in [1 .. Cardinality(P[l]) -> P[l]]
      BY <1>4, Zenon
    <3> QED
      BY <3>1, <3>2
  <2>6. k = l
    BY <2>5
  <2> QED
    BY <1>4, <2>2, <2>4, <2>5, <2>6
<1>8. \A x \in W : \E u \in U : h[u] = x
  <2> SUFFICES ASSUME NEW x \in W PROVE \E u \in U : h[u] = x
    OBVIOUS
  <2>1. PICK k \in K : x \in P[k]
    OBVIOUS
  <2>2. PICK i \in 1 .. Cardinality(P[k]) : b[k][i] = x
    BY <1>4, <2>1
  <2> QED
    BY <1>5, <2>2
<1>9. h \in Bijection(U, W)
  BY <1>6, <1>7, <1>8, Fun_IsBij
<1>10. ExistsBijection(W, U)
  <2>1. ExistsBijection(U, W)
    BY <1>9 DEF ExistsBijection
  <2> QED
    BY <2>1, Fun_ExistsBijSymmetric
<1>11. Cardinality(U) = Cardinality(W)
  BY <1>10, FS_Bijection
<1> QED
  BY <1>11 DEF SumOf, Units, U

(* The runs and the costs of a table by a field are those of its rows.     *)
LEMMA BreakdownAddsUp ==
  ASSUME NEW rows, NEW field, IsFiniteSet(DOMAIN field),
         \A i \in DOMAIN field : rows[i].cost \in Nat
  PROVE  /\ RunsIn(Breakdown(rows, field)) = Cardinality(DOMAIN field)
         /\ CostIn(Breakdown(rows, field)) = CostOf(rows, DOMAIN field)
<1> DEFINE D == DOMAIN field
           K == {field[i] : i \in D}
           P == [k \in K |-> {i \in D : field[i] = k}]
           cost(I) == [i \in I |-> rows[i].cost]
           Q == [k \in K |-> Units(cost(P[k]))]
           table == Breakdown(rows, field)
<1>1. /\ DOMAIN table = K
      /\ \A k \in K : table[k].runs = Cardinality(P[k]) /\ table[k].cost = Cardinality(Q[k])
  <2>1. table = [k \in K |-> [runs |-> Cardinality(P[k]), cost |-> CostOf(rows, P[k])]]
    BY DEF Breakdown
  <2>2. \A I : CostOf(rows, I) = Cardinality(Units(cost(I)))
    BY DEF CostOf, SumOf, Units
  <2> HIDE DEF table, P
  <2> QED
    BY <2>1, <2>2
<1>2. RunsIn(table) = Cardinality(D)
  <2>1. D = UNION {P[k] : k \in K} /\ \A k, l \in K : \A x \in P[k] : x \in P[l] => k = l
    <3>1. \A x : x \in D => field[x] \in K /\ x \in P[field[x]]
      OBVIOUS
    <3>2. \A k \in K : \A x \in P[k] : x \in D /\ field[x] = k
      OBVIOUS
    <3> HIDE DEF P, K
    <3> QED
      BY <3>1, <3>2
  <2>2. RunsIn(table) = SumOf([k \in K |-> Cardinality(P[k])])
    <3> HIDE DEF table, P
    <3> QED
      BY <1>1 DEF RunsIn
  <2> HIDE DEF P, K
  <2> QED
    BY <2>1, <2>2, PartsAddUp
<1>3. CostIn(table) = Cardinality(Units(cost(D)))
  <2>1. \A I, u : u \in Units(cost(I)) <=> \E i \in I : \E n \in 1 .. rows[i].cost : u = <<i, n>>
    <3> SUFFICES ASSUME NEW I, NEW u
                 PROVE  u \in Units(cost(I))
                          <=> \E i \in I : \E n \in 1 .. rows[i].cost : u = <<i, n>>
      OBVIOUS
    <3>1. DOMAIN cost(I) = I /\ \A i \in I : cost(I)[i] = rows[i].cost
      OBVIOUS
    <3>2. u \in Units(cost(I)) <=> \E i \in I : u \in {i} \X (1 .. cost(I)[i])
      BY <3>1 DEF Units
    <3> HIDE DEF cost
    <3>3. \A i \in I : u \in {i} \X (1 .. rows[i].cost)
                      <=> \E n \in 1 .. rows[i].cost : u = <<i, n>>
      OBVIOUS
    <3> QED
      BY <3>1, <3>2, <3>3
  <2>2. Units(cost(D)) = UNION {Q[k] : k \in K}
    <3> HIDE DEF cost
    <3>1. \A u : u \in Units(cost(D)) <=> \E k \in K : u \in Units(cost(P[k]))
      <4>1. \A i \in D : field[i] \in K /\ i \in P[field[i]]
        OBVIOUS
      <4>2. \A k \in K : \A i \in P[k] : i \in D
        OBVIOUS
      <4> SUFFICES ASSUME NEW u
                   PROVE  u \in Units(cost(D)) <=> \E k \in K : u \in Units(cost(P[k]))
        OBVIOUS
      <4> DEFINE UnitOf(i) == \E n \in 1 .. rows[i].cost : u = <<i, n>>
      <4>3. \A I : u \in Units(cost(I)) <=> \E i \in I : UnitOf(i)
        BY <2>1
      <4> HIDE DEF P, K, UnitOf
      <4> QED
        BY <4>1, <4>2, <4>3
    <3>2. \A k \in K : Q[k] = Units(cost(P[k]))
      OBVIOUS
    <3> DEFINE all == Units(cost(D))
    <3> HIDE DEF Q, K, P
    <3>3. \A u : u \in all <=> \E k \in K : u \in Q[k]
      BY <3>1, <3>2, Zenon
    <3> HIDE DEF all
    <3>4. all = UNION {Q[k] : k \in K}
      BY <3>3
    <3> QED
      BY <3>4 DEF all
  <2>3. \A k, l \in K : \A x \in Q[k] : x \in Q[l] => k = l
    <3> HIDE DEF cost
    <3> QED
      BY <2>1
  <2>4. IsFiniteSet(Units(cost(D)))
    <3>1. DOMAIN cost(D) = D /\ \A i \in D : cost(D)[i] \in Nat
      OBVIOUS
    <3> HIDE DEF cost
    <3> QED
      BY <3>1, UnitsFinite
  <2>5. CostIn(table) = SumOf([k \in K |-> Cardinality(Q[k])])
    <3> HIDE DEF table, Q
    <3> QED
      BY <1>1 DEF CostIn
  <2> HIDE DEF Q, K, cost
  <2> QED
    BY <2>2, <2>3, <2>4, <2>5, PartsAddUp
<1> QED
  BY <1>2, <1>3 DEF CostOf, SumOf, Units

(* What shares nothing adds up.                                             *)
LEMMA TwoPartsAddUp ==
  ASSUME NEW S, NEW T, IsFiniteSet(S), IsFiniteSet(T), S \cap T = {}
  PROVE  Cardinality(S \cup T) = Cardinality(S) + Cardinality(T)
<1>1. Cardinality(S \cup T) = Cardinality(S) + Cardinality(T) - Cardinality(S \cap T)
  BY FS_Union
<1>2. Cardinality(S \cap T) = 0 /\ Cardinality(S) \in Nat /\ Cardinality(T) \in Nat
  BY FS_EmptySet, FS_CardinalityType
<1> QED
  BY <1>1, <1>2

(* A later time is not on an earlier day.                                  *)
LEMMA DaysGoOn ==
  ASSUME NEW s \in Nat, NEW t \in Nat, s <= t
  PROVE  DayOf(s) \in Nat /\ DayOf(t) \in Nat /\ DayOf(s) <= DayOf(t)
<1> DayLen \in Nat \ {0}
  BY DashTimes
<1> QED
  BY DEF DayOf

(* The days of the series, and what it leaves out, have every run once.    *)
LEMMA DailyAddsUp ==
  ASSUME NEW rows, IsFiniteSet(DOMAIN rows), NEW period \in Periods, NEW t \in Nat,
         \A i \in DOMAIN rows : rows[i].created \in Nat /\ rows[i].created <= t
  PROVE  RunsIn(Daily(rows, period, t))
           + Cardinality({i \in Filtered(rows, period, t) :
                            DayOf(rows[i].created) + SpanOf(period) <= DayOf(t)})
           = Cardinality(Filtered(rows, period, t))
<1> DEFINE in == Filtered(rows, period, t)
           n == SpanOf(period)
           K == 0 .. (n - 1)
           old == {i \in in : DayOf(rows[i].created) + n <= DayOf(t)}
           W == in \ old
           P == [k \in K |-> {i \in in : DayOf(rows[i].created) + k = DayOf(t)}]
           table == Daily(rows, period, t)
<1>1. n \in Nat /\ in \subseteq DOMAIN rows
  BY DashTimes DEF SpanOf, Periods, Filtered
<1>2. IsFiniteSet(in) /\ IsFiniteSet(old) /\ IsFiniteSet(W)
  BY <1>1, FS_Subset
<1>3. \A i \in in : DayOf(rows[i].created) \in Nat /\ DayOf(t) \in Nat
                    /\ DayOf(rows[i].created) <= DayOf(t)
  BY <1>1, DaysGoOn
<1>4. /\ DOMAIN table = K
      /\ \A k \in K : table[k].runs = Cardinality(P[k])
  <2>1. table = [k \in K |-> [runs |-> Cardinality(P[k]), cost |-> CostOf(rows, P[k]),
                              finished |-> Cardinality(Having(rows, P[k], "finished"))]]
    BY DEF Daily
  <2> HIDE DEF table, P
  <2> QED
    BY <2>1
<1>5. RunsIn(table) = SumOf([k \in K |-> Cardinality(P[k])])
  <2> HIDE DEF table, P, K
  <2> QED
    BY <1>4 DEF RunsIn
<1> HIDE DEF n, in
<1>6. \A k \in K : \A x \in P[k] : x \in W /\ DayOf(t) - DayOf(rows[x].created) = k
  BY <1>1, <1>3
<1>7. \A x \in W : \E k \in K : x \in P[k]
  <2> SUFFICES ASSUME NEW x \in W PROVE \E k \in K : x \in P[k]
    OBVIOUS
  <2> DEFINE k == DayOf(t) - DayOf(rows[x].created)
  <2>1. k \in K /\ DayOf(rows[x].created) + k = DayOf(t)
    BY <1>1, <1>3
  <2> HIDE DEF k, K
  <2> QED
    BY <2>1
<1>8. Cardinality(in) = Cardinality(W) + Cardinality(old)
  <2>1. in = W \cup old /\ W \cap old = {}
    OBVIOUS
  <2> HIDE DEF W, old
  <2> QED
    BY <1>2, <2>1, TwoPartsAddUp
<1>9. SumOf([k \in K |-> Cardinality(P[k])]) = Cardinality(W)
  <2> HIDE DEF P, K, W
  <2>1. W = UNION {P[k] : k \in K}
    BY <1>6, <1>7
  <2> QED
    BY <1>2, <1>6, <2>1, PartsAddUp
<1>10. RunsIn(table) + Cardinality(old) = Cardinality(in)
  BY <1>5, <1>8, <1>9
<1> QED
  BY <1>10 DEF in, n

(* A window and the one before it share no run and leave none out.         *)
LEMMA WindowsMeet ==
  ASSUME NEW rows, IsFiniteSet(DOMAIN rows), NEW period \in DOMAIN PeriodDays, NEW t \in Nat,
         \A i \in DOMAIN rows : rows[i].created \in Nat
  PROVE  Cardinality(Filtered(rows, period, t)) + Cardinality(PriorRows(rows, period, t))
           = Cardinality({i \in DOMAIN rows :
                            rows[i].created + 2 * PeriodDays[period] * DayLen >= t})
<1> DEFINE in == Filtered(rows, period, t)
           prior == PriorRows(rows, period, t)
           span == PeriodDays[period] * DayLen
           all == {i \in DOMAIN rows : rows[i].created + 2 * PeriodDays[period] * DayLen >= t}
<1>1. span \in Nat /\ 2 * PeriodDays[period] * DayLen = 2 * span /\ period # "all"
  BY DashTimes
<1>2. /\ in = {i \in DOMAIN rows : rows[i].created + span >= t}
      /\ prior = {i \in DOMAIN rows : rows[i].created + 2 * span >= t /\ rows[i].created + span < t}
      /\ all = {i \in DOMAIN rows : rows[i].created + 2 * span >= t}
  BY <1>1 DEF Filtered, PriorRows, WithinPeriod
<1> HIDE DEF in, prior, all, span
<1>3. all = in \cup prior /\ in \cap prior = {}
  BY <1>1, <1>2
<1>4. IsFiniteSet(in) /\ IsFiniteSet(prior)
  <2>1. in \in SUBSET (DOMAIN rows) /\ prior \in SUBSET (DOMAIN rows)
    BY <1>2
  <2> QED
    BY <2>1, FS_Subset
<1>5. Cardinality(all) = Cardinality(in) + Cardinality(prior)
  BY <1>3, <1>4, TwoPartsAddUp
<1> QED
  BY <1>5 DEF in, prior, all

(* The values of a finite table have a bound.                              *)
LEMMA ValuesHaveABound ==
  ASSUME NEW d, IsFiniteSet(DOMAIN d), \A i \in DOMAIN d : d[i] \in Nat
  PROVE  \E b \in Nat : \A i \in DOMAIN d : d[i] <= b
<1> DEFINE D == DOMAIN d
           n == Cardinality(D)
<1>1. n \in Nat /\ ExistsBijection(1 .. n, D)
  BY FS_CardinalityType
<1>2. PICK f : f \in Bijection(1 .. n, D)
  BY <1>1 DEF ExistsBijection
<1> HIDE DEF n, D
<1>3. /\ \A j \in 1 .. n : f[j] \in D
      /\ \A i \in D : \E j \in 1 .. n : f[j] = i
  BY <1>2 DEF Bijection, Injection, Surjection
<1>4. \A i \in D : d[i] \in Nat
  BY DEF D
<1> DEFINE Bound(m, b) == \A j \in m .. n : d[f[j]] <= b
           M == {m \in Nat : m \in 1 .. (n + 1) /\ \E b \in Nat : Bound(m, b)}
<1>5. n + 1 \in M
  <2>1. \A j \in (n + 1) .. n : FALSE
    BY <1>1
  <2>2. Bound(n + 1, 0)
    BY <2>1
  <2> QED
    BY <1>1, <2>2
<1>6. PICK m \in M : \A k \in M : m <= k
  <2>1. M \in SUBSET Nat /\ M # {}
    BY <1>5
  <2> HIDE DEF M
  <2> QED
    BY <2>1, LeastNatural
<1>7. PICK b \in Nat : Bound(m, b)
  BY <1>6
<1>8. m = 1
  <2> SUFFICES ASSUME m # 1 PROVE FALSE
    OBVIOUS
  <2>1. m \in 1 .. (n + 1) /\ m - 1 \in 1 .. n
    BY <1>1, <1>6
  <2> DEFINE v == d[f[m - 1]]
             c == IF v <= b THEN b ELSE v
  <2>2. v \in Nat
    BY <1>3, <1>4, <2>1
  <2> HIDE DEF v
  <2>3. c \in Nat /\ b <= c /\ v <= c
    BY <1>7, <2>2
  <2> HIDE DEF c
  <2>4. Bound(m - 1, c)
    <3> SUFFICES ASSUME NEW j \in (m - 1) .. n PROVE d[f[j]] <= c
      OBVIOUS
    <3>1. CASE j = m - 1
      BY <2>3, <3>1 DEF v
    <3>2. CASE j # m - 1
      <4>1. j \in m .. n /\ j \in 1 .. n
        BY <1>1, <2>1, <3>2
      <4>2. d[f[j]] <= b /\ d[f[j]] \in Nat
        BY <1>3, <1>4, <1>7, <4>1
      <4> QED
        BY <2>3, <4>2
    <3> QED
      BY <3>1, <3>2
  <2>5. m - 1 \in M
    BY <1>1, <2>1, <2>3, <2>4
  <2>6. m <= m - 1
    <3> HIDE DEF M
    <3> QED
      BY <1>6, <2>5
  <2> QED
    BY <1>1, <2>1, <2>6
<1>9. \A i \in D : d[i] <= b
  BY <1>3, <1>7, <1>8
<1> QED
  BY <1>9 DEF D

(* Every rank has a value, the value of a place; and a higher rank has no  *)
(* lower one.                                                              *)
Ranks(d, k, v) ==
  /\ v \in Nat /\ \E i \in DOMAIN d : d[i] = v
  /\ Cardinality({i \in DOMAIN d : d[i] < v}) <= k
  /\ Cardinality({i \in DOMAIN d : d[i] <= v}) > k

LEMMA EveryRankIsTaken ==
  ASSUME NEW d, IsFiniteSet(DOMAIN d), \A i \in DOMAIN d : d[i] \in Nat,
         NEW k \in Nat, k < Cardinality(DOMAIN d)
  PROVE  Ranks(d, k, Ranked(d, k))
<1> DEFINE D == DOMAIN d
           upTo(v) == {i \in D : d[i] <= v}
           below(v) == {i \in D : d[i] < v}
           V == {v \in Nat : k < Cardinality(upTo(v))}
<1>1. \A v : IsFiniteSet(upTo(v)) /\ Cardinality(upTo(v)) \in Nat
  <2> SUFFICES ASSUME NEW v PROVE IsFiniteSet(upTo(v)) /\ Cardinality(upTo(v)) \in Nat
    OBVIOUS
  <2>1. upTo(v) \in SUBSET D
    OBVIOUS
  <2> HIDE DEF upTo
  <2> QED
    BY <2>1, FS_Subset, FS_CardinalityType
<1>2. V # {}
  <2>1. PICK b \in Nat : \A i \in D : d[i] <= b
    BY ValuesHaveABound
  <2>2. upTo(b) = D
    BY <2>1
  <2> HIDE DEF upTo
  <2> QED
    BY <2>1, <2>2
<1>3. PICK v \in V : \A w \in V : v <= w
  <2>1. V \in SUBSET Nat
    OBVIOUS
  <2> HIDE DEF V
  <2> QED
    BY <1>2, <2>1, LeastNatural
<1>4. v \in Nat /\ k < Cardinality(upTo(v))
  BY <1>3
<1>5. Cardinality(below(v)) <= k
  <2>1. CASE v = 0
    <3>1. below(v) = {}
      BY <2>1
    <3> QED
      BY <3>1, FS_EmptySet
  <2>2. CASE v # 0
    <3>1. v - 1 \in Nat /\ below(v) = upTo(v - 1)
      BY <1>4, <2>2
    <3>2. v - 1 \notin V
      <4> HIDE DEF V
      <4> QED
        BY <1>3, <1>4, <3>1
    <3>3. ~ (k < Cardinality(upTo(v - 1)))
      BY <3>1, <3>2
    <3> HIDE DEF below, upTo
    <3> QED
      BY <1>1, <3>1, <3>3
  <2> QED
    BY <2>1, <2>2
<1>6. \E i \in D : d[i] = v
  <2> SUFFICES ASSUME \A i \in D : d[i] # v PROVE FALSE
    OBVIOUS
  <2>1. below(v) = upTo(v)
    BY <1>4
  <2> HIDE DEF below, upTo
  <2> QED
    BY <1>1, <1>4, <1>5, <2>1
<1>7. \E w \in {d[i] : i \in DOMAIN d} :
        /\ Cardinality({i \in DOMAIN d : d[i] < w}) <= k
        /\ Cardinality({i \in DOMAIN d : d[i] <= w}) > k
  BY <1>1, <1>4, <1>5, <1>6
<1> DEFINE r == Ranked(d, k)
<1>8. /\ r \in {d[i] : i \in DOMAIN d}
      /\ Cardinality({i \in DOMAIN d : d[i] < r}) <= k
      /\ Cardinality({i \in DOMAIN d : d[i] <= r}) > k
  BY <1>7 DEF Ranked
<1> HIDE DEF r
<1> QED
  BY <1>8 DEF Ranks, r

LEMMA RanksGrow ==
  ASSUME NEW d, IsFiniteSet(DOMAIN d), \A i \in DOMAIN d : d[i] \in Nat,
         NEW k \in Nat, NEW l \in Nat, k <= l, NEW v, NEW w, Ranks(d, k, v), Ranks(d, l, w)
  PROVE  v <= w
<1> SUFFICES ASSUME w < v PROVE FALSE
  BY DEF Ranks
<1> DEFINE D == DOMAIN d
           upTo == {i \in D : d[i] <= w}
           below == {i \in D : d[i] < v}
<1>1. upTo \in SUBSET below /\ below \in SUBSET D
  BY DEF Ranks
<1>2. Cardinality(below) <= k /\ Cardinality(upTo) > l
  BY DEF Ranks
<1> HIDE DEF upTo, below
<1>3. IsFiniteSet(below) /\ IsFiniteSet(upTo)
  BY <1>1, FS_Subset
<1>4. Cardinality(upTo) <= Cardinality(below) /\ Cardinality(upTo) \in Nat
      /\ Cardinality(below) \in Nat
  BY <1>1, <1>3, FS_Subset, FS_CardinalityType
<1> QED
  BY <1>2, <1>4

(* What lies between two values lies between their hundredfolds.           *)
Mix(a, b, p) == a * (100 - p) + b * p

LEMMA Between ==
  ASSUME NEW a \in Nat, NEW b \in Nat, a <= b, NEW p \in 0 .. 100, NEW q \in 0 .. 100, p <= q
  PROVE  /\ 100 * a <= Mix(a, b, p) /\ Mix(a, b, p) <= 100 * b
         /\ Mix(a, b, p) <= Mix(a, b, q) /\ Mix(a, b, p) \in Nat
<1> DEFINE e == b - a
<1>1. e \in Nat /\ b = a + e
  OBVIOUS
<1> HIDE DEF e
<1>2. a * (100 - p) + b * p = 100 * a + e * p /\ a * (100 - q) + b * q = 100 * a + e * q
      /\ 100 * b = 100 * a + e * 100
  BY <1>1
<1>3. ASSUME NEW m \in Nat, NEW n \in Nat, m <= n
      PROVE  e * m <= e * n /\ e * m \in Nat /\ e * n \in Nat
  <2>1. PICK o \in Nat : n = m + o
    <3>1. n - m \in Nat /\ n = m + (n - m)
      BY <1>3
    <3> QED
      BY <3>1
  <2>2. e * n = e * m + e * o /\ e * m \in Nat /\ e * o \in Nat
    BY <1>1, <2>1
  <2> DEFINE x == e * m
             y == e * o
             z == e * n
  <2>3. z = x + y /\ x \in Nat /\ y \in Nat
    BY <2>2
  <2> HIDE DEF x, y, z
  <2>4. x <= z /\ x \in Nat /\ z \in Nat
    BY <2>3
  <2> QED
    BY <2>4 DEF x, z
<1>4. e * p <= e * q /\ e * p <= e * 100 /\ e * p \in Nat /\ e * q \in Nat /\ e * 100 \in Nat
  BY <1>3
<1> DEFINE x == e * p
           y == e * q
           z == e * 100
           h == 100 * a
<1>5. x <= y /\ x <= z /\ x \in Nat /\ y \in Nat /\ z \in Nat /\ h \in Nat
  BY <1>4
<1> HIDE DEF x, y, z, h
<1>6. h <= h + x /\ h + x <= h + z /\ h + x <= h + y /\ h + x \in Nat
  BY <1>5, SMTT(40)
<1> QED
  BY <1>2, <1>6 DEF x, y, z, h, Mix

LEMMA Within ==
  ASSUME NEW a \in Nat, NEW b \in Nat, a <= b, NEW p \in 0 .. 100
  PROVE  100 * a <= Mix(a, b, p) /\ Mix(a, b, p) <= 100 * b /\ Mix(a, b, p) \in Nat
<1>1. p <= p
  OBVIOUS
<1> QED
  BY <1>1, Between

(* p50 is no more than p95, and p95 no more than a hundred times a value.  *)
LEMMA PercentilesAgree ==
  ASSUME NEW d, IsFiniteSet(DOMAIN d), \A i \in DOMAIN d : d[i] \in Nat
  PROVE  /\ Percentile(d, 50) <= Percentile(d, 95)
         /\ Percentile(d, 95) = 0 \/ \E i \in DOMAIN d : Percentile(d, 95) <= 100 * d[i]
<1>1. CASE DOMAIN d = {}
  BY <1>1 DEF Percentile
<1>2. CASE DOMAIN d # {}
  <2> DEFINE last == Cardinality(DOMAIN d) - 1
             lo == (50 * last) \div 100
             hi == IF lo < last THEN lo + 1 ELSE last
             p == (50 * last) % 100
             top == (95 * last) \div 100
             over == IF top < last THEN top + 1 ELSE last
             q == (95 * last) % 100
             a == Ranked(d, lo)
             b == Ranked(d, hi)
             v == Ranked(d, top)
             w == Ranked(d, over)
  <2>1. Percentile(d, 50) = Mix(a, b, p) /\ Percentile(d, 95) = Mix(v, w, q)
    BY <1>2 DEF Percentile, Mix
  <2>2. last \in Nat /\ Cardinality(DOMAIN d) = last + 1
    <3>1. Cardinality(DOMAIN d) \in Nat /\ Cardinality(DOMAIN d) # 0
      BY <1>2, FS_CardinalityType, FS_EmptySet
    <3> QED
      BY <3>1
  <2> HIDE DEF last
  <2>3. /\ lo \in Nat /\ lo <= last /\ p \in 0 .. 100
        /\ top \in Nat /\ top <= last /\ q \in 0 .. 100
        /\ lo <= top /\ (lo = top => p <= q)
    BY <2>2
  <2> HIDE DEF lo, p, top, q
  <2>4. /\ hi \in Nat /\ lo <= hi /\ hi <= last /\ over \in Nat /\ top <= over /\ over <= last
        /\ (lo = top => hi = over) /\ (lo # top => hi <= top)
    BY <2>2, <2>3
  <2> HIDE DEF hi, over
  <2>5. Ranks(d, lo, a) /\ Ranks(d, hi, b) /\ Ranks(d, top, v) /\ Ranks(d, over, w)
    <3>1. \A k \in Nat : k <= last => k < Cardinality(DOMAIN d)
      BY <2>2
    <3> QED
      BY <2>3, <2>4, <3>1, EveryRankIsTaken
  <2>6. a <= b /\ v <= w /\ (hi <= top => b <= v)
    BY <2>3, <2>4, <2>5, RanksGrow
  <2>7. /\ a \in Nat /\ b \in Nat /\ v \in Nat /\ w \in Nat
        /\ \E i \in DOMAIN d : d[i] = w
    BY <2>5 DEF Ranks
  <2>8. Percentile(d, 50) <= Percentile(d, 95)
    <3>1. CASE lo = top
      <4>1. b = w /\ a = v /\ p <= q
        BY <2>3, <2>4, <3>1, SMTT(40)
      <4> HIDE DEF a, b, v, w
      <4>2. Mix(a, b, p) <= Mix(a, b, q)
        BY <2>3, <2>6, <2>7, <4>1, Between
      <4> QED
        BY <2>1, <4>1, <4>2
    <3>2. CASE lo # top
      <4>1. b <= v
        BY <2>4, <2>6, <3>2
      <4> HIDE DEF a, b, v, w
      <4>2. /\ Mix(a, b, p) <= 100 * b /\ Mix(a, b, p) \in Nat
            /\ 100 * v <= Mix(v, w, q) /\ Mix(v, w, q) \in Nat
        BY <2>3, <2>6, <2>7, Within
      <4>3. Mix(a, b, p) <= Mix(v, w, q)
        BY <2>7, <4>1, <4>2
      <4> QED
        BY <2>1, <4>3
    <3> QED
      BY <3>1, <3>2
  <2>9. Percentile(d, 95) <= 100 * w
    <3> HIDE DEF a, b, v, w
    <3>1. Mix(v, w, q) <= 100 * w
      BY <2>3, <2>6, <2>7, Within
    <3> QED
      BY <2>1, <3>1
  <2> QED
    BY <2>7, <2>8, <2>9
<1> QED
  BY <1>1, <1>2

(* No row is younger than the fetch that has it.                           *)
OlderThan(rows, t) == \A i \in 1 .. Len(rows) : rows[i].created <= t
DashAges ==
  /\ \A c \in Live : stored[c].created <= now
  /\ fetch.pc = "page" => OlderThan(fetch.out, now)
  /\ fetch.pc = "done" => OlderThan(fetch.out, fetch.at)

LEMMA AgesStay ==
  ASSUME DashInv, DashAges, [DashNext]_dashVars
  PROVE  DashAges'
<1>1. /\ now \in Nat /\ fetch \in Fetch /\ fetch.out \in Seq(Row)
      /\ stored \in [1 .. MaxConvs -> Row \cup {Absent}]
      /\ \A c \in Live : stored[c] \in Row
      /\ \A i \in 1 .. Len(fetch.out) : fetch.out[i].created \in Nat
      /\ \A c \in Live : stored[c].created \in Nat /\ stored[c].created <= now
  <2>1. fetch \in Fetch /\ fetch.out \in Seq(Row)
    BY DEF DashInv, Fetch
  <2>2. \A i \in 1 .. Len(fetch.out) : fetch.out[i] \in Row
    BY <2>1, ElementOfSeq
  <2> QED
    BY <2>1, <2>2 DEF DashInv, DashAges, Row
<1>2. CASE UNCHANGED dashVars
  BY <1>2 DEF dashVars, DashAges, Live, OlderThan
<1>3. CASE Tick
  <2>1. now' = now + 1 /\ UNCHANGED <<stored, fetch>> /\ fetch.pc # "done"
    BY <1>3 DEF Tick, Awaiting
  <2> QED
    BY <1>1, <2>1 DEF DashAges, Live, OlderThan
<1>4. CASE ConvCreated
  <2>1. PICK c \in 1 .. MaxConvs, place \in DashPlaces :
          /\ stored' = [stored EXCEPT ![c] =
                          [status |-> "running", cost |-> 1, model |-> place[1],
                           space |-> place[2], n |-> c, created |-> now, updated |-> now]]
          /\ UNCHANGED <<now, fetch>>
    BY <1>4 DEF ConvCreated
  <2>2. \A d \in 1 .. MaxConvs : d # c => stored'[d] = stored[d]
    BY <1>1, <2>1
  <2>3. stored'[c].created = now
    BY <1>1, <2>1
  <2>4. \A d \in Live' : stored'[d].created <= now
    BY <1>1, <2>2, <2>3 DEF Live
  <2> QED
    BY <2>1, <2>4 DEF DashAges, OlderThan
<1>5. CASE ConvEnds \/ ConvDeleted
  <2>1. PICK c \in Live :
          /\ \A d \in 1 .. MaxConvs : d # c => stored'[d] = stored[d]
          /\ stored'[c].created = stored[c].created
          /\ UNCHANGED <<now, fetch>>
    <3>1. CASE ConvEnds
      <4>1. PICK c \in Live, status \in {"finished", "error"} :
              /\ stored' = [stored EXCEPT ![c].status = status, ![c].cost = 2, ![c].updated = now]
              /\ UNCHANGED <<now, fetch>>
        BY <3>1 DEF ConvEnds
      <4>2. c \in 1 .. MaxConvs /\ stored[c] \in Row
        BY <1>1 DEF Live
      <4> DEFINE one == [stored EXCEPT ![c].status = status]
                 two == [one EXCEPT ![c].cost = 2]
      <4>3. stored' = [two EXCEPT ![c].updated = now]
        BY <4>1
      <4>4. /\ DOMAIN stored = 1 .. MaxConvs /\ DOMAIN one = 1 .. MaxConvs
            /\ \A d \in 1 .. MaxConvs : d # c => one[d] = stored[d]
            /\ one[c].created = stored[c].created
        BY <1>1, <4>2 DEF Row
      <4> HIDE DEF one
      <4>5. /\ DOMAIN two = 1 .. MaxConvs
            /\ \A d \in 1 .. MaxConvs : d # c => two[d] = one[d]
            /\ two[c].created = one[c].created
        BY <4>2, <4>4
      <4> HIDE DEF two
      <4>6. /\ \A d \in 1 .. MaxConvs : d # c => stored'[d] = two[d]
            /\ stored'[c].created = two[c].created
        BY <4>2, <4>3, <4>5
      <4> QED
        BY <4>1, <4>4, <4>5, <4>6, ZenonT(60)
    <3>2. CASE ConvDeleted
      <4>1. PICK c \in Live :
              stored' = [stored EXCEPT ![c].status = "deleted"] /\ UNCHANGED <<now, fetch>>
        BY <3>2 DEF ConvDeleted
      <4>2. c \in 1 .. MaxConvs /\ stored[c] \in Row
        BY <1>1 DEF Live
      <4>3. /\ stored'[c].created = stored[c].created
            /\ \A d \in 1 .. MaxConvs : d # c => stored'[d] = stored[d]
        BY <1>1, <4>1, <4>2 DEF Row
      <4> QED
        BY <4>1, <4>3
    <3> QED
      BY <1>5, <3>1, <3>2
  <2>2. ASSUME NEW d \in Live' PROVE stored'[d].created <= now
    <3>1. d \in 1 .. MaxConvs /\ stored'[d].status # "absent"
      BY <2>2 DEF Live
    <3>2. CASE d = c
      BY <1>1, <2>1, <3>2
    <3>3. CASE d # c
      BY <1>1, <2>1, <3>1, <3>3 DEF Live
    <3> QED
      BY <3>2, <3>3
  <2> QED
    BY <2>1, <2>2 DEF DashAges, OlderThan
<1>6. CASE DashRequested \/ PageFails \/ DashServed
  <2>1. /\ UNCHANGED <<stored, now>>
        /\ \/ fetch'.pc = "page" /\ fetch'.out = <<>>
           \/ fetch.pc = "page" /\ fetch'.pc = "done" /\ fetch'.out = fetch.out /\ fetch'.at = now
           \/ fetch'.pc = "idle"
    <3>1. CASE DashRequested
      <4>1. /\ UNCHANGED <<stored, now>>
            /\ fetch' = [pc |-> "page", cursor |-> MaxConvs, pages |-> 0, out |-> <<>>, at |-> 0,
                         failed |-> FALSE, seen |-> Listed]
        BY <3>1 DEF DashRequested, NoFetch
      <4> QED
        BY <4>1
    <3>2. CASE PageFails
      BY <1>1, <3>2 DEF PageFails, Fetch
    <3>3. CASE DashServed
      BY <3>3 DEF DashServed, NoFetch
    <3> QED
      BY <1>6, <3>1, <3>2, <3>3
  <2>2. OlderThan(<<>>, now)
    BY LenProperties DEF OlderThan
  <2> QED
    BY <1>1, <2>1, <2>2 DEF DashAges, Live, OlderThan
<1>7. CASE PageRead
  <2> DEFINE items == PageOf(fetch.cursor).items
             rows == RowsOf(items)
             out == fetch.out \o rows
  <2>1. /\ UNCHANGED <<stored, now>> /\ fetch.pc = "page"
        /\ \/ fetch'.pc = "page" /\ fetch'.out = out
           \/ fetch'.pc = "done" /\ fetch'.out = Capped(out) /\ fetch'.at = now
    BY <1>1, <1>7 DEF PageRead, Fetch
  <2>2. items \subseteq Live /\ IsFiniteSet(items)
    <3>1. PageIsRight(items, PageOf(fetch.cursor).next, fetch.cursor) /\ Listed \subseteq Live
      BY <1>1, PageIsTheNewest DEF Listed, Fetch
    <3> HIDE DEF items
    <3> QED
      BY <3>1 DEF PageIsRight
  <2> HIDE DEF items
  <2>3. /\ rows \in Seq(Row)
        /\ \A i \in 1 .. Len(rows) : rows[i].n \in Live /\ rows[i] = stored[rows[i].n]
    BY <2>2, RowsOfAPage
  <2> HIDE DEF rows
  <2>4. \A i \in 1 .. Len(rows) : rows[i].created <= now
    BY <1>1, <2>3
  <2>5. out \in Seq(Row) /\ OlderThan(out, now)
    <3>1. /\ out \in Seq(Row) /\ Len(out) = Len(fetch.out) + Len(rows)
          /\ \A i \in 1 .. Len(fetch.out) + Len(rows) :
               out[i] = IF i <= Len(fetch.out) THEN fetch.out[i] ELSE rows[i - Len(fetch.out)]
      BY <1>1, <2>3, ConcatProperties
    <3>2. Len(fetch.out) \in Nat /\ Len(rows) \in Nat
      BY <1>1, <2>3, LenProperties
    <3>3. \A i \in 1 .. Len(fetch.out) : fetch.out[i].created <= now
      BY <2>1 DEF DashAges, OlderThan
    <3> DEFINE o == fetch.out
    <3> HIDE DEF out, o
    <3>4. ASSUME NEW i \in 1 .. Len(out) PROVE out[i].created <= now
      <4>1. CASE i <= Len(o)
        BY <3>1, <3>2, <3>3, <4>1 DEF o
      <4>2. CASE ~ (i <= Len(o))
        <5>1. i - Len(o) \in 1 .. Len(rows) /\ out[i] = rows[i - Len(o)]
          BY <3>1, <3>2, <4>2 DEF o
        <5> QED
          BY <2>4, <5>1
      <4> QED
        BY <4>1, <4>2
    <3> QED
      BY <3>1, <3>4 DEF OlderThan
  <2> HIDE DEF out
  <2>6. OlderThan(Capped(out), now)
    <3>1. CASE Len(out) > FetchCap
      <4>1. /\ Capped(out) = SubSeq(out, 1, FetchCap) /\ FetchCap \in Nat /\ Len(out) \in Nat
            /\ \A i \in 1 .. FetchCap : out[i] \in Row
        BY <2>5, <3>1, DashConstants, LenProperties, ElementOfSeq DEF Capped
      <4>2. /\ Len(SubSeq(out, 1, FetchCap)) = IF 1 <= FetchCap THEN FetchCap - 1 + 1 ELSE 0
            /\ \A i \in 1 .. FetchCap - 1 + 1 : SubSeq(out, 1, FetchCap)[i] = out[1 + i - 1]
        BY <4>1, SubSeqProperties
      <4>3. \A i \in 1 .. FetchCap :
              i \in 1 .. FetchCap - 1 + 1 /\ 1 + i - 1 = i /\ i \in 1 .. Len(out)
        BY <3>1, <4>1
      <4>4. Len(SubSeq(out, 1, FetchCap)) = FetchCap
        BY <4>1, <4>2
      <4>5. \A i \in 1 .. FetchCap : SubSeq(out, 1, FetchCap)[i] = out[i]
        BY <4>2, <4>3
      <4> QED
        BY <2>5, <4>1, <4>3, <4>4, <4>5 DEF OlderThan
    <3>2. CASE ~ (Len(out) > FetchCap)
      BY <2>5, <3>2 DEF Capped
    <3> QED
      BY <3>1, <3>2
  <2> QED
    BY <1>1, <2>1, <2>5, <2>6 DEF DashAges, Live
<1> QED
  BY <1>2, <1>3, <1>4, <1>5, <1>6, <1>7 DEF DashNext

(* What a fetch has when it is answered is enough for the tables to agree. *)
LEMMA TablesAgree ==
  ASSUME DashInv, DashAges, fetch.pc = "done"
  PROVE  DashboardsAgree
<1> DEFINE rows == fetch.out
           t == fetch.at
<1>1. /\ DOMAIN rows = 1 .. Len(rows) /\ Len(rows) \in Nat /\ t \in Nat
      /\ \A i \in DOMAIN rows : rows[i] \in Row /\ rows[i].created <= t
  <2>1. rows \in Seq(Row) /\ t \in Nat
    BY DEF DashInv, Fetch
  <2> QED
    BY <2>1, LenProperties, ElementOfSeq DEF DashAges, OlderThan
<1>2. IsFiniteSet(DOMAIN rows)
  BY <1>1, FS_Interval
<1>3. \A i \in DOMAIN rows :
        /\ rows[i].created \in Nat /\ rows[i].cost \in Nat /\ Duration(rows[i]) \in Nat
  BY <1>1 DEF Row, Duration
<1> SUFFICES ASSUME NEW period \in Periods
    PROVE  LET sum  == SummaryOf(rows, period, t)
               in   == Filtered(rows, period, t)
               days == Daily(rows, period, t)
               offChart == {i \in in : DayOf(rows[i].created) + SpanOf(period) <= DayOf(t)}
           IN  /\ \A b \in {ByModel(rows, period, t), BySpace(rows, period, t)} :
                    RunsIn(b) = sum.runs /\ CostIn(b) = sum.cost
               /\ RunsIn(days) + Cardinality(offChart) = sum.runs
               /\ period # "all" =>
                    sum.runs + sum.prior
                      = Cardinality({i \in DOMAIN rows :
                                       rows[i].created + 2 * PeriodDays[period] * DayLen >= t})
               /\ sum.p50 <= sum.p95
               /\ \A i \in in : \E j \in in : sum.p95 <= 100 * Duration(rows[j])
  BY DEF DashboardsAgree
<1> HIDE DEF rows, t
<1> DEFINE in == Filtered(rows, period, t)
           sum == SummaryOf(rows, period, t)
           d == Durations(rows, in)
<1>4. /\ sum.runs = Cardinality(in) /\ sum.cost = CostOf(rows, in)
      /\ sum.prior = IF period = "all" THEN 0 ELSE Cardinality(PriorRows(rows, period, t))
      /\ sum.p50 = Percentile(d, 50) /\ sum.p95 = Percentile(d, 95)
  BY DEF SummaryOf
<1>5. in \in SUBSET (DOMAIN rows)
  BY DEF Filtered
<1>6. IsFiniteSet(in)
  BY <1>2, <1>5, FS_Subset
<1> HIDE DEF in, sum, d
<1>7. ASSUME NEW field, DOMAIN field = in
      PROVE  RunsIn(Breakdown(rows, field)) = sum.runs /\ CostIn(Breakdown(rows, field)) = sum.cost
  BY <1>3, <1>4, <1>5, <1>6, <1>7, BreakdownAddsUp
<1>8. \A b \in {ByModel(rows, period, t), BySpace(rows, period, t)} :
        RunsIn(b) = sum.runs /\ CostIn(b) = sum.cost
  <2> DEFINE models == [i \in in |-> rows[i].model]
             spaces == [i \in in |-> rows[i].space]
  <2>1. DOMAIN models = in /\ DOMAIN spaces = in
    OBVIOUS
  <2>2. /\ ByModel(rows, period, t) = Breakdown(rows, models)
        /\ BySpace(rows, period, t) = Breakdown(rows, spaces)
    BY DEF ByModel, BySpace, in
  <2> HIDE DEF models, spaces
  <2> QED
    BY <1>7, <2>1, <2>2
<1>9. RunsIn(Daily(rows, period, t))
        + Cardinality({i \in in : DayOf(rows[i].created) + SpanOf(period) <= DayOf(t)}) = sum.runs
  BY <1>1, <1>2, <1>3, <1>4, DailyAddsUp DEF in
<1>10. ASSUME period # "all"
       PROVE  sum.runs + sum.prior
                = Cardinality({i \in DOMAIN rows :
                                 rows[i].created + 2 * PeriodDays[period] * DayLen >= t})
  <2>1. period \in DOMAIN PeriodDays
    BY <1>10 DEF Periods
  <2> QED
    BY <1>1, <1>2, <1>3, <1>4, <1>10, <2>1, WindowsMeet DEF in
<1>11. /\ IsFiniteSet(DOMAIN d) /\ DOMAIN d \subseteq in
       /\ \A i \in DOMAIN d : d[i] = Duration(rows[i]) /\ d[i] \in Nat
  <2>1. DOMAIN d \in SUBSET in
    BY DEF d, Durations
  <2>2. IsFiniteSet(DOMAIN d)
    BY <1>6, <2>1, FS_Subset
  <2>3. \A i \in DOMAIN d : d[i] = Duration(rows[i]) /\ d[i] \in Nat
    BY <1>3, <1>5 DEF d, Durations
  <2> QED
    BY <2>1, <2>2, <2>3
<1>12. /\ sum.p50 <= sum.p95
       /\ sum.p95 = 0 \/ \E i \in DOMAIN d : sum.p95 <= 100 * d[i]
  BY <1>4, <1>11, PercentilesAgree
<1>13. ASSUME NEW i \in in PROVE \E j \in in : sum.p95 <= 100 * Duration(rows[j])
  <2>1. CASE sum.p95 = 0
    <3>1. Duration(rows[i]) \in Nat
      BY <1>3, <1>5
    <3> QED
      BY <2>1, <3>1
  <2>2. CASE \E j \in DOMAIN d : sum.p95 <= 100 * d[j]
    BY <1>11, <2>2
  <2> QED
    BY <1>12, <2>1, <2>2
<1> QED
  BY <1>8, <1>9, <1>10, <1>12, <1>13 DEF in, sum

\* In every run of the dashboard: the endpoints, which each add up the rows of one fetch in a way
\* of their own, agree: on the totals, by model, by workspace, by day and with the period before;
\* and the 95th percentile is no less than the median and no more than the longest run.
THEOREM DashboardsTellOneStory ==
  DashSpec => []DashboardsAgree
<1>1. DashInit => DashAges
  BY DEF DashInit, DashAges, NoFetch, Live, Absent
<1>2. DashInv /\ DashAges /\ [DashNext]_dashVars => DashAges'
  BY AgesStay
<1>3. DashInv /\ DashAges => DashboardsAgree
  BY TablesAgree DEF DashboardsAgree
<1> QED
  BY <1>1, <1>2, <1>3, DashStarts, DashStaysRight, PTL DEF DashSpec

-----------------------------------------------------------------------------
(***************************************************************************)
(* BenchPatches: what is picked from a patch, and what each pass over it   *)
(* leaves alone.                                                           *)
(***************************************************************************)

\* The place of a position in K, counted from one.
Rank(K, i) == Cardinality({j \in K : j <= i})

LEMMA Ranking ==
  ASSUME NEW n \in Nat, NEW K \in SUBSET (1 .. n)
  PROVE  /\ IsFiniteSet(K) /\ Cardinality(K) \in Nat
         /\ \A i \in K : Rank(K, i) \in 1 .. Cardinality(K)
         /\ \A i, j \in K : i < j => Rank(K, i) < Rank(K, j)
<1>1. IsFiniteSet(K) /\ Cardinality(K) \in Nat
  <2>1. IsFiniteSet(1 .. n)
    BY FS_Interval
  <2> QED
    BY <2>1, FS_Subset, FS_CardinalityType
<1> DEFINE A(i) == {j \in K : j <= i}
<1>2. \A i : IsFiniteSet(A(i)) /\ Cardinality(A(i)) \in Nat /\ Cardinality(A(i)) <= Cardinality(K)
  <2> SUFFICES ASSUME NEW i
               PROVE  /\ IsFiniteSet(A(i)) /\ Cardinality(A(i)) \in Nat
                      /\ Cardinality(A(i)) <= Cardinality(K)
    OBVIOUS
  <2>1. A(i) \in SUBSET K
    OBVIOUS
  <2> HIDE DEF A
  <2> QED
    BY <1>1, <2>1, FS_Subset, FS_CardinalityType
<1>3. ASSUME NEW i \in K PROVE Cardinality(A(i)) # 0
  <2>1. i \in A(i)
    OBVIOUS
  <2> HIDE DEF A
  <2> QED
    BY <1>2, <2>1, FS_EmptySet
<1>4. ASSUME NEW i \in K, NEW j \in K, i < j PROVE Cardinality(A(i)) < Cardinality(A(j))
  <2>0. \A k \in K : k \in Nat
    OBVIOUS
  <2>1. A(i) \in SUBSET A(j) /\ j \in A(j) /\ j \notin A(i)
    <3>1. \A k \in A(i) : k \in K /\ k \in Nat /\ k <= i
      BY <2>0
    <3>2. \A k \in Nat : k <= i => k <= j
      BY <1>4, <2>0
    <3>3. A(i) \in SUBSET A(j)
      BY <3>1, <3>2
    <3>4. j \in A(j) /\ j \notin A(i)
      BY <1>4, <2>0
    <3> QED
      BY <3>3, <3>4
  <2> HIDE DEF A
  <2>2. Cardinality(A(i)) <= Cardinality(A(j)) /\ Cardinality(A(i)) # Cardinality(A(j))
    BY <1>2, <2>1, FS_Subset
  <2> QED
    BY <1>2, <2>2
<1>5. \A i : Rank(K, i) = Cardinality(A(i))
  BY DEF Rank
<1> HIDE DEF A
<1> QED
  BY <1>1, <1>2, <1>3, <1>4, <1>5

\* Nth and Rank undo each other.
LEMMA NthOfRank ==
  ASSUME NEW n \in Nat, NEW K \in SUBSET (1 .. n)
  PROVE  /\ \A m \in 1 .. Cardinality(K) : Nth(K, m) \in K /\ Rank(K, Nth(K, m)) = m
         /\ \A i \in K : Nth(K, Rank(K, i)) = i
         /\ \A m, o \in 1 .. Cardinality(K) : m < o => Nth(K, m) < Nth(K, o)
<1> DEFINE c == Cardinality(K)
           f == [i \in K |-> Rank(K, i)]
<1>1. /\ IsFiniteSet(K) /\ c \in Nat /\ \A i \in K : Rank(K, i) \in 1 .. c
      /\ \A i, j \in K : i < j => Rank(K, i) < Rank(K, j)
  BY Ranking
<1> HIDE DEF c
<1>2. \A i, j \in K : Rank(K, i) = Rank(K, j) => i = j
  <2> SUFFICES ASSUME NEW i \in K, NEW j \in K, Rank(K, i) = Rank(K, j), i # j PROVE FALSE
    OBVIOUS
  <2>1. i < j \/ j < i
    OBVIOUS
  <2> QED
    BY <1>1, <2>1
<1>3. f \in Injection(K, 1 .. c)
  BY <1>1, <1>2 DEF Injection, IsInjective
<1>4. IsFiniteSet(1 .. c) /\ Cardinality(1 .. c) = c
  BY <1>1, FS_Interval
<1>5. f \in Surjection(K, 1 .. c)
  BY <1>1, <1>3, <1>4, FS_Injection DEF c
<1>6. \A m \in 1 .. c : \E i \in K : Rank(K, i) = m
  BY <1>5 DEF Surjection
<1>7. \A m \in 1 .. c : Nth(K, m) \in K /\ Rank(K, Nth(K, m)) = m
  BY <1>6 DEF Nth, Rank
<1>8. \A i \in K : Nth(K, Rank(K, i)) = i
  BY <1>1, <1>2, <1>7
<1>9. ASSUME NEW m \in 1 .. c, NEW o \in 1 .. c, m < o PROVE Nth(K, m) < Nth(K, o)
  <2> DEFINE i == Nth(K, m)
             j == Nth(K, o)
  <2>1. i \in K /\ j \in K /\ Rank(K, i) = m /\ Rank(K, j) = o
    BY <1>7
  <2> HIDE DEF i, j
  <2>2. i \in Nat /\ j \in Nat /\ i # j /\ ~ (j < i)
    BY <1>1, <1>9, <2>1
  <2>3. i < j
    BY <2>2
  <2> QED
    BY <2>3 DEF i, j
<1> QED
  BY <1>7, <1>8, <1>9 DEF c

\* A list of K in its order is the list that Nth gives.
LEMMA InOrder ==
  ASSUME NEW n \in Nat, NEW K \in SUBSET (1 .. n), NEW m \in Nat, NEW f \in [1 .. m -> K],
         \A i \in K : \E k \in 1 .. m : f[k] = i,
         \A k, l \in 1 .. m : k < l => f[k] < f[l]
  PROVE  Cardinality(K) = m /\ \A k \in 1 .. m : Nth(K, k) = f[k]
<1>1. \A k, l \in 1 .. m : f[k] \in Nat /\ (f[k] <= f[l] <=> k <= l) /\ (f[k] = f[l] => k = l)
  <2> SUFFICES ASSUME NEW k \in 1 .. m, NEW l \in 1 .. m
               PROVE  f[k] \in Nat /\ (f[k] <= f[l] <=> k <= l) /\ (f[k] = f[l] => k = l)
    OBVIOUS
  <2>0. f[k] \in K /\ f[l] \in K
    OBVIOUS
  <2>1. f[k] \in Nat /\ f[l] \in Nat
    <3>1. \A i \in K : i \in Nat
      OBVIOUS
    <3> QED
      BY <2>0, <3>1
  <2>2. CASE k < l
    BY <2>1, <2>2
  <2>3. CASE l < k
    BY <2>1, <2>3
  <2>4. CASE k = l
    BY <2>1, <2>4
  <2> QED
    BY <2>2, <2>3, <2>4
<1>2. ASSUME NEW k \in 0 .. m, NEW A \in SUBSET K, \A i \in A : \E l \in 1 .. k : f[l] = i,
             \A l \in 1 .. k : f[l] \in A
      PROVE  Cardinality(A) = k
  <2> DEFINE g == [l \in 1 .. k |-> f[l]]
  <2>1. /\ g \in [1 .. k -> A] /\ \A i, j \in 1 .. k : g[i] = g[j] => i = j
        /\ \A i \in A : \E l \in 1 .. k : g[l] = i
    BY <1>1, <1>2
  <2> HIDE DEF g
  <2>2. g \in Bijection(1 .. k, A)
    BY <2>1, Fun_IsBij
  <2>3. IsFiniteSet(1 .. k) /\ Cardinality(1 .. k) = k
    BY FS_Interval
  <2> QED
    BY <2>2, <2>3, FS_Bijection DEF ExistsBijection
<1>3. Cardinality(K) = m
  BY <1>2
<1>4. ASSUME NEW k \in 1 .. m PROVE Nth(K, k) = f[k]
  <2> DEFINE A == {j \in K : j <= f[k]}
  <2>1. A \in SUBSET K /\ (\A i \in A : \E l \in 1 .. k : f[l] = i) /\ \A l \in 1 .. k : f[l] \in A
    BY <1>1
  <2> HIDE DEF A
  <2>2. Cardinality(A) = k
    BY <1>2, <2>1
  <2>3. Rank(K, f[k]) = k
    BY <2>2 DEF Rank, A
  <2> DEFINE x == f[k]
  <2>4. x \in K
    OBVIOUS
  <2> HIDE DEF x
  <2>5. Nth(K, Rank(K, x)) = x
    BY <2>4, NthOfRank
  <2> QED
    BY <2>3, <2>5 DEF x
<1> QED
  BY <1>3, <1>4

\* Lines that are picked are lines, and they can be picked from again.
LEMMA PickedLines ==
  ASSUME NEW S, NEW L \in Seq(S), NEW K \in SUBSET (1 .. Len(L))
  PROVE  /\ Picked(L, K) \in Seq(S) /\ Len(Picked(L, K)) = Cardinality(K)
         /\ DOMAIN Picked(L, K) = 1 .. Cardinality(K) /\ Cardinality(K) \in Nat
         /\ \A m \in 1 .. Cardinality(K) : Nth(K, m) \in K /\ Picked(L, K)[m] = L[Nth(K, m)]
         /\ \A i \in K : Rank(K, i) \in 1 .. Cardinality(K) /\ Picked(L, K)[Rank(K, i)] = L[i]
<1> DEFINE c == Cardinality(K)
           Q == Picked(L, K)
<1>1. Len(L) \in Nat
  BY LenProperties
<1>2. /\ c \in Nat /\ (\A i \in K : Rank(K, i) \in 1 .. c /\ Nth(K, Rank(K, i)) = i)
      /\ \A m \in 1 .. c : Nth(K, m) \in K
  BY <1>1, Ranking, NthOfRank
<1>3. Q = [m \in 1 .. c |-> L[Nth(K, m)]]
  BY DEF Picked
<1> HIDE DEF c, Q
<1>4. \A m \in 1 .. c : L[Nth(K, m)] \in S
  BY <1>2, ElementOfSeq
<1>5. Q \in [1 .. c -> S]
  BY <1>3, <1>4
<1>6. Q \in Seq(S) /\ Len(Q) = c
  BY <1>2, <1>5, SeqDef, LenProperties
<1> QED
  BY <1>2, <1>3, <1>6 DEF c, Q

LEMMA PickedTwice ==
  ASSUME NEW S, NEW L \in Seq(S), NEW K \in SUBSET (1 .. Len(L)),
         NEW J \in SUBSET (1 .. Cardinality(K))
  PROVE  LET T == {Nth(K, m) : m \in J}
         IN  /\ Picked(Picked(L, K), J) = Picked(L, T) /\ Cardinality(T) = Cardinality(J)
             /\ \A k \in 1 .. Cardinality(J) : Nth(T, k) = Nth(K, Nth(J, k)) /\ Nth(J, k) \in J
<1> DEFINE T == {Nth(K, m) : m \in J}
           o == Cardinality(J)
           f == [k \in 1 .. o |-> Nth(K, Nth(J, k))]
<1>1. Len(L) \in Nat /\ Cardinality(K) \in Nat
  BY LenProperties, Ranking
<1>2. /\ \A m \in 1 .. Cardinality(K) : Nth(K, m) \in K
      /\ \A l, m \in 1 .. Cardinality(K) : l < m => Nth(K, l) < Nth(K, m)
  BY <1>1, NthOfRank
<1>3. /\ o \in Nat /\ \A k \in 1 .. o : Nth(J, k) \in J
      /\ \A k, l \in 1 .. o : k < l => Nth(J, k) < Nth(J, l)
      /\ \A m \in J : Rank(J, m) \in 1 .. o /\ Nth(J, Rank(J, m)) = m
  BY <1>1, NthOfRank, Ranking
<1> HIDE DEF o
<1>4. T \in SUBSET (1 .. Len(L)) /\ f \in [1 .. o -> T]
  BY <1>2, <1>3
<1>5. \A i \in T : \E k \in 1 .. o : f[k] = i
  <2> SUFFICES ASSUME NEW m \in J PROVE \E k \in 1 .. o : f[k] = Nth(K, m)
    OBVIOUS
  <2>1. Rank(J, m) \in 1 .. o /\ f[Rank(J, m)] = Nth(K, m)
    BY <1>3
  <2> QED
    BY <2>1
<1>6. \A k, l \in 1 .. o : k < l => f[k] < f[l]
  BY <1>2, <1>3
<1>7. \A k \in 1 .. o : f[k] = Nth(K, Nth(J, k)) /\ Nth(J, k) \in 1 .. Cardinality(K)
  BY <1>3
<1> HIDE DEF T, f
<1>8. Cardinality(T) = o /\ \A k \in 1 .. o : Nth(T, k) = f[k]
  <2>1. Len(L) \in Nat /\ o \in Nat
    BY <1>1, <1>3
  <2> QED
    BY <2>1, <1>4, <1>5, <1>6, InOrder, ZenonT(60)
<1>9. \A k \in 1 .. o : Picked(L, K)[Nth(J, k)] = L[Nth(T, k)]
  BY <1>7, <1>8, PickedLines
<1>10. Picked(Picked(L, K), J) = [k \in 1 .. o |-> L[Nth(T, k)]]
  BY <1>9 DEF Picked, o
<1>11. Picked(L, T) = [k \in 1 .. o |-> L[Nth(T, k)]]
  BY <1>8 DEF Picked
<1>12. \A k \in 1 .. o : Nth(T, k) = Nth(K, Nth(J, k)) /\ Nth(J, k) \in J
  BY <1>3, <1>7, <1>8
<1> QED
  BY <1>8, <1>10, <1>11, <1>12 DEF T, o

\* A part of the lines in one piece.
LEMMA PickedPart ==
  ASSUME NEW S, NEW L \in Seq(S), NEW a \in 1 .. (Len(L) + 1), NEW b \in (a - 1) .. Len(L)
  PROVE  /\ SubSeq(L, a, b) = Picked(L, a .. b) /\ a .. b \in SUBSET (1 .. Len(L))
         /\ Cardinality(a .. b) = b - a + 1
         /\ \A k \in 1 .. (b - a + 1) : Nth(a .. b, k) = a + k - 1
<1> DEFINE m == b - a + 1
           f == [k \in 1 .. m |-> a + k - 1]
           K == a .. b
           Q == SubSeq(L, a, b)
<1>1. Len(L) \in Nat /\ m \in Nat /\ K \in SUBSET (1 .. Len(L)) /\ a \in Nat /\ b \in Int
  BY LenProperties
<1>2. /\ f \in [1 .. m -> K] /\ (\A k, l \in 1 .. m : k < l => f[k] < f[l])
  BY <1>1
<1>3. \A i \in K : \E k \in 1 .. m : f[k] = i
  <2> SUFFICES ASSUME NEW i \in K PROVE \E k \in 1 .. m : f[k] = i
    OBVIOUS
  <2>1. i - a + 1 \in 1 .. m /\ f[i - a + 1] = i
    BY <1>1
  <2> QED
    BY <2>1
<1>4. \A k \in 1 .. m : f[k] = a + k - 1
  OBVIOUS
<1>5. \A i \in K : L[i] \in S
  BY <1>1, ElementOfSeq
<1>6. /\ Q \in Seq(S) /\ Len(Q) = (IF a <= b THEN b - a + 1 ELSE 0)
      /\ \A i \in 1 .. b - a + 1 : Q[i] = L[a + i - 1]
  BY <1>1, <1>5, SubSeqProperties
<1>7. Len(Q) = m
  BY <1>1, <1>6
<1> HIDE DEF f, K, Q
<1>8. Cardinality(K) = m /\ \A k \in 1 .. m : Nth(K, k) = f[k]
  BY <1>1, <1>2, <1>3, InOrder, ZenonT(60)
<1>9. Q = [i \in 1 .. m |-> Q[i]]
  BY <1>6, <1>7, LenProperties
<1>10. Picked(L, K) = [i \in 1 .. m |-> Q[i]]
  BY <1>4, <1>6, <1>8 DEF Picked
<1> QED
  BY <1>1, <1>4, <1>8, <1>9, <1>10 DEF K, Q

\* What is picked beside no edit of the lines has all of them in order, and it makes them to the
\* same files when the place of each is in the section it was in.
EditKinds == {"context", "del", "add"}

LEMMA EditsPicked ==
  ASSUME NEW S, NEW L \in Seq(S), NEW K \in SUBSET (1 .. Len(L)),
         \A i \in (1 .. Len(L)) \ K : L[i].kind \notin EditKinds
  PROVE  /\ ChangesOf(Picked(L, K)) = ChangesOf(L)
         /\ (\A m \in 1 .. Cardinality(K) : FileAt(Picked(L, K), m) = FileAt(L, Nth(K, m)))
              => FilesOf(Picked(L, K)) = FilesOf(L)
<1> DEFINE c == Cardinality(K)
           Q == Picked(L, K)
           J == {m \in 1 .. c : Q[m].kind \in EditKinds}
           T == {Nth(K, m) : m \in J}
           E == {i \in 1 .. Len(L) : L[i].kind \in EditKinds}
<1>1. /\ DOMAIN Q = 1 .. c /\ DOMAIN L = 1 .. Len(L)
      /\ \A m \in 1 .. c : Nth(K, m) \in K /\ Q[m] = L[Nth(K, m)]
      /\ \A i \in K : Rank(K, i) \in 1 .. c /\ Q[Rank(K, i)] = L[i]
      /\ \A i \in K : Nth(K, Rank(K, i)) = i
  <2>1. Len(L) \in Nat /\ DOMAIN L = 1 .. Len(L)
    BY LenProperties
  <2>2. \A i \in K : Nth(K, Rank(K, i)) = i
    BY <2>1, NthOfRank
  <2> QED
    BY <2>1, <2>2, PickedLines
<1>2. EditsAt(Q) = J /\ EditsAt(L) = E
  BY <1>1 DEF EditsAt, EditKinds
<1>3. J \in SUBSET (1 .. c)
  OBVIOUS
<1>4. /\ Picked(Q, J) = Picked(L, T) /\ Cardinality(T) = Cardinality(J)
      /\ \A k \in 1 .. Cardinality(J) : Nth(T, k) = Nth(K, Nth(J, k)) /\ Nth(J, k) \in J
  BY <1>3, PickedTwice
<1>5. T = E
  <2> HIDE DEF Q, c
  <2>1. ASSUME NEW m \in J PROVE Nth(K, m) \in E
    BY <1>1
  <2>2. ASSUME NEW i \in E PROVE \E m \in J : Nth(K, m) = i
    <3>1. i \in K
      OBVIOUS
    <3>2. Rank(K, i) \in J /\ Nth(K, Rank(K, i)) = i
      BY <1>1, <3>1
    <3> QED
      BY <3>2
  <2> HIDE DEF J, E
  <2> QED
    BY <2>1, <2>2
<1>6. ChangesOf(Q) = ChangesOf(L)
  BY <1>2, <1>4, <1>5 DEF ChangesOf
<1>7. ASSUME \A m \in 1 .. c : FileAt(Q, m) = FileAt(L, Nth(K, m))
      PROVE  FilesOf(Q) = FilesOf(L)
  <2> HIDE DEF Q, c, J, T, E
  <2>1. FilesOf(Q) = [n \in 1 .. Cardinality(J) |-> FileAt(Q, Nth(J, n))]
    BY <1>2 DEF FilesOf
  <2>2. FilesOf(L) = [n \in 1 .. Cardinality(J) |-> FileAt(L, Nth(T, n))]
    BY <1>2, <1>4, <1>5 DEF FilesOf
  <2>3. \A n \in 1 .. Cardinality(J) : FileAt(Q, Nth(J, n)) = FileAt(L, Nth(T, n))
    BY <1>3, <1>4, <1>7
  <2> QED
    BY <2>1, <2>2, <2>3
<1> QED
  BY <1>6, <1>7

\* And if every file of the lines is still named, it names the same files.
LEMMA FilesPicked ==
  ASSUME NEW S, NEW L \in Seq(S), NEW K \in SUBSET (1 .. Len(L)),
         \A i \in (1 .. Len(L)) \ K : L[i].kind = "new" =>
           \E j \in K : L[j].kind = "new" /\ L[j].path = L[i].path
  PROVE  FilesTouched(Picked(L, K)) = FilesTouched(L)
<1> DEFINE c == Cardinality(K)
           Q == Picked(L, K)
<1>1. /\ DOMAIN Q = 1 .. c /\ DOMAIN L = 1 .. Len(L)
      /\ \A m \in 1 .. c : Nth(K, m) \in K /\ Q[m] = L[Nth(K, m)]
      /\ \A i \in K : Rank(K, i) \in 1 .. c /\ Q[Rank(K, i)] = L[i]
  BY PickedLines, LenProperties
<1> HIDE DEF Q, c
<1>2. ASSUME NEW p \in FilesTouched(Q) PROVE p \in FilesTouched(L)
  <2>1. PICK m \in 1 .. c : Q[m].kind = "new" /\ p = Q[m].path
    BY <1>1 DEF FilesTouched
  <2>2. Nth(K, m) \in 1 .. Len(L) /\ L[Nth(K, m)] = Q[m]
    BY <1>1
  <2> QED
    BY <1>1, <2>1, <2>2 DEF FilesTouched
<1>3. ASSUME NEW p \in FilesTouched(L) PROVE p \in FilesTouched(Q)
  <2>1. PICK i \in 1 .. Len(L) : L[i].kind = "new" /\ p = L[i].path
    BY <1>1 DEF FilesTouched
  <2>2. PICK j \in K : L[j].kind = "new" /\ L[j].path = p
    BY <2>1
  <2>3. Rank(K, j) \in 1 .. c /\ Q[Rank(K, j)] = L[j]
    BY <1>1
  <2> QED
    BY <1>1, <2>2, <2>3 DEF FilesTouched
<1>4. FilesTouched(Q) = FilesTouched(L)
  BY <1>2, <1>3
<1> QED
  BY <1>4 DEF Q

\* Neighbours that are both picked stay neighbours.
LEMMA NextRank ==
  ASSUME NEW n \in Nat, NEW K \in SUBSET (1 .. n), NEW i \in K, i + 1 \in K
  PROVE  Rank(K, i + 1) = Rank(K, i) + 1
<1> DEFINE A == {j \in K : j <= i}
           B == {j \in K : j <= i + 1}
           next == i + 1
<1>0. \A j \in K : j \in Nat
  OBVIOUS
<1>1. B = A \cup {next} /\ next \notin A
  <2>1. \A j \in K : j <= i + 1 <=> j <= i \/ j = i + 1
    BY <1>0
  <2>2. \A j \in A : j <= i
    OBVIOUS
  <2>3. next \notin A
    BY <1>0, <2>2
  <2>4. \A j : j \in B <=> j \in A \cup {next}
    BY <1>0, <2>1
  <2> HIDE DEF A, B, next
  <2> QED
    BY <2>3, <2>4
<1>2. IsFiniteSet(A)
  <2>1. A \in SUBSET K
    OBVIOUS
  <2> HIDE DEF A
  <2> QED
    BY <2>1, Ranking, FS_Subset
<1> HIDE DEF A, B, next
<1>3. Cardinality(B) = Cardinality(A) + 1
  BY <1>1, <1>2, FS_AddElement
<1> QED
  BY <1>3 DEF Rank, A, B

\* A header's first line has its second line behind it, unless it ends the patch.
Headed(L) ==
  \A i \in 1 .. Len(L) :
    L[i].kind = "old" =>
      i = Len(L) \/ (i + 1 \in 1 .. Len(L) /\ L[i + 1].kind = "new" /\ L[i + 1].path = L[i].path)

\* No edit, no file and no edit's place is lost from L to Q.
SameEdits(Q, L) ==
  /\ ChangesOf(Q) = ChangesOf(L) /\ FilesTouched(Q) = FilesTouched(L)
  /\ OneAfterAnother(L) => OneAfterAnother(Q) /\ FilesOf(Q) = FilesOf(L)

LEMMA HeadersAreWhole ==
  ASSUME NEW S, NEW L \in Seq(S), Headed(L), NEW i \in 1 .. Len(L), L[i].kind = "old"
  PROVE  IF i = Len(L) THEN ~ OpensSection(L, i)
         ELSE /\ OpensSection(L, i) /\ i + 1 \in 1 .. Len(L)
              /\ L[i + 1].kind = "new" /\ L[i + 1].path = L[i].path
<1>1. Len(L) \in Nat
  BY LenProperties
<1>2. CASE i = Len(L)
  <2>1. ~ (i < Len(L))
    BY <1>1, <1>2
  <2> QED
    BY <1>2, <2>1 DEF OpensSection
<1>3. CASE i # Len(L)
  <2>1. i + 1 \in 1 .. Len(L) /\ L[i + 1].kind = "new" /\ L[i + 1].path = L[i].path
    BY <1>3 DEF Headed
  <2>2. i < Len(L)
    BY <1>1, <1>3
  <2> QED
    BY <1>3, <2>1, <2>2 DEF OpensSection
<1> QED
  BY <1>2, <1>3

\* The openings up to i, and the file that they put it in.
LEMMA FileOfThePlace ==
  ASSUME NEW L, NEW i \in Nat
  PROVE  /\ (\A e \in 1 .. i : ~ OpensSection(L, e)) => FileAt(L, i) = "-"
         /\ \A d \in 1 .. i : OpensSection(L, d) =>
              \E e \in d .. i : /\ OpensSection(L, e) /\ FileAt(L, i) = L[e].path
                              /\ \A k \in 1 .. i : OpensSection(L, k) => k <= e
<1> DEFINE above == {e \in 1 .. i : OpensSection(L, e)}
<1>1. above = {} => FileAt(L, i) = "-"
  BY DEF FileAt
<1>2. ASSUME NEW d \in 1 .. i, OpensSection(L, d)
      PROVE  \E e \in d .. i : /\ OpensSection(L, e) /\ FileAt(L, i) = L[e].path
                             /\ \A k \in 1 .. i : OpensSection(L, k) => k <= e
  <2>1. d \in above /\ above # {} /\ above \in SUBSET (1 .. i)
    BY <1>2
  <2>2. FileAt(L, i) = L[Max(above)].path
    BY <2>1 DEF FileAt
  <2>3. Max(above) \in above /\ \A k \in above : k <= Max(above)
    BY <2>1, EndsExist
  <2> DEFINE e == Max(above)
  <2> HIDE DEF e
  <2>4. e \in above /\ (\A k \in above : k <= e) /\ FileAt(L, i) = L[e].path
    BY <2>2, <2>3 DEF e
  <2>5. e \in d .. i
    BY <2>1, <2>4
  <2> QED
    BY <2>4, <2>5
<1> QED
  BY <1>1, <1>2

\* A part of a patch that keeps the header lines together and of every section the opening, or an
\* opening before it with no other file's section in between.
PartOf(L, K) ==
  /\ \A i \in (1 .. Len(L)) \ K : L[i].kind \notin EditKinds
  /\ \A i \in (1 .. Len(L)) \ K : L[i].kind = "new" =>
       \E j \in K : L[j].kind = "new" /\ L[j].path = L[i].path
  /\ \A i \in K : L[i].kind = "old" /\ i # Len(L) => i + 1 \in K
  /\ OneAfterAnother(L) =>
       \A d \in 1 .. Len(L) : OpensSection(L, d) =>
         \E e \in K : /\ e <= d /\ OpensSection(L, e)
                      /\ \A k \in e .. d : OpensSection(L, k) => L[k].path = L[d].path

LEMMA PartOfAPatch ==
  ASSUME NEW S, NEW L \in Seq(S), Headed(L), NEW K \in SUBSET (1 .. Len(L)), PartOf(L, K)
  PROVE  LET Q == Picked(L, K)
         IN  /\ Q \in Seq(S) /\ Headed(Q) /\ SameEdits(Q, L)
             /\ \A m \in 1 .. Cardinality(K) :
                  OpensSection(Q, m) <=> OpensSection(L, Nth(K, m))
<1> DEFINE n == Len(L)
           c == Cardinality(K)
           Q == Picked(L, K)
<1>1. n \in Nat /\ DOMAIN L = 1 .. n
  BY LenProperties
<1>2. /\ Q \in Seq(S) /\ Len(Q) = c /\ c \in Nat /\ DOMAIN Q = 1 .. c
      /\ \A k \in 1 .. c : Nth(K, k) \in K /\ Q[k] = L[Nth(K, k)]
      /\ \A i \in K : Rank(K, i) \in 1 .. c /\ Q[Rank(K, i)] = L[i]
  BY PickedLines
<1>3. /\ \A k \in 1 .. c : Rank(K, Nth(K, k)) = k
      /\ \A i \in K : Nth(K, Rank(K, i)) = i
      /\ \A k, l \in 1 .. c : k < l => Nth(K, k) < Nth(K, l)
      /\ \A i, j \in K : i < j => Rank(K, i) < Rank(K, j)
  BY <1>1, NthOfRank, Ranking
<1> HIDE DEF c, Q
<1>4. \A i \in 1 .. n : OpensSection(L, i) <=> L[i].kind = "old" /\ i # n
  <2> SUFFICES ASSUME NEW i \in 1 .. n PROVE OpensSection(L, i) <=> L[i].kind = "old" /\ i # n
    OBVIOUS
  <2>1. OpensSection(L, i) => L[i].kind = "old"
    BY DEF OpensSection
  <2> QED
    BY <2>1, HeadersAreWhole
<1>5. ASSUME NEW k \in 1 .. c, Q[k].kind = "old"
      PROVE  /\ k = c <=> Nth(K, k) = n
             /\ k # c => k + 1 \in 1 .. c /\ Q[k + 1].kind = "new" /\ Q[k + 1].path = Q[k].path
  <2> DEFINE i == Nth(K, k)
  <2>1. i \in K /\ Q[k] = L[i] /\ Rank(K, i) = k
    BY <1>2, <1>3
  <2> HIDE DEF i
  <2>2. i \in 1 .. n /\ L[i].kind = "old"
    BY <1>5, <2>1
  <2>3. CASE i = n
    <3>1. ASSUME k # c PROVE FALSE
      <4>1. k + 1 \in 1 .. c /\ k < k + 1
        BY <1>2, <3>1
      <4>2. Nth(K, k + 1) \in K /\ Nth(K, k) < Nth(K, k + 1)
        BY <1>2, <1>3, <4>1
      <4>3. Nth(K, k + 1) \in 1 .. n
        BY <4>2
      <4> QED
        BY <1>1, <2>3, <4>2, <4>3 DEF i
    <3> QED
      BY <2>3, <3>1 DEF i
  <2>4. CASE i # n
    <3>1. i + 1 \in K /\ L[i + 1].kind = "new" /\ L[i + 1].path = L[i].path
      BY <2>1, <2>2, <2>4 DEF Headed, PartOf
    <3>2. Rank(K, i + 1) = k + 1
      <4>1. n \in Nat /\ K \in SUBSET (1 .. n) /\ i \in K /\ i + 1 \in K
        BY <1>1, <2>1, <3>1
      <4> QED
        BY <2>1, <4>1, NextRank
    <3>3. k + 1 \in 1 .. c /\ Q[k + 1] = L[i + 1]
      <4>1. Rank(K, i + 1) \in 1 .. c /\ Q[Rank(K, i + 1)] = L[i + 1]
        BY <1>2, <3>1
      <4> QED
        BY <3>2, <4>1
    <3>4. k # c
      BY <1>2, <3>3
    <3> QED
      BY <2>1, <2>4, <3>1, <3>3, <3>4 DEF i
  <2> QED
    BY <2>3, <2>4
<1>6. Headed(Q)
  BY <1>2, <1>5 DEF Headed
<1>7. ASSUME NEW m \in 1 .. c PROVE OpensSection(Q, m) <=> OpensSection(L, Nth(K, m))
  <2> DEFINE i == Nth(K, m)
  <2>1. i \in 1 .. n /\ Q[m] = L[i]
    BY <1>2
  <2>2. OpensSection(Q, m) <=> Q[m].kind = "old" /\ m # c
    BY <1>2, <1>5 DEF OpensSection
  <2>3. Q[m].kind = "old" => (m = c <=> i = n)
    BY <1>5
  <2> HIDE DEF i
  <2>4. OpensSection(L, i) <=> L[i].kind = "old" /\ i # n
    BY <1>4, <2>1
  <2> QED
    BY <2>1, <2>2, <2>3, <2>4 DEF i
<1>8. ASSUME OneAfterAnother(L) PROVE OneAfterAnother(Q)
  <2>0. DOMAIN Q = 1 .. c
    BY <1>2
  <2> SUFFICES \A i, j, k \in 1 .. c :
                 /\ i <= k /\ k <= j /\ Q[i].path = Q[j].path
                 /\ OpensSection(Q, i) /\ OpensSection(Q, j) /\ OpensSection(Q, k)
                 => Q[k].path = Q[i].path
    BY <2>0 DEF OneAfterAnother
  <2> SUFFICES ASSUME NEW i \in 1 .. c, NEW j \in 1 .. c, NEW k \in 1 .. c,
                      i <= k, k <= j, Q[i].path = Q[j].path,
                      OpensSection(Q, i), OpensSection(Q, j), OpensSection(Q, k)
               PROVE  Q[k].path = Q[i].path
    OBVIOUS
  <2>1. \A l \in 1 .. c : Nth(K, l) \in 1 .. n /\ Nth(K, l) \in Nat
    <3>1. \A l \in 1 .. c : Nth(K, l) \in K
      BY <1>2
    <3>2. \A x \in K : x \in 1 .. n /\ x \in Nat
      BY <1>1
    <3> HIDE DEF n
    <3> QED
      BY <3>1, <3>2
  <2>2. Nth(K, i) <= Nth(K, k) /\ Nth(K, k) <= Nth(K, j)
    <3>1. i < k \/ i = k
      BY <1>2
    <3>2. k < j \/ k = j
      BY <1>2
    <3>3. Nth(K, i) <= Nth(K, k)
      BY <1>3, <2>1, <3>1
    <3>4. Nth(K, k) <= Nth(K, j)
      BY <1>3, <2>1, <3>2
    <3> QED
      BY <3>3, <3>4
  <2>3. /\ Q[i] = L[Nth(K, i)] /\ Q[j] = L[Nth(K, j)] /\ Q[k] = L[Nth(K, k)]
        /\ OpensSection(L, Nth(K, i)) /\ OpensSection(L, Nth(K, j)) /\ OpensSection(L, Nth(K, k))
    BY <1>2, <1>7
  <2> QED
    BY <1>1, <1>8, <2>1, <2>2, <2>3 DEF OneAfterAnother
<1>9. ASSUME OneAfterAnother(L), NEW m \in 1 .. c PROVE FileAt(Q, m) = FileAt(L, Nth(K, m))
  <2> PICK i \in K : i = Nth(K, m)
    BY <1>2
  <2>0. i \in 1 .. n /\ i \in Nat /\ m \in Nat
    BY <1>1, <1>2
  <2>1. \A k \in 1 .. m : k \in 1 .. c /\ Nth(K, k) \in 1 .. i
    <3> SUFFICES ASSUME NEW k \in 1 .. m PROVE k \in 1 .. c /\ Nth(K, k) \in 1 .. i
      OBVIOUS
    <3>1. k \in 1 .. c /\ (k < m \/ k = m)
      BY <1>2
    <3>2. Nth(K, k) \in K
      BY <1>2, <3>1
    <3>3. Nth(K, k) \in 1 .. n
      BY <3>2
    <3>4. CASE k < m
      BY <1>3, <2>0, <3>1, <3>3, <3>4
    <3>5. CASE k = m
      BY <2>0, <3>5
    <3> QED
      BY <3>1, <3>4, <3>5
  <2>2. CASE \A e \in 1 .. i : ~ OpensSection(L, e)
    <3>1. \A k \in 1 .. m : ~ OpensSection(Q, k)
      BY <1>7, <2>1, <2>2
    <3>2. FileAt(L, i) = "-" /\ FileAt(Q, m) = "-"
      BY <2>0, <2>2, <3>1, FileOfThePlace
    <3> QED
      BY <3>2
  <2>3. ASSUME NEW x \in 1 .. i, OpensSection(L, x) PROVE FileAt(Q, m) = FileAt(L, i)
    <3>1. PICK d \in x .. i : /\ OpensSection(L, d) /\ FileAt(L, i) = L[d].path
                              /\ \A k \in 1 .. i : OpensSection(L, k) => k <= d
      BY <2>0, <2>3, FileOfThePlace
    <3>2. d \in 1 .. n
      BY <2>0
    <3>3. PICK e \in K : /\ e <= d /\ OpensSection(L, e)
                         /\ \A k \in e .. d : OpensSection(L, k) => L[k].path = L[d].path
      BY <1>9, <3>1, <3>2 DEF PartOf
    <3> DEFINE r == Rank(K, e)
    <3>4. e \in 1 .. n /\ e <= i
      BY <2>0, <3>3
    <3>5. r \in 1 .. m /\ OpensSection(Q, r) /\ Nth(K, r) = e
      <4>1. r \in 1 .. c /\ Nth(K, r) = e
        BY <1>2, <1>3
      <4>2. OpensSection(Q, r)
        BY <1>7, <3>3, <4>1
      <4>3. ~ (m < r)
        <5>1. m < r => i < e
          BY <1>3, <4>1
        <5> QED
          BY <2>0, <3>4, <5>1
      <4> QED
        BY <2>0, <4>1, <4>2, <4>3
    <3> HIDE DEF r
    <3>6. PICK q \in r .. m : OpensSection(Q, q) /\ FileAt(Q, m) = Q[q].path
      BY <2>0, <3>5, FileOfThePlace
    <3>7. q \in 1 .. m /\ q \in 1 .. c /\ Nth(K, q) \in 1 .. i
      <4>1. q \in 1 .. m
        BY <3>5
      <4> QED
        BY <2>1, <4>1
    <3>8. OpensSection(L, Nth(K, q)) /\ Q[q] = L[Nth(K, q)]
      BY <1>2, <1>7, <3>6, <3>7
    <3>9. e <= Nth(K, q)
      <4>1. r \in 1 .. c /\ (r < q \/ r = q)
        BY <2>1, <3>5
      <4>2. CASE r < q
        BY <1>3, <3>4, <3>5, <3>7, <4>1, <4>2
      <4>3. CASE r = q
        BY <3>4, <3>5, <4>3
      <4> QED
        BY <4>1, <4>2, <4>3
    <3>10. Nth(K, q) <= d
      BY <3>1, <3>7, <3>8
    <3>11. Nth(K, q) \in e .. d
      BY <3>4, <3>7, <3>9, <3>10
    <3>12. L[Nth(K, q)].path = L[d].path
      BY <3>3, <3>8, <3>11
    <3> QED
      BY <3>1, <3>6, <3>8, <3>12
  <2> QED
    BY <2>2, <2>3
<1>10. SameEdits(Q, L)
  <2>1. ChangesOf(Q) = ChangesOf(L)
    BY EditsPicked DEF PartOf, Q
  <2>2. FilesTouched(Q) = FilesTouched(L)
    BY FilesPicked DEF PartOf, Q
  <2>3. ASSUME OneAfterAnother(L) PROVE FilesOf(Q) = FilesOf(L)
    <3>1. \A m \in 1 .. c : FileAt(Q, m) = FileAt(L, Nth(K, m))
      BY <1>9, <2>3
    <3> QED
      BY <3>1, EditsPicked DEF PartOf, Q, c
  <2> QED
    BY <1>8, <2>1, <2>2, <2>3 DEF SameEdits
<1> QED
  BY <1>2, <1>6, <1>7, <1>10 DEF Q, c

\* To cut blank lines and fences off the ends takes nothing from a patch.
LEMMA CutLines ==
  ASSUME NEW S, NEW L \in Seq(S), Headed(L),
         NEW a \in 1 .. (Len(L) + 1), NEW b \in (a - 1) .. Len(L),
         \A i \in 1 .. Len(L) : i \notin a .. b => L[i].kind \in {"blank", "fence"}
  PROVE  /\ SubSeq(L, a, b) \in Seq(S) /\ Headed(SubSeq(L, a, b))
         /\ SameEdits(SubSeq(L, a, b), L)
<1> DEFINE K == a .. b
           n == Len(L)
<1>1. SubSeq(L, a, b) = Picked(L, K) /\ K \in SUBSET (1 .. n)
  BY PickedPart
<1>2. n \in Nat
  BY LenProperties
<1> HIDE DEF K
<1>3. \A i \in 1 .. n : i \notin K => L[i].kind \in {"blank", "fence"}
  BY DEF K
<1>4. PartOf(L, K)
  <2>1. \A i \in (1 .. n) \ K : L[i].kind \notin EditKinds /\ L[i].kind # "new"
    BY <1>3 DEF EditKinds
  <2>2. \A i \in K : L[i].kind = "old" /\ i # n => i + 1 \in K
    BY <1>1, <1>3 DEF Headed
  <2>3. ASSUME NEW d \in 1 .. n, OpensSection(L, d)
        PROVE  \E e \in K : /\ e <= d /\ OpensSection(L, e)
                            /\ \A k \in e .. d : OpensSection(L, k) => L[k].path = L[d].path
    <3>1. d \in K
      BY <1>3, <2>3 DEF OpensSection
    <3>2. d <= d /\ \A k \in d .. d : k = d
      BY <1>2
    <3> QED
      BY <2>3, <3>1, <3>2
  <2> QED
    BY <2>1, <2>2, <2>3 DEF PartOf
<1> QED
  BY <1>1, <1>4, PartOfAPatch

LEMMA StrippedLines ==
  ASSUME NEW S, NEW L \in Seq(S), Headed(L)
  PROVE  Stripped(L) \in Seq(S) /\ Headed(Stripped(L)) /\ SameEdits(Stripped(L), L)
<1> DEFINE solid == {i \in 1 .. Len(L) : L[i].kind # "blank"}
<1>1. Len(L) \in Nat /\ DOMAIN L = 1 .. Len(L)
  BY LenProperties
<1>2. CASE solid = {}
  <2>1. \A i \in 1 .. Len(L) : L[i].kind = "blank"
    BY <1>2
  <2>2. Stripped(L) = <<>> /\ SubSeq(L, 1, 0) = <<>>
    <3>1. Stripped(L) = <<>>
      BY <1>1, <1>2 DEF Stripped
    <3>2. SubSeq(L, 1, 0) = <<>>
      BY <1>1, SubSeqEmpty
    <3> QED
      BY <3>1, <3>2
  <2>3. 1 \in 1 .. (Len(L) + 1) /\ 0 \in (1 - 1) .. Len(L)
    BY <1>1
  <2>4. SubSeq(L, 1, 0) \in Seq(S) /\ Headed(SubSeq(L, 1, 0)) /\ SameEdits(SubSeq(L, 1, 0), L)
    BY <2>1, <2>3, CutLines
  <2> QED
    BY <2>2, <2>4
<1>3. CASE solid # {}
  <2>1. /\ Min(solid) \in solid /\ Max(solid) \in solid
        /\ \A i \in solid : Min(solid) <= i /\ i <= Max(solid)
    BY <1>1, <1>3, EndsExist
  <2> DEFINE a == Min(solid)
             b == Max(solid)
  <2>2. Stripped(L) = SubSeq(L, a, b)
    BY <1>1, <1>3 DEF Stripped
  <2> HIDE DEF a, b
  <2>3. a \in solid /\ b \in solid /\ \A i \in solid : a <= i /\ i <= b
    BY <2>1 DEF a, b
  <2>4. a \in 1 .. (Len(L) + 1) /\ b \in (a - 1) .. Len(L)
    BY <1>1, <2>3
  <2>5. \A i \in 1 .. Len(L) : i \notin a .. b => L[i].kind \in {"blank", "fence"}
    BY <1>1, <2>3
  <2> QED
    BY <2>2, <2>4, <2>5, CutLines
<1> QED
  BY <1>2, <1>3

LEMMA UnfencedLines ==
  ASSUME NEW S, NEW L \in Seq(S), Headed(L)
  PROVE  Unfenced(L) \in Seq(S) /\ Headed(Unfenced(L)) /\ SameEdits(Unfenced(L), L)
<1> DEFINE n == Len(L)
           a == IF n > 1 /\ L[1].kind = "fence" THEN 2 ELSE 1
           b == IF n > a /\ L[n].kind = "fence" THEN n - 1 ELSE n
<1>1. n \in Nat
  BY LenProperties
<1>2. Unfenced(L) = SubSeq(L, a, b)
  BY DEF Unfenced
<1>3. a \in 1 .. (n + 1) /\ b \in (a - 1) .. n
  BY <1>1
<1>4. \A i \in 1 .. n : i \notin a .. b => L[i].kind \in {"blank", "fence"}
  BY <1>1
<1> HIDE DEF a, b
<1> QED
  BY <1>2, <1>3, <1>4, CutLines

\* What the merge drops: the header of a later section and metadata.
Later(L) == {i \in 1 .. Len(L) : Repeats(L, i)}
Staying(L)  == {j \in 1 .. Len(L) : \A i \in 1 .. Len(L) : Repeats(L, i) => ~ GoesWith(L, i, j)}

LEMMA WhatGoes ==
  ASSUME NEW S, NEW L \in Seq(S), Headed(L)
  PROVE  /\ Merged(L) = Picked(L, Staying(L)) /\ Staying(L) \in SUBSET (1 .. Len(L))
         /\ \A j \in (1 .. Len(L)) \ Staying(L) :
              \/ j \in Later(L) /\ L[j].kind = "old"
              \/ j - 1 \in Later(L) /\ L[j].kind = "new"
              \/ L[j].kind = "git"
         /\ \A i \in 1 .. Len(L) :
              L[i].kind = "old" => /\ i \in Staying(L) <=> i \notin Later(L)
                                   /\ i # Len(L) => (i + 1 \in Staying(L) <=> i \notin Later(L))
<1> DEFINE n == Len(L)
<1>1. n \in Nat /\ DOMAIN L = 1 .. n
  BY LenProperties
<1>2. Merged(L) = Picked(L, Staying(L))
  BY <1>1 DEF Merged, Staying
<1>3. \A i \in Later(L) : /\ i \in 1 .. n /\ L[i].kind = "old" /\ i + 1 \in 1 .. n
                          /\ L[i + 1].kind = "new"
  BY <1>1 DEF Later, Repeats, OpensSection
<1>4. ASSUME NEW j \in (1 .. n) \ Staying(L)
      PROVE  \/ j \in Later(L) /\ L[j].kind = "old"
             \/ j - 1 \in Later(L) /\ L[j].kind = "new"
             \/ L[j].kind = "git"
  <2>1. PICK i \in Later(L) : GoesWith(L, i, j)
    BY DEF Staying, Later
  <2>2. i \in Nat /\ j \in Nat /\ j >= i
    BY <1>3, <2>1 DEF GoesWith
  <2>3. CASE j = i
    BY <1>3, <2>3
  <2>4. CASE j = i + 1
    <3>1. j - 1 = i
      BY <2>2, <2>4
    <3> QED
      BY <1>3, <2>4, <3>1
  <2>5. CASE j >= i + 2
    <3>1. j \in (i + 2) .. j
      BY <2>2, <2>5
    <3> QED
      BY <2>1, <3>1 DEF GoesWith
  <2> QED
    BY <2>2, <2>3, <2>4, <2>5
<1>5. ASSUME NEW i \in 1 .. n, L[i].kind = "old"
      PROVE  /\ i \in Staying(L) <=> i \notin Later(L)
             /\ i # n => (i + 1 \in Staying(L) <=> i \notin Later(L))
  <2>1. GoesWith(L, i, i) /\ GoesWith(L, i, i + 1)
    BY DEF GoesWith
  <2>2. i \in Later(L) => i \notin Staying(L) /\ i + 1 \notin Staying(L)
    BY <2>1 DEF Later, Staying
  <2>3. i \notin Staying(L) => i \in Later(L)
    BY <1>4, <1>5
  <2>4. ASSUME i # n, i + 1 \notin Staying(L) PROVE i \in Later(L)
    <3>1. i + 1 \in 1 .. n /\ L[i + 1].kind = "new"
      BY <1>5, <2>4 DEF Headed
    <3>2. (i + 1) - 1 = i
      BY <1>1
    <3> QED
      BY <1>4, <2>4, <3>1
  <2> QED
    BY <2>2, <2>3, <2>4
<1>6. Staying(L) \in SUBSET (1 .. n)
  BY DEF Staying
<1> QED
  BY <1>2, <1>4, <1>5, <1>6

LEMMA MergedLines ==
  ASSUME NEW S, NEW L \in Seq(S), Headed(L)
  PROVE  /\ Merged(L) \in Seq(S) /\ Headed(Merged(L)) /\ SameEdits(Merged(L), L)
         /\ \A k \in 1 .. Len(Merged(L)) : ~ Repeats(Merged(L), k)
<1> DEFINE n == Len(L)
           K == Staying(L)
           c == Cardinality(K)
           M == Merged(L)
<1>1. n \in Nat /\ DOMAIN L = 1 .. n /\ K \in SUBSET (1 .. n) /\ M = Picked(L, K)
  BY LenProperties, WhatGoes
<1>2. /\ \A j \in (1 .. n) \ K :
              \/ j \in Later(L) /\ L[j].kind = "old"
              \/ j - 1 \in Later(L) /\ L[j].kind = "new"
              \/ L[j].kind = "git"
      /\ \A i \in 1 .. n :
           L[i].kind = "old" => /\ i \in K <=> i \notin Later(L)
                                /\ i # n => (i + 1 \in K <=> i \notin Later(L))
  BY WhatGoes
<1> HIDE DEF K, M
<1>3. \A i \in 1 .. n : i \in Later(L) <=> Repeats(L, i)
  BY DEF Later
<1>4. \A i \in 1 .. n : OpensSection(L, i) =>
        /\ L[i].kind = "old" /\ i # n /\ i + 1 \in 1 .. n
        /\ L[i + 1].kind = "new" /\ L[i + 1].path = L[i].path
  <2> SUFFICES ASSUME NEW i \in 1 .. n, OpensSection(L, i)
               PROVE  /\ L[i].kind = "old" /\ i # n /\ i + 1 \in 1 .. n
                      /\ L[i + 1].kind = "new" /\ L[i + 1].path = L[i].path
    OBVIOUS
  <2>1. L[i].kind = "old"
    BY DEF OpensSection
  <2> QED
    BY <2>1, HeadersAreWhole
<1>5. ASSUME NEW d \in 1 .. n, OpensSection(L, d)
      PROVE  \E e \in K : /\ e + 1 \in K /\ e \in 1 .. d /\ OpensSection(L, e)
                          /\ L[e].path = L[d].path
  <2> DEFINE O == {e \in 1 .. d : OpensSection(L, e) /\ L[e].path = L[d].path}
  <2>1. O \in SUBSET (1 .. d) /\ O # {} /\ d \in Nat
    BY <1>5
  <2> HIDE DEF O
  <2>2. Min(O) \in O /\ \A e \in O : Min(O) <= e
    BY <2>1, EndsExist
  <2>3. PICK e \in O : \A x \in O : e <= x
    BY <2>2
  <2>4. e \in 1 .. d /\ e \in 1 .. n /\ OpensSection(L, e) /\ L[e].path = L[d].path
    BY <1>1 DEF O
  <2>5. ~ Repeats(L, e)
    <3> SUFFICES ASSUME Repeats(L, e) PROVE FALSE
      OBVIOUS
    <3>1. PICK x \in 1 .. (e - 1) : OpensSection(L, x) /\ L[x].path = L[e].path
      BY DEF Repeats
    <3>2. x \in 1 .. d /\ x < e
      BY <2>4
    <3>3. x \in O
      BY <2>4, <3>1, <3>2 DEF O
    <3> QED
      BY <2>3, <2>4, <3>2, <3>3
  <2>6. e \in K /\ e + 1 \in K
    BY <1>2, <1>3, <1>4, <2>4, <2>5
  <2> QED
    BY <2>4, <2>6
<1>6. PartOf(L, K)
  <2>1. \A i \in (1 .. n) \ K : L[i].kind \notin EditKinds
    BY <1>2 DEF EditKinds
  <2>2. ASSUME NEW j \in (1 .. n) \ K, L[j].kind = "new"
        PROVE  \E k \in K : L[k].kind = "new" /\ L[k].path = L[j].path
    <3>1. j - 1 \in Later(L)
      BY <1>2, <2>2
    <3> DEFINE d == j - 1
    <3>2. d \in 1 .. n /\ OpensSection(L, d) /\ d + 1 = j
      BY <1>1, <3>1 DEF Later, Repeats
    <3> HIDE DEF d
    <3>3. PICK e \in K : e + 1 \in K /\ OpensSection(L, e) /\ L[e].path = L[d].path
      BY <1>5, <3>2, SMTT(40)
    <3>4. L[e + 1].kind = "new" /\ L[e + 1].path = L[e].path
      BY <1>1, <1>4, <3>3
    <3>5. L[j].path = L[d].path
      BY <1>4, <3>2
    <3> QED
      BY <3>3, <3>4, <3>5
  <2>3. \A i \in K : L[i].kind = "old" /\ i # n => i + 1 \in K
    BY <1>1, <1>2
  <2>4. ASSUME OneAfterAnother(L), NEW d \in 1 .. n, OpensSection(L, d)
        PROVE  \E e \in K : /\ e <= d /\ OpensSection(L, e)
                            /\ \A k \in e .. d : OpensSection(L, k) => L[k].path = L[d].path
    <3>1. PICK e \in K : e \in 1 .. d /\ OpensSection(L, e) /\ L[e].path = L[d].path
      BY <1>5, <2>4
    <3>2. ASSUME NEW k \in e .. d, OpensSection(L, k) PROVE L[k].path = L[d].path
      <4>1. k \in 1 .. n /\ e \in 1 .. n /\ e <= k /\ k <= d
        BY <1>1, <3>1
      <4> QED
        BY <1>1, <2>4, <3>1, <3>2, <4>1 DEF OneAfterAnother
    <3>3. e <= d
      BY <3>1
    <3> QED
      BY <3>1, <3>2, <3>3
  <2> QED
    BY <2>1, <2>2, <2>3, <2>4 DEF PartOf
<1>7. /\ M \in Seq(S) /\ Headed(M) /\ SameEdits(M, L)
      /\ \A m \in 1 .. c : OpensSection(M, m) <=> OpensSection(L, Nth(K, m))
  BY <1>1, <1>6, PartOfAPatch
<1>8. /\ Len(M) = c /\ c \in Nat
      /\ \A k \in 1 .. c : Nth(K, k) \in K /\ M[k] = L[Nth(K, k)]
      /\ \A k, l \in 1 .. c : k < l => Nth(K, k) < Nth(K, l)
  <2>1. n \in Nat /\ K \in SUBSET (1 .. n)
    BY <1>1
  <2>2. \A k, l \in 1 .. c : k < l => Nth(K, k) < Nth(K, l)
    BY <2>1, NthOfRank
  <2>3. /\ Len(M) = c /\ c \in Nat
        /\ \A k \in 1 .. c : Nth(K, k) \in K /\ M[k] = L[Nth(K, k)]
    BY <1>1, PickedLines
  <2> QED
    BY <2>2, <2>3
<1> HIDE DEF c
<1>9. ASSUME NEW k \in 1 .. c, Repeats(M, k) PROVE FALSE
  <2>1. PICK l \in 1 .. (k - 1) : OpensSection(M, l) /\ M[l].path = M[k].path
    BY <1>9 DEF Repeats
  <2>2. l \in 1 .. c /\ l < k
    BY <1>8
  <2> DEFINE i == Nth(K, k)
             j == Nth(K, l)
  <2>3. /\ i \in K /\ j \in K /\ j < i /\ M[k] = L[i] /\ M[l] = L[j]
        /\ OpensSection(L, i) /\ OpensSection(L, j)
    BY <1>7, <1>8, <1>9, <2>1, <2>2 DEF Repeats
  <2> HIDE DEF i, j
  <2>4. i \in 1 .. n /\ j \in 1 .. n /\ L[i].kind = "old"
    BY <1>1, <1>4, <2>3
  <2>5. j \in 1 .. (i - 1) /\ L[j].path = L[i].path
    BY <1>1, <2>1, <2>3, <2>4
  <2>6. Repeats(L, i)
    BY <2>3, <2>5 DEF Repeats
  <2> QED
    BY <1>2, <1>3, <2>3, <2>4, <2>6
<1> QED
  BY <1>7, <1>8, <1>9 DEF M

\* To recount changes the counts of the hunks and nothing else.
LEMMA RecountKeeps ==
  ASSUME NEW S, NEW L \in Seq(S)
  PROVE  LET R == RecountHunks(L)
         IN  /\ R \in Seq({R[i] : i \in 1 .. Len(L)}) /\ Len(R) = Len(L)
             /\ \A i \in 1 .. Len(L) : /\ R[i].kind = L[i].kind
                                       /\ L[i].kind # "hunk" => R[i] = L[i]
             /\ SameEdits(R, L) /\ RecountHunks(R) = R
             /\ \A i \in 1 .. Len(L) : OpensSection(R, i) <=> OpensSection(L, i)
             /\ \A i \in 1 .. Len(L) : Repeats(R, i) => Repeats(L, i)
<1> DEFINE n == Len(L)
           R == RecountHunks(L)
<1>1. n \in Nat /\ DOMAIN L = 1 .. n
  BY LenProperties
<1>2. R = [i \in 1 .. n |-> IF L[i].kind = "hunk" THEN Recounted(L, i) ELSE L[i]]
  BY <1>1 DEF RecountHunks
<1>3. \A i : Recounted(L, i).kind = "hunk"
  BY DEF Recounted, Hunk, Line
<1> HIDE DEF R
<1>4. \A i \in 1 .. n : R[i].kind = L[i].kind /\ (L[i].kind # "hunk" => R[i] = L[i])
  BY <1>2, <1>3
<1>5. DOMAIN R = 1 .. n
  BY <1>2
<1>6. R \in Seq({R[i] : i \in 1 .. n}) /\ Len(R) = n
  <2> DEFINE T == {R[i] : i \in 1 .. n}
  <2>1. R \in [1 .. n -> T]
    BY <1>2, <1>5
  <2> HIDE DEF T
  <2>2. R \in Seq(T) /\ Len(R) = n
    BY <1>1, <2>1, SeqDef, LenProperties
  <2> QED
    BY <2>2 DEF T
<1>7. \A i \in 1 .. n : BodyAfter(R, i) = BodyAfter(L, i)
  <2>1. \A j \in 1 .. n : InBody(R[j]) <=> InBody(L[j])
    BY <1>4 DEF InBody, InOld, InNew
  <2>2. \A i, j \in 1 .. n : \A k \in (i + 1) .. j : k \in 1 .. n
    BY <1>1
  <2> SUFFICES ASSUME NEW i \in 1 .. n PROVE BodyAfter(R, i) = BodyAfter(L, i)
    OBVIOUS
  <2>3. \A j \in 1 .. n : (\A k \in (i + 1) .. j : InBody(R[k]))
                          <=> \A k \in (i + 1) .. j : InBody(L[k])
    BY <2>1, <2>2
  <2> QED
    BY <1>1, <1>5, <2>3 DEF BodyAfter
<1>8. \A i \in 1 .. n : Recounted(R, i) = Recounted(L, i)
  <2> SUFFICES ASSUME NEW i \in 1 .. n PROVE Recounted(R, i) = Recounted(L, i)
    OBVIOUS
  <2> DEFINE b == BodyAfter(L, i)
  <2>1. BodyAfter(R, i) = b /\ b \in SUBSET (1 .. n)
    BY <1>1, <1>7 DEF BodyAfter
  <2> HIDE DEF b
  <2>2. {j \in b : InOld(R[j])} = {j \in b : InOld(L[j])}
    BY <1>4, <2>1 DEF InOld
  <2>3. {j \in b : InNew(R[j])} = {j \in b : InNew(L[j])}
    BY <1>4, <2>1 DEF InNew
  <2> QED
    BY <2>1, <2>2, <2>3 DEF Recounted, b
<1>9. RecountHunks(R) = R
  <2>1. RecountHunks(R) = [i \in 1 .. n |-> IF R[i].kind = "hunk" THEN Recounted(R, i) ELSE R[i]]
    BY <1>5 DEF RecountHunks
  <2>2. \A i \in 1 .. n : (IF R[i].kind = "hunk" THEN Recounted(R, i) ELSE R[i]) = R[i]
    BY <1>2, <1>4, <1>8
  <2>3. R = [i \in 1 .. n |-> R[i]]
    BY <1>2
  <2> QED
    BY <2>1, <2>2, <2>3
<1>10. EditsAt(R) = EditsAt(L) /\ ChangesOf(R) = ChangesOf(L)
  <2> DEFINE E == {i \in 1 .. n : L[i].kind \in EditKinds}
  <2>1. EditsAt(L) = E
    BY <1>1 DEF EditsAt, EditKinds
  <2>2. E = {i \in 1 .. n : R[i].kind \in EditKinds}
    BY <1>4
  <2>3. EditsAt(R) = E
    BY <1>5, <2>2 DEF EditsAt, EditKinds
  <2>4. E \in SUBSET (1 .. n) /\ \A i \in E : R[i] = L[i]
    BY <1>4 DEF EditKinds
  <2> HIDE DEF E
  <2>5. \A m \in 1 .. Cardinality(E) : Nth(E, m) \in E
    BY <1>1, <2>4, NthOfRank
  <2>6. Picked(R, E) = Picked(L, E)
    BY <2>4, <2>5 DEF Picked
  <2> QED
    BY <2>1, <2>3, <2>6 DEF ChangesOf
<1>11. FilesTouched(R) = FilesTouched(L)
  <2>1. {i \in 1 .. n : R[i].kind = "new"} = {i \in 1 .. n : L[i].kind = "new"}
    BY <1>4
  <2>2. \A i \in 1 .. n : L[i].kind = "new" => R[i] = L[i]
    BY <1>4
  <2> QED
    BY <1>1, <1>5, <2>1, <2>2 DEF FilesTouched
<1>12. \A i \in 1 .. n : OpensSection(R, i) <=> OpensSection(L, i)
  BY <1>1, <1>4, <1>6 DEF OpensSection
<1>13. ASSUME NEW i \in 1 .. n, Repeats(R, i) PROVE Repeats(L, i)
  <2>1. PICK e \in 1 .. (i - 1) : OpensSection(R, e) /\ R[e].path = R[i].path
    BY <1>13 DEF Repeats
  <2>2. e \in 1 .. n
    BY <1>1
  <2>3. OpensSection(L, i) /\ OpensSection(L, e)
    BY <1>12, <1>13, <2>1, <2>2 DEF Repeats
  <2>4. R[i] = L[i] /\ R[e] = L[e]
    BY <1>4, <2>2, <2>3 DEF OpensSection
  <2> QED
    BY <2>1, <2>3, <2>4 DEF Repeats
<1>14. \A i \in 1 .. n : OpensSection(R, i) => R[i] = L[i]
  BY <1>4, <1>12 DEF OpensSection
<1>15. ASSUME OneAfterAnother(L) PROVE OneAfterAnother(R)
  BY <1>1, <1>5, <1>12, <1>14, <1>15 DEF OneAfterAnother
<1>16. \A i \in 1 .. n : FileAt(R, i) = FileAt(L, i)
  <2> SUFFICES ASSUME NEW i \in 1 .. n PROVE FileAt(R, i) = FileAt(L, i)
    OBVIOUS
  <2>0. i \in Nat /\ \A e \in 1 .. i : e \in 1 .. n
    BY <1>1
  <2>1. CASE \A e \in 1 .. i : ~ OpensSection(L, e)
    <3>1. \A e \in 1 .. i : ~ OpensSection(R, e)
      BY <1>12, <2>0, <2>1
    <3>2. FileAt(L, i) = "-" /\ FileAt(R, i) = "-"
      BY <2>0, <2>1, <3>1, FileOfThePlace
    <3> QED
      BY <3>2
  <2>2. ASSUME NEW x \in 1 .. i, OpensSection(L, x) PROVE FileAt(R, i) = FileAt(L, i)
    <3>1. PICK d \in x .. i : /\ OpensSection(L, d) /\ FileAt(L, i) = L[d].path
                              /\ \A k \in 1 .. i : OpensSection(L, k) => k <= d
      BY <2>0, <2>2, FileOfThePlace
    <3>2. OpensSection(R, x)
      BY <1>12, <2>0, <2>2
    <3>3. PICK e \in x .. i : /\ OpensSection(R, e) /\ FileAt(R, i) = R[e].path
                              /\ \A k \in 1 .. i : OpensSection(R, k) => k <= e
      BY <2>0, <3>2, FileOfThePlace
    <3>4. d \in 1 .. i /\ e \in 1 .. i
      BY <2>0
    <3>5. d = e
      BY <1>12, <2>0, <3>1, <3>3, <3>4
    <3> QED
      BY <1>14, <2>0, <3>1, <3>3, <3>4, <3>5
  <2> QED
    BY <2>1, <2>2
<1>17. FilesOf(R) = FilesOf(L)
  <2> DEFINE E == EditsAt(L)
  <2>1. E \in SUBSET (1 .. n)
    BY <1>1 DEF EditsAt
  <2> HIDE DEF E
  <2>2. \A m \in 1 .. Cardinality(E) : Nth(E, m) \in 1 .. n
    BY <1>1, <2>1, NthOfRank
  <2>3. \A m \in 1 .. Cardinality(E) : FileAt(R, Nth(E, m)) = FileAt(L, Nth(E, m))
    BY <1>16, <2>2
  <2>4. /\ FilesOf(R) = [m \in 1 .. Cardinality(E) |-> FileAt(R, Nth(E, m))]
        /\ FilesOf(L) = [m \in 1 .. Cardinality(E) |-> FileAt(L, Nth(E, m))]
    BY <1>10 DEF FilesOf, E
  <2> QED
    BY <2>3, <2>4
<1> QED
  BY <1>4, <1>6, <1>9, <1>10, <1>11, <1>12, <1>13, <1>15, <1>17 DEF SameEdits, R

\* With no later section of a file there is one section of each file, and
\* the merge changes nothing.
LEMMA NothingToMerge ==
  ASSUME NEW S, NEW R \in Seq(S), \A i \in 1 .. Len(R) : ~ Repeats(R, i)
  PROVE  Merged(R) = R /\ \A p : Sections(R, p) <= 1
<1> DEFINE n == Len(R)
<1>1. n \in Nat /\ DOMAIN R = 1 .. n
  BY LenProperties
<1>2. Merged(R) = Picked(R, 1 .. n)
  BY <1>1 DEF Merged
<1>3. SubSeq(R, 1, n) = Picked(R, 1 .. n)
  <2>1. 1 \in 1 .. (n + 1) /\ n \in (1 - 1) .. n
    BY <1>1
  <2> QED
    BY <2>1, PickedPart
<1>4. SubSeq(R, 1, n) = R
  BY SubSeqFull
<1>5. ASSUME NEW p PROVE Sections(R, p) <= 1
  <2> DEFINE X == {i \in 1 .. n : OpensSection(R, i) /\ R[i].path = p}
  <2>1. ASSUME NEW i \in X, NEW j \in X PROVE i = j
    <3>1. \A a, b \in X : a < b => Repeats(R, b)
      <4> SUFFICES ASSUME NEW a \in X, NEW b \in X, a < b PROVE Repeats(R, b)
        OBVIOUS
      <4>1. a \in 1 .. (b - 1)
        BY <1>1
      <4> QED
        BY <4>1 DEF Repeats
    <3>2. \A a, b \in X : ~ (a < b)
      BY <3>1
    <3>3. i \in Nat /\ j \in Nat
      OBVIOUS
    <3> QED
      BY <3>2, <3>3
  <2>2. Sections(R, p) = Cardinality(X)
    BY <1>1 DEF Sections
  <2> HIDE DEF X
  <2>3. CASE X = {}
    BY <2>2, <2>3, FS_EmptySet
  <2>4. CASE X # {}
    <3>1. PICK x : x \in X
      BY <2>4
    <3>2. X = {x}
      BY <2>1, <3>1
    <3>3. Cardinality({x}) = 1
      BY FS_Singleton
    <3> QED
      BY <2>2, <3>2, <3>3
  <2> QED
    BY <2>3, <2>4
<1> QED
  BY <1>2, <1>3, <1>4, <1>5

\* The patch as it grows.
TextInv == text \in Seq(PatchLines) /\ PatchTypeOK /\ Headed(text)

LEMMA TextGrows ==
  ASSUME TextInv, PatchGrows
  PROVE  TextInv'
<1> DEFINE n == Len(text)
<1>1. PICK line \in PatchLines : n < MaxLines /\ Follows(line) /\ text' = Append(text, line)
  BY DEF PatchGrows
<1>2. text \in Seq(PatchLines) /\ PatchTypeOK /\ Headed(text)
  BY DEF TextInv
<1>3. n \in Nat /\ DOMAIN text = 1 .. n
  BY <1>2, LenProperties
<1>4. /\ text' \in Seq(PatchLines) /\ Len(text') = n + 1 /\ text'[n + 1] = line
      /\ \A i \in 1 .. n : text'[i] = text[i]
  BY <1>1, <1>2, AppendProperties
<1>5. DOMAIN text' = 1 .. (n + 1) /\ \A i \in 1 .. (n + 1) : i \in 1 .. n \/ i = n + 1
  BY <1>3, <1>4, LenProperties
<1>6. PatchTypeOK'
  <2>1. Len(text') <= MaxLines
    BY <1>1, <1>3, <1>4, PatchAssumption
  <2>2. \A i \in 1 .. (n + 1) : text'[i] \in PatchLines
    BY <1>2, <1>3, <1>4, <1>5 DEF PatchTypeOK
  <2> QED
    BY <1>5, <2>1, <2>2 DEF PatchTypeOK
<1>7. Headed(text')
  <2> SUFFICES ASSUME NEW i \in 1 .. (n + 1), text'[i].kind = "old", i # n + 1
               PROVE  /\ i + 1 \in 1 .. (n + 1) /\ text'[i + 1].kind = "new"
                      /\ text'[i + 1].path = text'[i].path
    BY <1>4 DEF Headed
  <2>1. i \in 1 .. n /\ text[i].kind = "old" /\ text'[i] = text[i]
    BY <1>4, <1>5
  <2>2. CASE i = n
    <3>1. text # <<>> /\ Last(text) = text[n]
      BY <1>2, <1>3, <2>1 DEF Last
    <3>2. line = NewHeader(text[n].path)
      BY <1>1, <2>1, <2>2, <3>1 DEF Follows
    <3>3. NewHeader(text[n].path).kind = "new" /\ NewHeader(text[n].path).path = text[n].path
      BY DEF NewHeader, Line
    <3>4. i + 1 = n + 1 /\ n + 1 \in 1 .. (n + 1)
      <4>1. n \in Nat => n + 1 \in 1 .. (n + 1)
        OBVIOUS
      <4>2. i + 1 = n + 1
        BY <2>2
      <4> QED
        BY <1>3, <4>1, <4>2
    <3>5. text'[i + 1] = NewHeader(text[n].path) /\ text'[i] = text[n]
      BY <1>4, <2>1, <2>2, <3>2, <3>4
    <3> QED
      BY <3>3, <3>4, <3>5
  <2>3. CASE i # n
    <3>1. i + 1 \in 1 .. n /\ text[i + 1].kind = "new" /\ text[i + 1].path = text[i].path
      BY <1>2, <2>1, <2>3 DEF Headed
    <3>2. text'[i + 1] = text[i + 1] /\ i + 1 \in 1 .. (n + 1)
      BY <1>3, <1>4, <3>1
    <3> QED
      BY <2>1, <3>1, <3>2
  <2> QED
    BY <2>2, <2>3
<1> QED
  BY <1>4, <1>6, <1>7 DEF TextInv

LEMMA PatchInvariant == PatchSpec => []TextInv
<1>1. PatchInit => TextInv
  <2> SUFFICES ASSUME PatchInit PROVE TextInv
    OBVIOUS
  <2>1. text = <<>> /\ Len(text) = 0 /\ DOMAIN text = {} /\ text \in Seq(PatchLines)
    BY DEF PatchInit
  <2>2. 0 <= MaxLines
    BY PatchAssumption
  <2> QED
    BY <2>1, <2>2 DEF TextInv, PatchTypeOK, Headed
<1>2. TextInv /\ [PatchGrows]_text => TextInv'
  <2>1. CASE PatchGrows
    BY <2>1, TextGrows
  <2>2. CASE UNCHANGED text
    BY <2>2 DEF TextInv, PatchTypeOK, Headed
  <2> QED
    BY <2>1, <2>2
<1> QED
  BY <1>1, <1>2, PTL DEF PatchSpec

\* In every run of the patches: the patch stays within its bound, made of lines that a model
\* writes.
THEOREM PatchTypeCorrect == PatchSpec => []PatchTypeOK
<1>1. TextInv => PatchTypeOK
  BY DEF TextInv
<1> QED
  BY <1>1, PatchInvariant, PTL

\* Wherever the model's answer is cut off: normalize_patch loses none of its edits and keeps their
\* order, names the same files, leaves one section for each of them, and recounting and merging
\* the result again changes nothing; and where the sections of one file follow each other, each
\* edit is still made to its file.
THEOREM NormalizingLosesNothing == PatchSpec => []NormalizingIsSafe
<1>1. ASSUME TextInv PROVE NormalizingIsSafe
  <2> DEFINE a == Stripped(text)
             b == Unfenced(a)
             c == Stripped(b)
             d == Merged(c)
             R == RecountHunks(d)
  <2>1. text \in Seq(PatchLines) /\ Headed(text)
    BY <1>1 DEF TextInv
  <2>2. a \in Seq(PatchLines) /\ Headed(a) /\ SameEdits(a, text)
    BY <2>1, StrippedLines
  <2> HIDE DEF a
  <2>3. b \in Seq(PatchLines) /\ Headed(b) /\ SameEdits(b, a)
    BY <2>2, UnfencedLines
  <2> HIDE DEF b
  <2>4. c \in Seq(PatchLines) /\ Headed(c) /\ SameEdits(c, b)
    BY <2>3, StrippedLines
  <2> HIDE DEF c
  <2>5. /\ d \in Seq(PatchLines) /\ SameEdits(d, c)
        /\ \A k \in 1 .. Len(d) : ~ Repeats(d, k)
    BY <2>4, MergedLines
  <2> HIDE DEF d
  <2>6. /\ R \in Seq({R[i] : i \in 1 .. Len(d)}) /\ Len(R) = Len(d)
        /\ SameEdits(R, d) /\ RecountHunks(R) = R
        /\ \A i \in 1 .. Len(d) : Repeats(R, i) => Repeats(d, i)
    BY <2>5, RecountKeeps
  <2> DEFINE T == {R[i] : i \in 1 .. Len(d)}
  <2>7. NormalizePatch(text) = R
    BY DEF NormalizePatch, a, b, c, d
  <2> HIDE DEF R, T
  <2>8. R \in Seq(T) /\ \A i \in 1 .. Len(R) : ~ Repeats(R, i)
    BY <2>5, <2>6 DEF T
  <2>9. Merged(R) = R /\ \A p : Sections(R, p) <= 1
    BY <2>8, NothingToMerge
  <2>10. SameEdits(R, text)
    BY <2>2, <2>3, <2>4, <2>5, <2>6 DEF SameEdits
  <2> QED
    BY <2>6, <2>7, <2>9, <2>10 DEF NormalizingIsSafe, SameEdits
<1> QED
  BY <1>1, PatchInvariant, PTL

-----------------------------------------------------------------------------
(***************************************************************************)
(* Beside each other the services do what each of them does alone.         *)
(***************************************************************************)

\* A step of the services is a step of one of them, or none, for each of the three.
LEMMA ServicesStepAlone ==
  /\ [ServiceNext]_serviceVars => [LifeNext]_lifeVars
  /\ [ServiceNext]_serviceVars => [GpuNext]_gpuVars
  /\ [ServiceNext]_serviceVars => [EvalNext]_evalVars
<1>1. CASE UNCHANGED serviceVars
  BY <1>1 DEF serviceVars
<1>2. CASE ServiceNext
  BY <1>2 DEF ServiceNext, LifecycleStep, GpuStep, CycleStep
<1>3. CASE ~ [ServiceNext]_serviceVars
  BY <1>3
<1> QED
  BY <1>1, <1>2, <1>3

\* In every run of the services: the state of the handlers that steer a run, of the GPU monitor
\* and of the self-evaluation cycle has its type.
THEOREM ServicesTypeCorrect ==
  ServiceSpec => []ServiceTypeOK
<1>1. ServiceInit => LifeInit /\ GpuInit /\ EvalInit
  BY DEF ServiceInit
<1>2. ServiceSpec => LifeSpec /\ GpuSpec /\ EvalSpec
  BY <1>1, ServicesStepAlone, PTL DEF ServiceSpec, LifeSpec, GpuSpec, EvalSpec
<1> QED
  BY <1>2, LifeTypeCorrect, GpuTypeCorrect, EvalTypeCorrect, PTL DEF ServiceTypeOK

-----------------------------------------------------------------------------
(***************************************************************************)
(* So do the components that keep records.                                 *)
(***************************************************************************)

\* The components that move in a step of part p leave the others as they are.
LEMMA RecordsStepAlone ==
  ASSUME [RecordsNext]_recordVars
  PROVE  /\ [ReportNext]_reportVars /\ [DashNext]_dashVars /\ [BenchNext]_benchVars
         /\ [PatchGrows]_text /\ [PairNext]_tally /\ [EvalNext]_evalVars
         /\ [SetupNext]_setupVars /\ [SidecarNext]_sidecarVars /\ [ThreadsNext]_threadVars
         /\ [RegistryNext]_registryVars /\ [GraphNext]_graphVars /\ [MemoryNext]_memoryVars
<1>1. CASE UNCHANGED recordVars
  BY <1>1 DEF recordVars
<1>2. CASE RecordsNext
  <2>1. CASE ReportStep
    BY <2>1 DEF ReportStep, Only
  <2>2. CASE DashboardStep
    BY <2>2 DEF DashboardStep, Only
  <2>3. CASE SessionStep
    BY <2>3 DEF SessionStep, Only
  <2>4. CASE PatchStep
    BY <2>4 DEF PatchStep, Only
  <2>5. CASE PairStep
    BY <2>5 DEF PairStep, Only
  <2>6. CASE EvalStep
    BY <2>6 DEF EvalStep, Only
  <2>7. CASE SetupStep
    BY <2>7 DEF SetupStep, Only
  <2>8. CASE SidecarStep
    BY <2>8 DEF SidecarStep, Only
  <2>9. CASE ThreadStep
    BY <2>9 DEF ThreadStep, Only
  <2>10. CASE RegistryStep
    BY <2>10 DEF RegistryStep, Only
  <2>11. CASE GraphStep
    BY <2>11 DEF GraphStep, Only
  <2>12. CASE MemoryStep
    BY <2>12 DEF MemoryStep, Only
  <2> QED
    BY <1>2, <2>1, <2>2, <2>3, <2>4, <2>5, <2>6, <2>7, <2>8, <2>9, <2>10, <2>11, <2>12
       DEF RecordsNext
<1> QED
  BY <1>1, <1>2

\* A behaviour of the union is a behaviour of every component.
LEMMA EachAlone ==
  RecordsSpec => /\ ReportSpec /\ DashSpec /\ BenchSpec /\ PatchSpec /\ PairSpec /\ EvalSpec
                 /\ SetupSpec /\ SidecarSpec /\ ThreadsSpec /\ RegistrySpec /\ GraphSpec
                 /\ MemorySpec
<1>1. RecordsInit => /\ ReportInit /\ DashInit /\ BenchInit /\ PatchInit /\ PairInit
                     /\ EvalInit /\ SetupInit /\ SidecarInit /\ ThreadsInit /\ RegistryInit
                     /\ GraphInit /\ MemoryInit
  BY DEF RecordsInit
<1>2. [RecordsNext]_recordVars =>
        /\ [ReportNext]_reportVars /\ [DashNext]_dashVars /\ [BenchNext]_benchVars
        /\ [PatchGrows]_text /\ [PairNext]_tally /\ [EvalNext]_evalVars
        /\ [SetupNext]_setupVars /\ [SidecarNext]_sidecarVars /\ [ThreadsNext]_threadVars
        /\ [RegistryNext]_registryVars /\ [GraphNext]_graphVars /\ [MemoryNext]_memoryVars
  BY RecordsStepAlone
<1> QED
  BY <1>1, <1>2, PTL DEF RecordsSpec, ReportSpec, DashSpec, BenchSpec, PatchSpec, PairSpec,
     EvalSpec, SetupSpec, SidecarSpec, ThreadsSpec, RegistrySpec, GraphSpec, MemorySpec

\* In every run of the components that keep records: the state of the one that moves has its
\* type (each of their own theorems, for the twelve at once).
THEOREM RecordsTypeCorrect ==
  RecordsSpec => []RecordsTypeOK
<1>1. RecordsSpec => [](part \in Parts)
  <2>1. RecordsInit => part \in Parts
    BY DEF RecordsInit
  <2>2. part \in Parts /\ [RecordsNext]_recordVars => (part \in Parts)'
    <3>1. RecordsNext => UNCHANGED part
      BY DEF RecordsNext, Only, ReportStep, DashboardStep, SessionStep, PatchStep, PairStep,
             EvalStep, SetupStep, SidecarStep, ThreadStep, RegistryStep, GraphStep, MemoryStep
    <3>2. UNCHANGED recordVars => UNCHANGED part
      BY DEF recordVars
    <3> QED
      BY <3>1, <3>2
  <2> QED
    BY <2>1, <2>2, PTL DEF RecordsSpec
<1>2. ASSUME part \in Parts, ReportTypeOK, DashTypeOK, BenchTypeOK, PatchTypeOK, PairTypeOK,
             EvalTypeOK, SetupTypeOK, SidecarTypeOK, ThreadsTypeOK, RegistryTypeOK,
             GraphTypeOK, MemoryTypeOK
      PROVE  RecordsTypeOK
  BY <1>2 DEF RecordsTypeOK, Parts
<1> QED
  BY <1>1, <1>2, EachAlone, ReportTypeCorrect, DashTypeCorrect, BenchTypeCorrect,
     PatchTypeCorrect, PairsTypeCorrect, EvalTypeCorrect, SetupTypeCorrect, SidecarTypeCorrect,
     ThreadsTypeCorrect, RegistryTypeCorrect, GraphTypeCorrect, MemoryTypeCorrect, PTL

\* In every run of the components that keep records: the diff page shows the workspace, the
\* pages on a run and the tables of the dashboard agree with each other, the patch that is
\* scored has all the model's edits, and the tables of pairs are right.
THEOREM ReportsAreRight ==
  RecordsSpec => []ReportsHold
<1>1. DiffShowsWorkspace /\ ReportsAgree /\ RowsAreLegible /\ DashboardsAgree
        /\ NormalizingIsSafe /\ BenchNumbersHold => ReportsHold
  BY DEF ReportsHold
<1> QED
  BY <1>1, EachAlone, DiffsShowTheWorkspace, ReportsAgreeAlways, DashboardsTellOneStory,
     NormalizingLosesNothing, BenchNumbersAreRight, PTL
=============================================================================
