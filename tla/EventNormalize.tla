--------------------------- MODULE EventNormalize ---------------------------
(***************************************************************************)
(* event_normalize: the projection of an agent-server event onto the row   *)
(* the run page shows, as pure operators.                                  *)
(*                                                                         *)
(* A raw event is abstracted to the fields that carry something:           *)
(* `has` are its truthy fields, `blank` those of them that hold only       *)
(* white space.  A summary is abstracted to the name of the field it is    *)
(* taken from; a summary made of fixed text is a Marker.                   *)
(***************************************************************************)
EXTENDS Naturals, Sequences

CONSTANT Commits      \* event ids the event-commit ledger has a sha for

Marker == "(fixed text)"
Nothing == "(empty)"

Bridged == {"MemoryConsultationEvent", "WebSearchEvent"}
Condensed == {"Condensation", "CondensationSummaryEvent"}
Failed == {"AgentErrorEvent", "ConversationErrorEvent"}

\* _KIND_TO_TYPE: an unknown kind is its own name, in lower case.
TypeOf(kind) ==
  CASE kind = "MessageEvent" -> "message"
    [] kind = "ActionEvent" -> "action"
    [] kind = "ObservationEvent" -> "observation"
    [] kind \in Failed -> "error"
    [] kind \in {"ConversationStateUpdateEvent", "SystemPromptEvent", "LLMCompletionLogEvent",
                 "TokenEvent"} -> "status"
    [] kind = "Condensation" -> "condensation"
    [] kind = "CondensationRequest" -> "condensation_request"
    [] kind = "CondensationSummaryEvent" -> "condensation_summary"
    [] kind = "MemoryConsultationEvent" -> "memory_consultation"
    [] kind = "WebSearchEvent" -> "web_search"
    [] kind = "PauseEvent" -> "run_paused"
    [] kind = "" -> "event"
    [] OTHER -> kind

\* A field that is not empty, with and without its white space.
Text(raw, f) == f \in raw.has /\ f \notin raw.blank
Given(raw, f) == f \in raw.has

\* The first of `fields` that is in the set, `last` when none is.
FirstOf(set, fields, last) ==
  LET hits == {i \in 1..Len(fields) : fields[i] \in set}
  IN  IF hits = {} THEN last
      ELSE fields[CHOOSE i \in hits : \A j \in hits : i <= j]

\* Mutated: white space in the content counts as a message.
MessageSummaryUnstripped(raw) ==
  FirstOf(raw.has, <<"content", "tool_calls", "reasoning_content", "activated_skills">>, Marker)

\* _message_summary with _extract_text_from_content
MessageSummary(raw) ==
  IF Text(raw, "content") THEN "content"
  ELSE IF Given(raw, "tool_calls") THEN "tool_calls"
  ELSE IF Text(raw, "reasoning_content") THEN "reasoning_content"
  ELSE IF Given(raw, "activated_skills") THEN "activated_skills"
  ELSE Marker

\* _serena_op_from_tool_name: the last dotted segment names the tool.
SerenaOp(raw) == raw.tool = "find_symbol"

\* _action_summary: an explicit summary wins, as it is.
ActionSummary(raw) ==
  IF Given(raw, "summary") THEN "summary"
  ELSE IF SerenaOp(raw) THEN Marker
  ELSE FirstOf(raw.has, <<"thought", "command">>, Marker)

\* _observation_summary
ObservationSummary(raw) ==
  IF Given(raw, "summary") THEN "summary"
  ELSE FirstOf(raw.has \ raw.blank, <<"content", "output">>, Marker)

\* _error_summary and _generic_summary
ErrorSummary(raw) == FirstOf(raw.has \ raw.blank, <<"summary", "message", "detail">>, Marker)

GenericSummary(raw) ==
  FirstOf(raw.has \ raw.blank, <<"summary", "message">>, IF raw.kind = "" THEN Nothing ELSE Marker)

\* _memory_consultation_summary and _web_search_summary
BridgedSummary(raw) == IF Given(raw, "summary") THEN "summary" ELSE Marker

\* The three condensation kinds: a fixed line, with the summary when it has one.
CondensedSummary(raw) == FirstOf(raw.has \ raw.blank, <<"summary">>, Marker)

Summary(raw) ==
  CASE raw.kind = "MessageEvent" -> MessageSummary(raw)
    [] raw.kind \in Bridged -> BridgedSummary(raw)
    [] raw.kind \in Condensed -> CondensedSummary(raw)
    [] raw.kind = "CondensationRequest" -> Marker
    [] raw.kind = "ActionEvent" -> ActionSummary(raw)
    [] raw.kind = "ObservationEvent" -> ObservationSummary(raw)
    [] raw.kind \in Failed -> ErrorSummary(raw)
    [] OTHER -> GenericSummary(raw)

\* Not in the code: the row shows nothing.
Blank(raw) ==
  \/ Summary(raw) = Nothing
  \/ Summary(raw) \in raw.blank

\* _extract_security_risk: an unknown value is dropped.
Risk(raw) ==
  IF raw.kind = "ActionEvent" /\ raw.risk \in {"UNKNOWN", "LOW", "MEDIUM", "HIGH"}
  THEN raw.risk ELSE "none"

\* Mutated: every message may carry a sha.
StampAny(raw, lookup) ==
  lookup /\ raw.kind = "MessageEvent" /\ raw.id \in Commits

\* Only a user's message with a row in the ledger, and only for a caller that
\* passes sha_lookup: the relay does not.
Stamp(raw, lookup) ==
  lookup /\ raw.kind = "MessageEvent" /\ raw.source = "user" /\ raw.id \in Commits

\* normalize_event
Normalize(raw, lookup) ==
  [id |-> raw.id,
   type |-> IF raw.kind = "ActionEvent" /\ SerenaOp(raw) THEN "lsp_find_symbol"
            ELSE TypeOf(raw.kind),
   source |-> raw.source,
   summary |-> Summary(raw),
   risk |-> Risk(raw),
   sha |-> Stamp(raw, lookup)]

\* normalize_events: what GET /runs/{id}/events answers.
NormalizeAll(log, lookup) == [i \in 1..Len(log) |-> Normalize(log[i], lookup)]
=============================================================================
