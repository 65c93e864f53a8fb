---------------------------- MODULE RunLifecycle ----------------------------
(***************************************************************************)
(* The lifecycle routes of bff/routers/runs.py: pause, resume, stop,       *)
(* approve, reject and the switch of the model, against one conversation   *)
(* of the agent-server.  The BFF keeps no state of its own here: each      *)
(* handler is a few calls, and the agent and the other handlers act        *)
(* between them.                                                           *)
(*                                                                         *)
(* The agent-server is external.  It is modelled by what the comments of   *)
(* the routes say of it: pause answers while the coroutine of the turn is  *)
(* still unwinding (turn), run answers 409 as long as it does, interrupt   *)
(* answers 400 when the status says there is nothing to cancel, and        *)
(* respond_to_confirmation 409 when nobody waits.                          *)
(***************************************************************************)
EXTENDS Naturals, FiniteSets

CONSTANTS
  Requests,     \* the requests, numbered in the order in which they arrive
  MaxLaps,      \* bound: laps of the resume loop, 20 s at half a second each
  MaxLifeFaults \* bound: calls that fail in transport, statuses that are refused

ASSUME LifeBounds == {MaxLaps, MaxLifeFaults} \subseteq Nat /\ Requests \subseteq Nat

VARIABLES
  convStatus,  \* execution_status, or "gone" once it is deleted
  turn,        \* the coroutine of a turn is alive
  llm,         \* the model of the conversation
  req,         \* per request: kind, pc, laps, routed model, answer
  disturbed,   \* history: per request, a call of another one has started the
               \* agent since it arrived
  lifeFaults   \* calls that have failed so far

conv     == <<convStatus, turn, llm>>
lifeVars == <<convStatus, turn, llm, req, disturbed, lifeFaults>>

Kinds   == {"pause", "resume", "stop", "approve", "reject", "switch"}
AtRest  == {"idle", "paused", "finished", "error"}
Models  == {"first", "preset", "substitute"}
Answers == {"none", "ok", "404", "409", "502", "503", "400 as 502", "ok unread"}

NoRequest == [kind |-> "none", pc |-> "idle", laps |-> 0, model |-> "first", answer |-> "none"]

\* The requests meet the conversation in any state it can be in: before its
\* first turn, in one, asked, at rest, or paused with the turn unwinding.
LifeInit ==
  /\ convStatus \in AtRest \cup {"running", "waiting_for_confirmation"}
  /\ turn \in BOOLEAN /\ llm = "first"
  /\ turn => convStatus \in {"running", "paused"}
  /\ convStatus = "running" => turn
  /\ req = [q \in Requests |-> NoRequest]
  /\ disturbed = [q \in Requests |-> FALSE]
  /\ lifeFaults = 0

----------------------------------------------------------------------------
(* The agent.                                                              *)

\* A turn ends: the agent is done, fails, or asks before a tool call.
AgentTurnEnds ==
  /\ convStatus = "running" /\ turn
  /\ convStatus' \in {"finished", "error", "waiting_for_confirmation"}
  /\ turn' = FALSE
  /\ UNCHANGED <<llm, req, disturbed, lifeFaults>>

\* The coroutine of a paused turn has come to its end.
Unwind ==
  /\ convStatus = "paused" /\ turn
  /\ turn' = FALSE
  /\ UNCHANGED <<convStatus, llm, req, disturbed, lifeFaults>>

ConversationDeleted ==
  /\ convStatus \notin {"gone", "running"}
  /\ convStatus' = "gone" /\ turn' = FALSE
  /\ UNCHANGED <<llm, req, disturbed, lifeFaults>>

----------------------------------------------------------------------------
(* One call of the agent-server: it is delivered and answered, or not, and *)
(* then it may have been delivered all the same.                           *)

AtCall(q, kinds, pc) == req[q].kind \in kinds /\ req[q].pc = pc

Answer(q, a) == req' = [req EXCEPT ![q].pc = "done", ![q].answer = a]
Proceed(q, pc) == req' = [req EXCEPT ![q].pc = pc]

\* client.get or client.post raises, or the answer is an error of the agent-server.
CallFails == lifeFaults < MaxLifeFaults /\ lifeFaults' = lifeFaults + 1
CallIsAnswered == UNCHANGED lifeFaults

Gone == convStatus = "gone"

Starts(q) ==
  /\ convStatus' = "running" /\ turn' = TRUE /\ UNCHANGED llm
  /\ disturbed' = [r \in Requests |->
       disturbed[r] \/ (r # q /\ req[r].pc # "idle")]

NothingDone == UNCHANGED <<conv, disturbed>>

Pause ==
  /\ convStatus' = IF convStatus = "running" THEN "paused" ELSE convStatus
  /\ UNCHANGED <<turn, llm, disturbed>>

\* POST /run: accepted when no coroutine is alive and nobody is asked.
RunAccepted == ~turn /\ convStatus \in AtRest

Interrupt ==
  /\ convStatus \in {"running", "waiting_for_confirmation"}
  /\ convStatus' = "paused" /\ turn' = FALSE
  /\ UNCHANGED <<llm, disturbed>>

Asked == convStatus = "waiting_for_confirmation"

Decline == convStatus' = "idle" /\ UNCHANGED <<turn, llm, disturbed>>

Switch(q) == llm' = req[q].model /\ UNCHANGED <<convStatus, turn, disturbed>>

\* What the call of request q does to the conversation when it is accepted.
Effect(q) ==
  \/ AtCall(q, {"pause"}, "call") /\ Pause
  \/ AtCall(q, {"resume"}, "call") /\ RunAccepted /\ Starts(q)
  \/ AtCall(q, {"stop"}, "interrupt") /\ Interrupt
  \/ AtCall(q, {"approve"}, "call") /\ Asked /\ Starts(q)
  \/ AtCall(q, {"reject"}, "call") /\ Asked /\ Decline
  \/ AtCall(q, {"switch"}, "call") /\ ~Gone /\ Switch(q)

ReqArrives(q, k) ==
  /\ req[q].pc = "idle"
  /\ \A r \in Requests : r < q => req[r].pc # "idle"
  /\ req' = [req EXCEPT ![q] = [@ EXCEPT !.kind = k,
       !.pc = IF k = "stop" THEN "status" ELSE IF k = "switch" THEN "route" ELSE "call"]]
  /\ UNCHANGED <<conv, disturbed, lifeFaults>>

\* The second call of reject_run, whose outcome only makes a note.
NoteOnly(q) == AtCall(q, {"reject"}, "interrupt")

\* 502: the call was not delivered, or its answer was lost.
CallRaises(q) ==
  /\ req[q].pc \in {"call", "status", "interrupt"} /\ ~NoteOnly(q)
  /\ CallFails
  /\ NothingDone \/ Effect(q)
  /\ Answer(q, "502")

NotFound(q) ==
  /\ req[q].pc \in {"call", "status", "interrupt"} /\ ~NoteOnly(q)
  /\ Gone
  /\ Answer(q, "404")
  /\ NothingDone /\ CallIsAnswered

----------------------------------------------------------------------------
PauseRun(q) ==
  /\ AtCall(q, {"pause"}, "call") /\ ~Gone
  /\ Pause
  /\ Answer(q, "ok") /\ CallIsAnswered

ResumeAccepted(q) ==
  /\ AtCall(q, {"resume"}, "call") /\ RunAccepted
  /\ Starts(q)
  /\ Answer(q, "ok") /\ CallIsAnswered

\* Mutated: the 409 is taken for success.
ResumeRefusedOk(q) ==
  /\ AtCall(q, {"resume"}, "call") /\ ~Gone /\ ~RunAccepted
  /\ Answer(q, "ok")
  /\ NothingDone /\ CallIsAnswered

\* Mutated: the deadline is forgotten.
ResumeRefusedForever(q) ==
  /\ AtCall(q, {"resume"}, "call") /\ ~Gone /\ ~RunAccepted
  /\ Proceed(q, "poll")
  /\ NothingDone /\ CallIsAnswered

\* 409: give up after the deadline, or sleep and look at the status.
ResumeRefused(q) ==
  /\ AtCall(q, {"resume"}, "call") /\ ~Gone /\ ~RunAccepted
  /\ \/ Answer(q, "409")
     \/ /\ req[q].laps < MaxLaps
        /\ req' = [req EXCEPT ![q].laps = @ + 1, ![q].pc = "poll"]
  /\ NothingDone /\ CallIsAnswered

\* GET of the status, whose answer and whose failure are both followed by
\* the next POST /run.
ResumePolls(q) ==
  /\ AtCall(q, {"resume"}, "poll")
  /\ Proceed(q, "call")
  /\ NothingDone
  /\ CallFails \/ CallIsAnswered

----------------------------------------------------------------------------
\* Mutated: a run that waits for a confirmation counts as stopped.
InterruptibleRunning == {"running"}

Interruptible == {"running", "waiting_for_confirmation"}

\* stop_run first reads the status; an answer of 400 and more, but 404, gives it none,
\* and it answers "stopped" with the note "already terminal: None" ...
StopReads(q) ==
  /\ AtCall(q, {"stop"}, "status") /\ ~Gone
  /\ \/ /\ IF convStatus \in Interruptible THEN Proceed(q, "interrupt") ELSE Answer(q, "ok")
        /\ CallIsAnswered
     \/ Answer(q, "ok unread") /\ CallFails
  /\ NothingDone

\* ... and interrupts.  Nothing may be left to cancel by now: the 400 is
\* reported as 502.
StopInterrupts(q) ==
  /\ AtCall(q, {"stop"}, "interrupt") /\ ~Gone
  /\ \/ Interrupt /\ Answer(q, "ok")
     \/ convStatus \in AtRest /\ NothingDone /\ Answer(q, "400 as 502")
  /\ CallIsAnswered

----------------------------------------------------------------------------
ApproveRun(q) ==
  /\ AtCall(q, {"approve"}, "call") /\ Asked
  /\ Starts(q)
  /\ Answer(q, "ok") /\ CallIsAnswered

\* Declined, the conversation is idle; then it is interrupted all the same.
RejectRun(q) ==
  /\ AtCall(q, {"reject"}, "call") /\ Asked
  /\ Decline
  /\ Proceed(q, "interrupt") /\ CallIsAnswered

NobodyAsked(q) ==
  /\ AtCall(q, {"approve", "reject"}, "call") /\ ~Asked /\ ~Gone
  /\ Answer(q, "409")
  /\ NothingDone /\ CallIsAnswered

\* Every outcome of the second call is a note in the answer.
RejectInterrupts(q) ==
  /\ AtCall(q, {"reject"}, "interrupt")
  /\ \/ Interrupt /\ (CallIsAnswered \/ CallFails)
     \/ convStatus \in AtRest \cup {"gone"} /\ NothingDone /\ CallIsAnswered
     \/ NothingDone /\ CallFails
  /\ Answer(q, "ok")

----------------------------------------------------------------------------
\* The router resolves the preset's role: to the preset's model, to the
\* resident one of the role, or not at all.
SwitchRoutes(q) ==
  /\ AtCall(q, {"switch"}, "route")
  /\ \/ \E m \in {"preset", "substitute"} :
          req' = [req EXCEPT ![q].model = m, ![q].pc = "call"]
     \/ Answer(q, "503")
  /\ NothingDone /\ CallIsAnswered

SwitchLlm(q) ==
  /\ AtCall(q, {"switch"}, "call") /\ ~Gone
  /\ Switch(q)
  /\ Answer(q, "ok") /\ CallIsAnswered

----------------------------------------------------------------------------
Handle(q) ==
  \/ NotFound(q)
  \/ PauseRun(q) \/ ResumeAccepted(q) \/ ResumeRefused(q) \/ ResumePolls(q)
  \/ StopReads(q) \/ StopInterrupts(q)
  \/ ApproveRun(q) \/ RejectRun(q) \/ NobodyAsked(q) \/ RejectInterrupts(q)
  \/ SwitchRoutes(q) \/ SwitchLlm(q)

LifeNext ==
  \/ \E q \in Requests :
       Handle(q) \/ CallRaises(q) \/ \E k \in Kinds : ReqArrives(q, k)
  \/ AgentTurnEnds \/ Unwind \/ ConversationDeleted

LifeSpec == LifeInit /\ [][LifeNext]_lifeVars

\* The event loop runs each handler; every call ends, by answer or timeout.
LifeFair == \A q \in Requests : WF_lifeVars(Handle(q))

----------------------------------------------------------------------------
LifeTypeOK ==
  /\ convStatus \in AtRest \cup {"running", "waiting_for_confirmation", "gone"}
  /\ turn \in BOOLEAN
  /\ llm \in Models
  /\ req \in [Requests ->
       [kind : Kinds \cup {"none"}, laps : 0 .. MaxLaps, model : Models, answer : Answers,
        pc : {"idle", "call", "status", "interrupt", "poll", "route", "done"}]]
  /\ disturbed \in [Requests -> BOOLEAN]
  /\ lifeFaults \in 0 .. MaxLifeFaults

(* A stop that is answered, with ok or with the error of an interrupt that *)
(* came too late, and a reject that is answered ok leave the run at rest   *)
(* until some other request starts it.  A stop that could not read the     *)
(* status has no such claim: its answer is ok too, but names no status.    *)
StopLeavesAtRest ==
  \A q \in Requests :
    (/\ \/ req[q].kind = "stop" /\ req[q].answer \in {"ok", "400 as 502"}
        \/ req[q].kind = "reject" /\ req[q].answer = "ok"
     /\ ~disturbed[q])
      => convStatus \in AtRest \cup {"gone"}

(* Whoever is told that the run was resumed or approved has started it, in *)
(* that very step: no 409 and no other request's start is taken for it.    *)
OkMeansStarted ==
  [][\A q \in Requests :
       (req[q].kind \in {"resume", "approve"} /\ req[q].answer = "none" /\ req'[q].answer = "ok")
         => convStatus # "running" /\ convStatus' = "running"]_lifeVars

(* The resume loop ends, and every other handler: each request is answered,*)
(* however long the turn takes to unwind.                                  *)
RequestAnswered ==
  \A q \in Requests : req[q].pc # "idle" ~> req[q].pc = "done"

----------------------------------------------------------------------------
(* The answer of a resume that gave up: "Use Stop (interrupt) to cancel    *)
(* it, then Resume."  A stop that answers ok after it has cancelled the    *)
(* turn.                                                                   *)
StopCancelsTurn ==
  [][\A q, r \in Requests :
       (/\ req[r].kind = "resume" /\ req[r].answer = "409"
        /\ req[q].kind = "stop" /\ req[q].answer = "none" /\ req'[q].answer = "ok")
         => ~turn']_lifeVars
============================================================================
