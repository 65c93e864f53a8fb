---------------------------- MODULE Services_proofs ----------------------------
(***************************************************************************)
(* Proofs about the services of the BFF that share no state, one after the *)
(* other, each for every value of its constants. RunLifecycle: a stop or a *)
(* reject that is answered leaves the run at rest until some other request *)
(* starts it, and who is told that the run goes on has started it.         *)
(* RunSetup: a created run asks as it was told to. MemoryStore: what the   *)
(* semantic lane names is whole and what is dropped is remembered.         *)
(* GpuMonitor: the hook blocks for a hot card and for nothing else.        *)
(***************************************************************************)
EXTENDS RunLifecycle, RunSetup, MemoryStore, GpuMonitor, SequenceTheorems, FiniteSetTheorems,
        TLAPS

Resting == convStatus \in AtRest \cup {"gone"}

\* A request is answered once, at its end.
AnsweredIsDone == \A q \in Requests : req[q].answer # "none" => req[q].pc = "done"

\* Between the two calls of a reject nobody is asked any more, and only another request
\* starts the agent.
RejectIsMidway ==
  \A q \in Requests : (AtCall(q, {"reject"}, "interrupt") /\ ~disturbed[q]) => Resting

LifeInv == LifeTypeOK /\ AnsweredIsDone /\ RejectIsMidway /\ StopLeavesAtRest

Request ==
  [kind : Kinds \cup {"none"}, laps : 0 .. MaxLaps, model : Models, answer : Answers,
   pc : {"idle", "call", "status", "interrupt", "poll", "route", "done"}]

\* The step of one request leaves the others where they are; what it does to the agent is
\* rest, nothing, or a start that disturbs all the others that have arrived.
StepOfRequest(q) ==
  /\ req' \in [Requests -> Request]
  /\ \A r \in Requests : r # q => req'[r] = req[r]
  /\ \/ disturbed' = disturbed /\ (convStatus' = convStatus \/ Resting')
     \/ \A r \in Requests : disturbed'[r] = (disturbed[r] \/ (r # q /\ req[r].pc # "idle"))

\* Such a step keeps the facts about a request that it leaves alone.
LEMMA OthersRest ==
  ASSUME LifeInv, NEW q \in Requests, StepOfRequest(q), NEW r \in Requests, r # q
  PROVE  /\ req'[r].answer # "none" => req'[r].pc = "done"
         /\ (AtCall(r, {"reject"}, "interrupt")' /\ ~disturbed'[r]) => Resting'
         /\ (/\ \/ req'[r].kind = "stop" /\ req'[r].answer \in {"ok", "400 as 502"}
                \/ req'[r].kind = "reject" /\ req'[r].answer = "ok"
             /\ ~disturbed'[r])
               => Resting'
<1>1. req'[r] = req[r] /\ (req[r].answer # "none" => req[r].pc = "done")
  BY DEF StepOfRequest, LifeInv, AnsweredIsDone
<1>2. /\ (AtCall(r, {"reject"}, "interrupt") /\ ~disturbed[r]) => Resting
      /\ (/\ \/ req[r].kind = "stop" /\ req[r].answer \in {"ok", "400 as 502"}
             \/ req[r].kind = "reject" /\ req[r].answer = "ok"
          /\ ~disturbed[r])
            => Resting
  BY DEF LifeInv, RejectIsMidway, StopLeavesAtRest, Resting
<1>3. CASE disturbed' = disturbed /\ (convStatus' = convStatus \/ Resting')
  BY <1>1, <1>2, <1>3 DEF Resting, AtCall
<1>4. CASE \A s \in Requests : disturbed'[s] = (disturbed[s] \/ (s # q /\ req[s].pc # "idle"))
  BY <1>1, <1>4 DEF AtCall
<1> QED
  BY <1>1, <1>3, <1>4 DEF StepOfRequest

\* What a call can do to the conversation.
LEMMA EffectsAre ==
  ASSUME LifeTypeOK, NEW q \in Requests,
         Pause \/ Starts(q) \/ Interrupt \/ Decline \/ Switch(q) \/ NothingDone
  PROVE  /\ convStatus' \in AtRest \cup {"running", "waiting_for_confirmation", "gone"}
         /\ turn' \in BOOLEAN /\ llm' \in Models /\ disturbed' \in [Requests -> BOOLEAN]
         /\ \/ disturbed' = disturbed /\ (convStatus' = convStatus \/ Resting')
            \/ \A r \in Requests : disturbed'[r] = (disturbed[r] \/ (r # q /\ req[r].pc # "idle"))
<1>1. req[q].model \in Models
  BY DEF LifeTypeOK
<1>2. CASE Starts(q)
  <2>1. \A r \in Requests : disturbed'[r] = (disturbed[r] \/ (r # q /\ req[r].pc # "idle"))
    BY <1>2 DEF Starts
  <2>2. disturbed' \in [Requests -> BOOLEAN]
    BY <1>2, Zenon DEF Starts, LifeTypeOK
  <2> QED
    BY <1>2, <2>1, <2>2 DEF Starts, LifeTypeOK
<1>3. CASE ~Starts(q)
  <2>1. disturbed' = disturbed /\ (convStatus' = convStatus \/ Resting')
    BY <1>3 DEF Pause, Interrupt, Decline, Switch, NothingDone, conv, Resting, AtRest
  <2>2. /\ convStatus' \in AtRest \cup {"running", "waiting_for_confirmation", "gone"}
        /\ turn' \in BOOLEAN /\ llm' \in Models
    BY <1>1, <1>3 DEF Pause, Interrupt, Decline, Switch, NothingDone, conv, AtRest, LifeTypeOK
  <2> QED
    BY <2>1, <2>2 DEF LifeTypeOK
<1> QED
  BY <1>2, <1>3

\* What an answer does to the requests.
LEMMA AnswerIs ==
  ASSUME LifeTypeOK, NEW q \in Requests, NEW a \in Answers, Answer(q, a)
  PROVE  /\ req' \in [Requests -> Request]
         /\ \A r \in Requests : r # q => req'[r] = req[r]
         /\ req'[q].pc = "done" /\ req'[q].answer = a /\ req'[q].kind = req[q].kind
<1>1. req \in [Requests -> Request]
  BY DEF LifeTypeOK, Request
<1> QED
  BY <1>1 DEF Answer, Request

\* What going on to the next call does to them.
LEMMA ProceedIs ==
  ASSUME LifeTypeOK, NEW q \in Requests,
         NEW pc \in {"call", "status", "interrupt", "poll", "route"}, Proceed(q, pc)
  PROVE  /\ req' \in [Requests -> Request]
         /\ \A r \in Requests : r # q => req'[r] = req[r]
         /\ req'[q].pc = pc /\ req'[q].answer = req[q].answer /\ req'[q].kind = req[q].kind
<1>1. req \in [Requests -> Request]
  BY DEF LifeTypeOK, Request
<1> QED
  BY <1>1 DEF Proceed, Request

\* The requests change at q alone, and the conversation as one call can change it.
Called(q) ==
  /\ req' \in [Requests -> Request]
  /\ \A r \in Requests : r # q => req'[r] = req[r]
  /\ Pause \/ Starts(q) \/ Interrupt \/ Decline \/ Switch(q) \/ NothingDone
  /\ lifeFaults' \in 0 .. MaxLifeFaults

\* Such a step keeps the invariant, when what it makes of its own request is right.
LEMMA CallKeeps ==
  ASSUME LifeInv, NEW q \in Requests, Called(q),
         req'[q].answer # "none" => req'[q].pc = "done",
         AtCall(q, {"reject"}, "interrupt")' => Resting',
         (\/ req'[q].kind = "stop" /\ req'[q].answer \in {"ok", "400 as 502"}
          \/ req'[q].kind = "reject" /\ req'[q].answer = "ok")
           => disturbed'[q] \/ Resting'
  PROVE  LifeInv'
<1>1. LifeTypeOK
  BY DEF LifeInv
<1>2. /\ convStatus' \in AtRest \cup {"running", "waiting_for_confirmation", "gone"}
      /\ turn' \in BOOLEAN /\ llm' \in Models /\ disturbed' \in [Requests -> BOOLEAN]
      /\ \/ disturbed' = disturbed /\ (convStatus' = convStatus \/ Resting')
         \/ \A r \in Requests : disturbed'[r] = (disturbed[r] \/ (r # q /\ req[r].pc # "idle"))
  BY <1>1, EffectsAre DEF Called
<1>3. LifeTypeOK'
  BY <1>2 DEF LifeTypeOK, Called, Request
<1>4. StepOfRequest(q)
  BY <1>2 DEF StepOfRequest, Called
<1>5. AnsweredIsDone'
  BY <1>4, OthersRest DEF AnsweredIsDone
<1>6. RejectIsMidway'
  BY <1>4, OthersRest DEF RejectIsMidway
<1>7. StopLeavesAtRest'
  <2> SUFFICES ASSUME NEW r \in Requests,
                      \/ req'[r].kind = "stop" /\ req'[r].answer \in {"ok", "400 as 502"}
                      \/ req'[r].kind = "reject" /\ req'[r].answer = "ok",
                      ~disturbed'[r]
               PROVE  Resting'
    BY DEF StopLeavesAtRest, Resting
  <2> QED
    BY <1>4, OthersRest
<1> QED
  BY <1>3, <1>5, <1>6, <1>7 DEF LifeInv

\* A call that fails counts, and only so often.
LEMMA CallsCount ==
  ASSUME LifeTypeOK, CallFails \/ CallIsAnswered
  PROVE  lifeFaults' \in 0 .. MaxLifeFaults
  BY LifeBounds DEF LifeTypeOK, CallFails, CallIsAnswered

\* The kind and the place of a request that calls are not changed by anybody else.
LEMMA ArrivalKeeps ==
  ASSUME LifeInv, NEW q \in Requests, NEW k \in Kinds, ReqArrives(q, k)
  PROVE  LifeInv'
<1> DEFINE pc == IF k = "stop" THEN "status" ELSE IF k = "switch" THEN "route" ELSE "call"
<1>1. LifeTypeOK /\ req[q] \in Request /\ req \in [Requests -> Request] /\ req[q].answer = "none"
  BY DEF LifeInv, AnsweredIsDone, ReqArrives, LifeTypeOK, Request
<1>2. [req[q] EXCEPT !.kind = k, !.pc = pc] \in Request
      /\ [req[q] EXCEPT !.kind = k, !.pc = pc].answer = "none"
      /\ [req[q] EXCEPT !.kind = k, !.pc = pc].pc = pc
  BY <1>1 DEF Request
<1>3. req' = [req EXCEPT ![q] = [req[q] EXCEPT !.kind = k, !.pc = pc]] /\ NothingDone
      /\ lifeFaults' = lifeFaults
  BY DEF ReqArrives, NothingDone
<1>4. pc \in {"status", "route", "call"}
  OBVIOUS
<1>5. /\ req' \in [Requests -> Request]
      /\ \A r \in Requests : r # q => req'[r] = req[r]
      /\ req'[q].pc = pc /\ req'[q].answer = "none"
  BY <1>1, <1>2, <1>3
<1>6. Called(q)
  BY <1>1, <1>3, <1>5 DEF Called, LifeTypeOK
<1> HIDE DEF pc
<1> QED
  BY <1>4, <1>5, <1>6, CallKeeps DEF AtCall

\* A call whose answer is an error, or that nobody answers, claims nothing.
LEMMA ErrorsKeep ==
  ASSUME LifeInv, NEW q \in Requests, CallRaises(q) \/ NotFound(q) \/ NobodyAsked(q)
  PROVE  LifeInv'
<1>1. LifeTypeOK /\ lifeFaults' \in 0 .. MaxLifeFaults
  BY CallsCount DEF LifeInv, CallRaises, NotFound, NobodyAsked
<1>2. PICK a \in {"502", "404", "409"} : Answer(q, a)
  BY DEF CallRaises, NotFound, NobodyAsked
<1>3. /\ req' \in [Requests -> Request]
      /\ \A r \in Requests : r # q => req'[r] = req[r]
      /\ req'[q].pc = "done" /\ req'[q].answer = a
  BY <1>1, <1>2, AnswerIs DEF Answers
<1>4. Pause \/ Starts(q) \/ Interrupt \/ Decline \/ Switch(q) \/ NothingDone
  BY DEF CallRaises, NotFound, NobodyAsked, Effect
<1> QED
  BY <1>1, <1>3, <1>4, CallKeeps DEF Called, AtCall

\* A pause, a start or a switch that is answered.
LEMMA OthersAnswered ==
  ASSUME LifeInv, NEW q \in Requests,
         \/ PauseRun(q) \/ ResumeAccepted(q) \/ ApproveRun(q) \/ SwitchLlm(q)
  PROVE  LifeInv'
<1>1. LifeTypeOK /\ lifeFaults' \in 0 .. MaxLifeFaults
  BY CallsCount DEF LifeInv, PauseRun, ResumeAccepted, ApproveRun, SwitchLlm
<1>2. Answer(q, "ok") /\ req[q].kind \notin {"stop", "reject"}
  BY DEF PauseRun, ResumeAccepted, ApproveRun, SwitchLlm, AtCall
<1>3. /\ req' \in [Requests -> Request]
      /\ \A r \in Requests : r # q => req'[r] = req[r]
      /\ req'[q].pc = "done" /\ req'[q].kind = req[q].kind
  BY <1>1, <1>2, AnswerIs DEF Answers
<1>4. Pause \/ Starts(q) \/ Switch(q)
  BY DEF PauseRun, ResumeAccepted, ApproveRun, SwitchLlm
<1> QED
  BY <1>1, <1>2, <1>3, <1>4, CallKeeps DEF Called, AtCall

\* The resume loop and the choice of the model.
LEMMA WaitsKeep ==
  ASSUME LifeInv, NEW q \in Requests, ResumeRefused(q) \/ ResumePolls(q) \/ SwitchRoutes(q)
  PROVE  LifeInv'
<1>1. LifeTypeOK /\ lifeFaults' \in 0 .. MaxLifeFaults /\ req \in [Requests -> Request]
      /\ req[q] \in Request
  BY CallsCount DEF LifeInv, ResumeRefused, ResumePolls, SwitchRoutes, LifeTypeOK, Request
<1>2. NothingDone /\ req[q].kind \in {"resume", "switch"} /\ req[q].answer = "none"
  BY DEF LifeInv, AnsweredIsDone, ResumeRefused, ResumePolls, SwitchRoutes, AtCall
<1>3. /\ req' \in [Requests -> Request]
      /\ \A r \in Requests : r # q => req'[r] = req[r]
      /\ req'[q].kind = req[q].kind /\ (req'[q].answer = "none" \/ req'[q].pc = "done")
  <2>1. CASE \E a \in {"409", "503"} : Answer(q, a)
    <3>1. PICK a \in {"409", "503"} : Answer(q, a)
      BY <2>1
    <3>2. a \in Answers
      BY DEF Answers
    <3> QED
      BY <1>1, <3>1, <3>2, AnswerIs
  <2>2. CASE Proceed(q, "call")
    BY <1>1, <1>2, <2>2, ProceedIs
  <2>3. CASE req[q].laps < MaxLaps
             /\ req' = [req EXCEPT ![q].laps = req[q].laps + 1, ![q].pc = "poll"]
    <3>1. req[q].laps + 1 \in 0 .. MaxLaps
      BY <1>1, <2>3, LifeBounds DEF Request
    <3> QED
      BY <1>1, <1>2, <2>3, <3>1 DEF Request
  <2>4. CASE \E m \in {"preset", "substitute"} :
               req' = [req EXCEPT ![q].model = m, ![q].pc = "call"]
    <3>1. PICK m \in Models : req' = [req EXCEPT ![q].model = m, ![q].pc = "call"]
      BY <2>4 DEF Models
    <3> QED
      BY <1>1, <1>2, <3>1 DEF Request
  <2> QED
    BY <2>1, <2>2, <2>3, <2>4 DEF ResumeRefused, ResumePolls, SwitchRoutes
<1> QED
  BY <1>1, <1>2, <1>3, CallKeeps DEF Called, AtCall

\* A stop that answers has found the run at rest, or has put it there, or knows no status.
LEMMA StopKeeps ==
  ASSUME LifeInv, NEW q \in Requests, StopReads(q) \/ StopInterrupts(q)
  PROVE  LifeInv'
<1>1. LifeTypeOK /\ lifeFaults' \in 0 .. MaxLifeFaults
  BY CallsCount DEF LifeInv, StopReads, StopInterrupts
<1>2. req[q].kind = "stop" /\ req[q].answer = "none" /\ ~Gone
  BY DEF LifeInv, AnsweredIsDone, StopReads, StopInterrupts, AtCall
<1>3. \/ Proceed(q, "interrupt") /\ NothingDone
      \/ /\ \E a \in {"ok", "400 as 502"} : Answer(q, a)
         /\ NothingDone \/ Interrupt
         /\ Resting'
      \/ Answer(q, "ok unread") /\ NothingDone
  <2>1. CASE StopReads(q)
    <3>1. NothingDone
      BY <2>1 DEF StopReads
    <3>2. CASE convStatus \notin Interruptible /\ Answer(q, "ok")
      BY <1>1, <1>2, <3>1, <3>2
         DEF NothingDone, conv, Gone, Interruptible, Resting, AtRest, LifeTypeOK
    <3> QED
      BY <2>1, <3>1, <3>2 DEF StopReads
  <2>2. CASE StopInterrupts(q)
    BY <2>2 DEF StopInterrupts, NothingDone, conv, Interrupt, Resting, AtRest
  <2> QED
    BY <2>1, <2>2
<1>4. /\ req' \in [Requests -> Request]
      /\ \A r \in Requests : r # q => req'[r] = req[r]
      /\ req'[q].kind = "stop"
      /\ \/ req'[q].answer = "none"
         \/ req'[q].pc = "done" /\ (Resting' \/ req'[q].answer = "ok unread")
  <2>1. CASE Proceed(q, "interrupt")
    BY <1>1, <1>2, <2>1, ProceedIs
  <2>3. CASE Answer(q, "ok unread")
    BY <1>1, <1>2, <2>3, AnswerIs DEF Answers
  <2>2. CASE Resting' /\ \E a \in {"ok", "400 as 502"} : Answer(q, a)
    BY <1>1, <1>2, <2>2, AnswerIs DEF Answers
  <2> QED
    BY <1>3, <2>1, <2>2, <2>3
<1> QED
  BY <1>1, <1>3, <1>4, CallKeeps DEF Called, AtCall

\* A reject declines first, and what it interrupts then is the start of somebody else.
LEMMA RejectKeeps ==
  ASSUME LifeInv, NEW q \in Requests, RejectRun(q) \/ RejectInterrupts(q)
  PROVE  LifeInv'
<1>1. LifeTypeOK /\ lifeFaults' \in 0 .. MaxLifeFaults
  BY CallsCount DEF LifeInv, RejectRun, RejectInterrupts
<1>2. req[q].kind = "reject" /\ req[q].answer = "none"
  BY DEF LifeInv, AnsweredIsDone, RejectRun, RejectInterrupts, AtCall
<1>3. CASE RejectRun(q)
  <2>1. Decline /\ Resting' /\ Proceed(q, "interrupt")
    BY <1>3 DEF RejectRun, Decline, Resting, AtRest
  <2>2. /\ req' \in [Requests -> Request]
        /\ \A r \in Requests : r # q => req'[r] = req[r]
        /\ req'[q].answer = "none"
    BY <1>1, <1>2, <2>1, ProceedIs
  <2> QED
    BY <1>1, <2>1, <2>2, CallKeeps DEF Called
<1>4. CASE RejectInterrupts(q)
  <2>1. /\ req' \in [Requests -> Request]
        /\ \A r \in Requests : r # q => req'[r] = req[r]
        /\ req'[q].pc = "done"
    BY <1>1, <1>4, AnswerIs DEF Answers, RejectInterrupts
  <2>2. NothingDone \/ Interrupt
    BY <1>4 DEF RejectInterrupts
  <2>3. disturbed'[q] \/ Resting'
    <3>1. CASE Interrupt
      BY <3>1 DEF Interrupt, Resting, AtRest
    <3>2. CASE NothingDone
      <4>1. disturbed[q] \/ Resting
        BY <1>4 DEF RejectInterrupts, LifeInv, RejectIsMidway
      <4> QED
        BY <3>2, <4>1 DEF NothingDone, conv, Resting
    <3> QED
      BY <2>2, <3>1, <3>2
  <2> QED
    BY <1>1, <2>1, <2>2, <2>3, CallKeeps DEF Called, AtCall
<1> QED
  BY <1>3, <1>4

\* The agent comes to rest or asks, but not from rest; a deleted conversation rests.
LEMMA AgentKeeps ==
  ASSUME LifeInv, AgentTurnEnds \/ Unwind \/ ConversationDeleted
  PROVE  LifeInv'
<1>1. /\ UNCHANGED <<llm, req, disturbed, lifeFaults>>
      /\ convStatus' \in AtRest \cup {"running", "waiting_for_confirmation", "gone"}
      /\ turn' = FALSE
      /\ Resting => Resting'
  BY DEF LifeInv, LifeTypeOK, AgentTurnEnds, Unwind, ConversationDeleted, Resting, AtRest
<1>2. LifeTypeOK'
  BY <1>1 DEF LifeInv, LifeTypeOK
<1>3. AnsweredIsDone'
  BY <1>1 DEF LifeInv, AnsweredIsDone
<1>4. RejectIsMidway'
  BY <1>1 DEF LifeInv, RejectIsMidway, AtCall
<1>5. StopLeavesAtRest'
  BY <1>1 DEF LifeInv, StopLeavesAtRest, Resting
<1> QED
  BY <1>2, <1>3, <1>4, <1>5 DEF LifeInv

\* The requests meet the conversation before any of them has been answered.
LEMMA LifeStarts ==
  LifeInit => LifeInv
<1> SUFFICES ASSUME LifeInit
             PROVE  LifeInv
  OBVIOUS
<1>1. 0 \in 0 .. MaxLaps /\ 0 \in 0 .. MaxLifeFaults
  BY LifeBounds
<1>2. NoRequest \in Request
  BY <1>1 DEF NoRequest, Request, Models, Answers
<1>3. req \in [Requests -> Request] /\ disturbed \in [Requests -> BOOLEAN]
  BY <1>2 DEF LifeInit
<1>4. LifeTypeOK
  BY <1>1, <1>3 DEF LifeInit, LifeTypeOK, Request, Models
<1>5. \A q \in Requests : req[q].kind = "none" /\ req[q].answer = "none"
  BY DEF LifeInit, NoRequest
<1> QED
  BY <1>4, <1>5 DEF LifeInv, AnsweredIsDone, RejectIsMidway, StopLeavesAtRest, AtCall

\* Every step keeps the invariant.
LEMMA LifeGoesOn ==
  LifeInv /\ [LifeNext]_lifeVars => LifeInv'
<1> SUFFICES ASSUME LifeInv, [LifeNext]_lifeVars
             PROVE  LifeInv'
  OBVIOUS
<1>1. ASSUME NEW q \in Requests, Handle(q)
      PROVE  LifeInv'
  <2>1. CASE NotFound(q) \/ NobodyAsked(q)
    BY <2>1, ErrorsKeep
  <2>2. CASE PauseRun(q) \/ ResumeAccepted(q) \/ ApproveRun(q) \/ SwitchLlm(q)
    BY <2>2, OthersAnswered
  <2>3. CASE ResumeRefused(q) \/ ResumePolls(q) \/ SwitchRoutes(q)
    BY <2>3, WaitsKeep
  <2>4. CASE StopReads(q) \/ StopInterrupts(q)
    BY <2>4, StopKeeps
  <2>5. CASE RejectRun(q) \/ RejectInterrupts(q)
    BY <2>5, RejectKeeps
  <2> QED
    BY <1>1, <2>1, <2>2, <2>3, <2>4, <2>5 DEF Handle
<1>2. ASSUME NEW q \in Requests, CallRaises(q)
      PROVE  LifeInv'
  BY <1>2, ErrorsKeep
<1>3. ASSUME NEW q \in Requests, NEW k \in Kinds, ReqArrives(q, k)
      PROVE  LifeInv'
  BY <1>3, ArrivalKeeps
<1>4. CASE AgentTurnEnds \/ Unwind \/ ConversationDeleted
  BY <1>4, AgentKeeps
<1>5. CASE UNCHANGED lifeVars
  BY <1>5 DEF lifeVars, LifeInv, LifeTypeOK, AnsweredIsDone, RejectIsMidway, StopLeavesAtRest,
              AtCall, Resting
<1> QED
  BY <1>1, <1>2, <1>3, <1>4, <1>5 DEF LifeNext

\* In every run of the system: once a stop is answered, with ok or with the error of an
\* interrupt that came too late, or a reject with ok, the conversation is at rest until some
\* other request starts it (stop_run and reject_run of bff/routers/runs.py).
THEOREM StoppedRunsRest ==
  LifeSpec => []StopLeavesAtRest
<1>1. LifeInv => StopLeavesAtRest
  BY DEF LifeInv
<1> QED
  BY LifeStarts, LifeGoesOn, <1>1, PTL DEF LifeSpec

\* In every run of the system: the state of the six handlers and of their conversation has its
\* type, whichever calls raise.
THEOREM LifeTypeCorrect ==
  LifeSpec => []LifeTypeOK
BY LifeStarts, LifeGoesOn, PTL DEF LifeSpec, LifeInv

\* In every run of the system: a resume or an approval is answered ok in a step of its own
\* that starts an agent that was not running (resume_run and approve_run).
THEOREM AnsweredOkHasStarted ==
  LifeSpec => OkMeansStarted
<1> DEFINE Started ==
      \A q \in Requests :
        (req[q].kind \in {"resume", "approve"} /\ req[q].answer = "none" /\ req'[q].answer = "ok")
          => convStatus # "running" /\ convStatus' = "running"
<1>1. LifeInv /\ [LifeNext]_lifeVars => [Started]_lifeVars
  <2> SUFFICES ASSUME LifeInv, LifeNext,
                      NEW q \in Requests, req[q].kind \in {"resume", "approve"},
                      req[q].answer = "none", req'[q].answer = "ok"
               PROVE  convStatus # "running" /\ convStatus' = "running"
    OBVIOUS
  <2>1. LifeTypeOK /\ req \in [Requests -> Request]
    BY DEF LifeInv, LifeTypeOK, Request
  <2>2. PICK p \in Requests : Handle(p) \/ CallRaises(p) \/ \E k \in Kinds : ReqArrives(p, k)
    BY DEF LifeNext, AgentTurnEnds, Unwind, ConversationDeleted
  <2>3. \A a \in Answers : Answer(p, a) => p = q /\ a = "ok"
    BY <2>1, AnswerIs
  <2>4. \A pc \in {"call", "status", "interrupt", "poll", "route"} : ~Proceed(p, pc)
    BY <2>1, ProceedIs
  <2>5. ASSUME NEW k \in Kinds, ReqArrives(p, k)
        PROVE  FALSE
    <3>1. req[p] \in Request
      BY <2>1
    <3>2. req'[q].answer = req[q].answer
      BY <2>1, <2>5, <3>1 DEF ReqArrives, Request
    <3> QED
      BY <3>2
  <2>6. ~CallRaises(p) /\ ~NotFound(p) /\ ~NobodyAsked(p)
    BY <2>3 DEF CallRaises, NotFound, NobodyAsked, Answers
  <2>7. ~ResumeRefused(p) /\ ~SwitchRoutes(p)
    <3>1. \A l \in 0 .. MaxLaps :
            ~(req' = [req EXCEPT ![p].laps = l, ![p].pc = "poll"])
      BY <2>1 DEF Request
    <3>2. \A m \in Models : ~(req' = [req EXCEPT ![p].model = m, ![p].pc = "call"])
      BY <2>1 DEF Request
    <3>3. req[p].laps < MaxLaps => req[p].laps + 1 \in 0 .. MaxLaps
      BY <2>1, LifeBounds DEF Request
    <3> QED
      BY <2>3, <3>1, <3>2, <3>3 DEF ResumeRefused, SwitchRoutes, Answers, Models
  <2>8. ~ResumePolls(p) /\ ~RejectRun(p)
    BY <2>4 DEF ResumePolls, RejectRun
  <2>9. ~PauseRun(p) /\ ~StopReads(p) /\ ~StopInterrupts(p) /\ ~RejectInterrupts(p)
        /\ ~SwitchLlm(p)
    BY <2>3, <2>4
       DEF PauseRun, StopReads, StopInterrupts, RejectInterrupts, SwitchLlm, AtCall, Answers
  <2>10. ResumeAccepted(p) \/ ApproveRun(p)
    BY <2>2, <2>5, <2>6, <2>7, <2>8, <2>9 DEF Handle
  <2> QED
    BY <2>10 DEF ResumeAccepted, ApproveRun, RunAccepted, Asked, Starts, AtRest
<1> QED
  BY LifeStarts, LifeGoesOn, <1>1, PTL DEF LifeSpec, OkMeansStarted

-----------------------------------------------------------------------------
(***************************************************************************)
(* RunSetup, for any number of runs, pages and faults.  A handler sets the *)
(* policy before it starts the agent, and nobody changes it after that;    *)
(* what the scan for the anchor has read is less than where the anchor is. *)
(***************************************************************************)

Wish  == [by : {"nobody", "create", "restart"}, approve : BOOLEAN, anchor : Nat,
          kind : AnchorKinds, pages : Nat]
Guard == [policy : {"none", "ConfirmRisky", "AlwaysConfirm"}, analyzer : BOOLEAN]
CreateStages  == {"seed", "analyzer", "policy", "kick"}
RestartStages == {"scan", "make", "message"}
Stages == {"new", "blocked", "done", "404", "502", "no_sha_anchor", "not_user_message"}
            \cup CreateStages \cup RestartStages

SetupTyped ==
  /\ wish \in [SetupRuns -> Wish] /\ stage \in [SetupRuns -> Stages]
  /\ guard \in [SetupRuns -> Guard]
  /\ loop \in [SetupRuns -> {"none", "idle", "running", "asked"}]

\* Whose stage it is, and when the agent of a created run can be at work.
StagedRight(r) ==
  /\ stage[r] \in CreateStages => wish[r].by = "create"
  /\ stage[r] \in RestartStages => wish[r].by = "restart"
  /\ stage[r] = "new" => loop[r] = "none" /\ guard[r].policy = "none"
  /\ wish[r].by = "create" /\ loop[r] \in {"running", "asked"} => stage[r] = "done" \/ r \in resumed
  /\ stage[r] \in {"make", "message"} => wish[r].kind = "stamped"
  /\ wish[r].by = "restart" /\ loop[r] # "none" => wish[r].kind = "stamped"

\* From the start of the agent on, a policy that was taken is there; and the policy that is
\* there is the one asked for.
PolicyInPlace(r) ==
  /\ (wish[r].by = "create" /\ stage[r] \in {"kick", "done"} /\ r \notin refused)
       => guard[r].policy # "none"
  /\ wish[r].by = "create" /\ guard[r].policy # "none"
       => guard[r].policy = BuildConfirmationPolicy(wish[r].approve)

\* The anchor is not on the pages read so far; a scan that ended knows whether it is on any.
ScannedRight(r) ==
  /\ stage[r] = "scan" =>
       wish[r].pages * PageSize < wish[r].anchor /\ wish[r].pages + 1 <= MaxPages
  /\ stage[r] \in {"make", "message", "no_sha_anchor", "not_user_message"} =>
       wish[r].anchor <= PageSize * MaxPages
  /\ stage[r] = "404" => wish[r].anchor > PageSize * MaxPages

\* What has run unasked was the run's to do.
UnaskedRight(r) ==
  \A risk \in Risks, early \in BOOLEAN : <<r, risk, early>> \in unasked =>
    /\ stage[r] # "new"
    /\ wish[r].by = "create" /\ r \notin refused =>
         (risk = "low" /\ ~wish[r].approve) \/ (early /\ r \in resumed)

RunRight(r) == StagedRight(r) /\ PolicyInPlace(r) /\ ScannedRight(r) /\ UnaskedRight(r)
SetupInv == SetupTyped /\ \A r \in SetupRuns : RunRight(r)

\* A step of one run.
SetupOf(r) ==
  /\ \A s \in SetupRuns : s # r => /\ wish'[s] = wish[s] /\ stage'[s] = stage[s]
                                   /\ guard'[s] = guard[s] /\ loop'[s] = loop[s]
                                   /\ (s \in refused' <=> s \in refused)
                                   /\ (s \in resumed' <=> s \in resumed)
  /\ \A s \in SetupRuns, risk \in Risks, early \in BOOLEAN :
       s # r => (<<s, risk, early>> \in unasked' <=> <<s, risk, early>> \in unasked)

\* It leaves the others as they are.
LEMMA OtherRunsRight ==
  ASSUME SetupInv, SetupTyped', NEW r \in SetupRuns, SetupOf(r), RunRight(r)'
  PROVE  SetupInv'
<1>1. ASSUME NEW s \in SetupRuns, s # r
      PROVE  RunRight(s)'
  <2>1. /\ wish'[s] = wish[s] /\ stage'[s] = stage[s] /\ guard'[s] = guard[s]
        /\ loop'[s] = loop[s] /\ (s \in refused' <=> s \in refused)
        /\ (s \in resumed' <=> s \in resumed)
        /\ \A risk \in Risks, early \in BOOLEAN :
             <<s, risk, early>> \in unasked' <=> <<s, risk, early>> \in unasked
    BY <1>1 DEF SetupOf
  <2>2. RunRight(s)
    BY DEF SetupInv
  <2>3. StagedRight(s)' /\ PolicyInPlace(s)' /\ ScannedRight(s)' /\ UnaskedRight(s)'
    BY <2>1, <2>2 DEF RunRight, StagedRight, PolicyInPlace, ScannedRight, UnaskedRight
  <2> QED
    BY <2>3 DEF RunRight
<1> QED
  BY <1>1 DEF SetupInv

\* Of the guard of a run, one field is set.
LEMMA PolicyIsSet ==
  ASSUME SetupTyped, NEW r \in SetupRuns, NEW v \in {"none", "ConfirmRisky", "AlwaysConfirm"},
         Guards(r, "policy", v)
  PROVE  /\ guard' \in [SetupRuns -> Guard] /\ guard'[r].policy = v
         /\ \A s \in SetupRuns : s # r => guard'[s] = guard[s]
<1>1. guard \in [SetupRuns -> Guard] /\ guard[r] \in Guard
  BY DEF SetupTyped
<1>2. guard' = [guard EXCEPT ![r] = [guard[r] EXCEPT !.policy = v]]
  BY <1>1 DEF Guards
<1>3. [guard[r] EXCEPT !.policy = v] \in Guard /\ [guard[r] EXCEPT !.policy = v].policy = v
  BY <1>1 DEF Guard
<1> QED
  BY <1>1, <1>2, <1>3

\* The analyzer leaves the policy as it is.
LEMMA AnalyzerIsSet ==
  ASSUME SetupTyped, NEW r \in SetupRuns, Guards(r, "analyzer", TRUE)
  PROVE  /\ guard' \in [SetupRuns -> Guard] /\ guard'[r].policy = guard[r].policy
         /\ \A s \in SetupRuns : s # r => guard'[s] = guard[s]
<1>1. guard \in [SetupRuns -> Guard] /\ guard[r] \in Guard
  BY DEF SetupTyped
<1>2. guard' = [guard EXCEPT ![r] = [guard[r] EXCEPT !.analyzer = TRUE]]
  BY <1>1 DEF Guards
<1> QED
  BY <1>1, <1>2 DEF Guard

\* The events of the first pages are among those of all the pages.
LEMMA PagesAreMonotone ==
  ASSUME NEW n \in Nat, NEW m \in Nat, NEW k \in Nat, n + 1 <= m
  PROVE  (n + 1) * k <= k * m
<1>1. PICK d \in Nat : m = n + 1 + d
  <2>1. m - (n + 1) \in Nat /\ m = n + 1 + (m - (n + 1))
    OBVIOUS
  <2> QED
    BY <2>1
<1>2. k * m = (n + 1) * k + d * k /\ d * k \in Nat /\ (n + 1) * k \in Nat
  BY <1>1
<1> QED
  BY <1>2

\* What the provers need of a run.
LEMMA RunIsTyped ==
  ASSUME SetupInv, NEW r \in SetupRuns
  PROVE  /\ wish[r] \in Wish /\ stage[r] \in Stages /\ guard[r] \in Guard
         /\ loop[r] \in {"none", "idle", "running", "asked"}
         /\ StagedRight(r) /\ PolicyInPlace(r) /\ ScannedRight(r) /\ UnaskedRight(r)
BY DEF SetupInv, SetupTyped, RunRight

\* A handler that goes on, or fails, and does nothing else.
LEMMA StageMoves ==
  ASSUME SetupInv, NEW r \in SetupRuns, NEW t \in Stages, Enters(r, t)
  PROVE  /\ stage' \in [SetupRuns -> Stages] /\ stage'[r] = t
         /\ \A s \in SetupRuns : s # r => stage'[s] = stage[s]
BY DEF SetupInv, SetupTyped, Enters

\* The blocked answer, the anchor on the page that was read, a page that cannot be read, and
\* the sidecar, which is tried before the policy.
LEMMA StageOnlyIsRight ==
  ASSUME SetupInv, NEW r \in SetupRuns,
         CreateBlocked(r) \/ AnchorFound(r) \/ ScanFails(r) \/ SidecarSeeded(r)
  PROVE  SetupInv'
<1>1. /\ wish' = wish /\ guard' = guard /\ loop' = loop /\ unasked' = unasked
      /\ refused' = refused /\ resumed' = resumed
  BY DEF CreateBlocked, AnchorFound, ScanFails, SidecarSeeded, history
<1>2. PICK t \in Stages :
        /\ Enters(r, t)
        /\ \/ stage[r] = "new" /\ t = "blocked"
           \/ stage[r] = "scan" /\ PageHas(r) /\ t = "make" /\ wish[r].kind = "stamped"
           \/ stage[r] = "scan" /\ PageHas(r) /\ t \in {"no_sha_anchor", "not_user_message"}
           \/ stage[r] = "scan" /\ t = "502"
           \/ stage[r] = "seed" /\ t = "analyzer"
  <2>1. {"blocked", "make", "502", "no_sha_anchor", "not_user_message", "analyzer"} \subseteq Stages
    BY DEF Stages, RestartStages, CreateStages
  <2>2. CASE CreateBlocked(r)
    BY <2>1, <2>2 DEF CreateBlocked, Moves
  <2>3. CASE AnchorFound(r)
    BY <2>1, <2>3 DEF AnchorFound, Moves, AnchorAnswer
  <2>4. CASE ScanFails(r)
    BY <2>1, <2>4 DEF ScanFails, Moves
  <2>5. CASE SidecarSeeded(r)
    BY <2>1, <2>5 DEF SidecarSeeded, Moves
  <2> QED
    BY <2>2, <2>3, <2>4, <2>5
<1>4. /\ stage' \in [SetupRuns -> Stages] /\ stage'[r] = t
      /\ \A s \in SetupRuns : s # r => stage'[s] = stage[s]
  BY <1>2, StageMoves
<1>5. SetupTyped'
  BY <1>1, <1>4 DEF SetupInv, SetupTyped
<1>6. SetupOf(r)
  BY <1>1, <1>4 DEF SetupOf
<1>7. StagedRight(r)' /\ PolicyInPlace(r)' /\ UnaskedRight(r)'
  BY <1>1, <1>2, <1>4, RunIsTyped
     DEF StagedRight, PolicyInPlace, UnaskedRight, CreateStages, RestartStages
<1>8. ASSUME stage[r] = "scan", PageHas(r)
      PROVE  wish[r].anchor <= PageSize * MaxPages
  <2>1. /\ wish[r].pages + 1 <= MaxPages /\ wish[r].pages \in Nat /\ wish[r].anchor \in Nat
        /\ PageSize \in Nat /\ MaxPages \in Nat
    BY <1>8, RunIsTyped, SetupConstants DEF ScannedRight, Wish
  <2>2. (wish[r].pages + 1) * PageSize <= PageSize * MaxPages
    BY <2>1, PagesAreMonotone
  <2> QED
    BY <1>8, <2>1, <2>2 DEF PageHas
<1>9. ScannedRight(r)'
  BY <1>1, <1>2, <1>4, <1>8 DEF ScannedRight
<1> QED
  BY <1>5, <1>6, <1>7, <1>9, OtherRunsRight DEF RunRight

\* The agent is approved, started, resumed, or a conversation is made for it.
LEMMA LoopIsRight ==
  ASSUME SetupInv, NEW r \in SetupRuns,
         KickedOff(r) \/ Restarted(r) \/ RestartSeeded(r) \/ Resumed(r) \/ Approved(r)
  PROVE  SetupInv'
<1>1. /\ wish' = wish /\ guard' = guard /\ unasked' = unasked /\ refused' = refused
      /\ resumed \subseteq resumed' /\ \A s \in SetupRuns : s # r => (s \in resumed' <=> s \in resumed)
  BY DEF KickedOff, Restarted, RestartSeeded, Resumed, Approved, history
<1>2. PICK l \in {"none", "idle", "running", "asked"} :
        /\ loop' = [loop EXCEPT ![r] = l]
        /\ l = loop[r] \/ (stage[r] = "make" /\ l \in {"none", "idle"})
           \/ (l = "running" /\ loop[r] # "none"
                /\ \/ stage[r] = "kick" /\ stage'[r] = "done"
                   \/ stage[r] = "message" \/ loop[r] = "asked" \/ r \in resumed')
  <2>1. loop \in [SetupRuns -> {"none", "idle", "running", "asked"}]
    BY DEF SetupInv, SetupTyped
  <2>2. loop' = loop => loop' = [loop EXCEPT ![r] = loop[r]]
    BY <2>1
  <2>3. Runs(r) => \/ loop[r] = "idle" /\ loop' = [loop EXCEPT ![r] = "running"]
                   \/ loop' = [loop EXCEPT ![r] = loop[r]]
    BY <2>1 DEF Runs
  <2>4. CASE KickedOff(r)
    BY <2>1, <2>2, <2>3, <2>4 DEF KickedOff, Moves, Enters, SetupInv, SetupTyped
  <2>5. CASE Restarted(r)
    BY <2>1, <2>2, <2>5 DEF Restarted
  <2>6. CASE RestartSeeded(r)
    BY <2>1, <2>2, <2>3, <2>6 DEF RestartSeeded
  <2>7. CASE Resumed(r)
    BY <2>1, <2>3, <2>7 DEF Resumed
  <2>8. CASE Approved(r)
    BY <2>1, <2>8 DEF Approved
  <2> QED
    BY <2>4, <2>5, <2>6, <2>7, <2>8
<1>3. /\ stage' \in [SetupRuns -> Stages]
      /\ \A s \in SetupRuns : s # r => stage'[s] = stage[s]
      /\ \/ stage[r] = "kick" /\ stage'[r] = "done"
         \/ stage[r] = "make" /\ stage'[r] \in {"message", "502"}
         \/ stage[r] = "message" /\ stage'[r] \in {"done", "502"}
         \/ loop[r] # "none" /\ stage'[r] = stage[r]
  BY DEF SetupInv, SetupTyped, KickedOff, Restarted, RestartSeeded, Resumed, Approved, Moves,
         Enters, Stages, CreateStages, RestartStages
<1>4. /\ loop' \in [SetupRuns -> {"none", "idle", "running", "asked"}] /\ loop'[r] = l
      /\ \A s \in SetupRuns : s # r => loop'[s] = loop[s]
  BY <1>2 DEF SetupInv, SetupTyped
<1>5. SetupTyped'
  BY <1>1, <1>3, <1>4 DEF SetupInv, SetupTyped
<1>6. SetupOf(r)
  BY <1>1, <1>3, <1>4 DEF SetupOf
<1>7. wish[r].by = "create" /\ l \in {"running", "asked"} => stage'[r] = "done" \/ r \in resumed'
  BY <1>1, <1>2, <1>3, RunIsTyped DEF StagedRight, CreateStages, RestartStages
<1>8. wish[r].by = "restart" /\ l # "none" => wish[r].kind = "stamped"
  BY <1>2, <1>3, RunIsTyped DEF StagedRight, CreateStages, RestartStages
<1>9. StagedRight(r)'
  BY <1>1, <1>2, <1>3, <1>4, <1>7, <1>8, RunIsTyped
     DEF StagedRight, CreateStages, RestartStages
<1>10. PolicyInPlace(r)' /\ ScannedRight(r)' /\ UnaskedRight(r)'
  BY <1>1, <1>3, RunIsTyped
     DEF StagedRight, PolicyInPlace, ScannedRight, UnaskedRight, CreateStages, RestartStages
<1> QED
  BY <1>5, <1>6, <1>9, <1>10, OtherRunsRight DEF RunRight

\* A call that a policy lets pass is of low risk, and of a run that asked for no approval;
\* without a policy only a run that was resumed is at work.
LEMMA AgentProposesIsRight ==
  ASSUME SetupInv, NEW r \in SetupRuns, NEW risk \in Risks, AgentProposes(r, risk)
  PROVE  SetupInv'
<1>1. /\ loop[r] = "running" /\ wish' = wish /\ stage' = stage /\ guard' = guard
      /\ refused' = refused /\ resumed' = resumed
  BY DEF AgentProposes
<1>2. /\ loop' \in [SetupRuns -> {"none", "idle", "running", "asked"}]
      /\ \A s \in SetupRuns : s # r => loop'[s] = loop[s]
      /\ loop'[r] \in {"running", "asked"}
  BY <1>1 DEF SetupInv, SetupTyped, AgentProposes
<1>3. \/ unasked' = unasked
      \/ /\ ~Asks(r, Label(r, risk))
         /\ unasked' = unasked \cup {<<r, risk, guard[r].policy = "none">>}
  BY DEF AgentProposes
<1>4. SetupTyped'
  BY <1>1, <1>2 DEF SetupInv, SetupTyped
<1>5. SetupOf(r)
  BY <1>1, <1>2, <1>3 DEF SetupOf
<1>6. StagedRight(r)' /\ PolicyInPlace(r)' /\ ScannedRight(r)'
  BY <1>1, <1>2, RunIsTyped DEF StagedRight, PolicyInPlace, ScannedRight
<1>7. ASSUME ~Asks(r, Label(r, risk)), wish[r].by = "create", r \notin refused
      PROVE  (risk = "low" /\ ~wish[r].approve) \/ (guard[r].policy = "none" /\ r \in resumed)
  <2>1. CASE guard[r].policy = "none"
    BY <1>1, <1>7, <2>1, RunIsTyped DEF StagedRight, PolicyInPlace
  <2>2. CASE guard[r].policy # "none"
    <3>1. guard[r].policy = BuildConfirmationPolicy(wish[r].approve)
      BY <1>7, <2>2, RunIsTyped DEF PolicyInPlace
    <3> QED
      BY <1>7, <3>1 DEF Asks, Label, BuildConfirmationPolicy, Risks
  <2> QED
    BY <2>1, <2>2
<1>8. UnaskedRight(r)'
  <2> SUFFICES ASSUME NEW k \in Risks, NEW e \in BOOLEAN, <<r, k, e>> \in unasked'
               PROVE  /\ stage[r] # "new"
                      /\ wish[r].by = "create" /\ r \notin refused =>
                           (k = "low" /\ ~wish[r].approve) \/ (e /\ r \in resumed)
    BY <1>1 DEF UnaskedRight
  <2>1. CASE <<r, k, e>> \in unasked
    BY <2>1, RunIsTyped DEF UnaskedRight
  <2>2. CASE <<r, k, e>> \notin unasked
    <3>1. ~Asks(r, Label(r, risk)) /\ k = risk /\ e = (guard[r].policy = "none")
      BY <1>3, <2>2
    <3>2. stage[r] # "new"
      BY <1>1, RunIsTyped DEF StagedRight
    <3> QED
      BY <1>7, <3>1, <3>2
  <2> QED
    BY <2>1, <2>2
<1> QED
  BY <1>4, <1>5, <1>6, <1>8, OtherRunsRight DEF RunRight

\* The analyzer is tried before the policy, and leaves it alone.
LEMMA AnalyzerAttachedIsRight ==
  ASSUME SetupInv, NEW r \in SetupRuns, AnalyzerAttached(r)
  PROVE  SetupInv'
<1>1. /\ wish' = wish /\ loop' = loop /\ unasked' = unasked /\ refused' = refused
      /\ resumed' = resumed
  BY DEF AnalyzerAttached, history
<1>2. guard' = guard \/ Guards(r, "analyzer", TRUE)
  BY DEF AnalyzerAttached
<1>3. /\ guard' \in [SetupRuns -> Guard] /\ guard'[r].policy = guard[r].policy
      /\ \A s \in SetupRuns : s # r => guard'[s] = guard[s]
  BY <1>2, AnalyzerIsSet DEF SetupInv, SetupTyped
<1>4. /\ stage[r] = "analyzer" /\ stage' \in [SetupRuns -> Stages] /\ stage'[r] = "policy"
      /\ \A s \in SetupRuns : s # r => stage'[s] = stage[s]
  BY StageMoves DEF AnalyzerAttached, Moves, Stages, CreateStages
<1>5. SetupTyped'
  BY <1>1, <1>3, <1>4 DEF SetupInv, SetupTyped
<1>6. SetupOf(r)
  BY <1>1, <1>3, <1>4 DEF SetupOf
<1>7. StagedRight(r)' /\ ScannedRight(r)' /\ UnaskedRight(r)'
  BY <1>1, <1>3, <1>4, RunIsTyped
     DEF StagedRight, ScannedRight, UnaskedRight, CreateStages, RestartStages
<1>8. PolicyInPlace(r)'
  BY <1>1, <1>3, <1>4, RunIsTyped DEF PolicyInPlace
<1> QED
  BY <1>5, <1>6, <1>7, <1>8, OtherRunsRight DEF RunRight

\* The policy that is taken is the one the request asked for; one that is not is recorded.
LEMMA PolicySetIsRight ==
  ASSUME SetupInv, NEW r \in SetupRuns, PolicySet(r)
  PROVE  SetupInv'
<1>1. wish' = wish /\ loop' = loop /\ unasked' = unasked /\ resumed' = resumed
  BY DEF PolicySet
<1>2. /\ stage[r] = "policy" /\ stage' \in [SetupRuns -> Stages] /\ stage'[r] = "kick"
      /\ \A s \in SetupRuns : s # r => stage'[s] = stage[s]
  BY StageMoves DEF PolicySet, Moves, Stages, CreateStages
<1>3. wish[r].approve \in BOOLEAN
  BY RunIsTyped DEF Wish
<1>4. /\ guard' \in [SetupRuns -> Guard] /\ \A s \in SetupRuns : s # r => guard'[s] = guard[s]
      /\ \/ guard'[r].policy = BuildConfirmationPolicy(wish[r].approve)
         \/ guard' = guard
      /\ \/ refused' = refused /\ guard'[r].policy = BuildConfirmationPolicy(wish[r].approve)
         \/ refused' = refused \cup {r}
  <2>1. SetupTyped
    BY DEF SetupInv
  <2>2. Guards(r, "policy", BuildConfirmationPolicy(wish[r].approve)) =>
          /\ guard' \in [SetupRuns -> Guard] /\ \A s \in SetupRuns : s # r => guard'[s] = guard[s]
          /\ guard'[r].policy = BuildConfirmationPolicy(wish[r].approve)
    <3>1. BuildConfirmationPolicy(wish[r].approve) \in {"none", "ConfirmRisky", "AlwaysConfirm"}
      BY <1>3 DEF BuildConfirmationPolicy
    <3> QED
      BY <2>1, <3>1, PolicyIsSet
  <2>3. guard' = guard => guard' \in [SetupRuns -> Guard]
    BY <2>1 DEF SetupTyped
  <2> QED
    BY <2>2, <2>3 DEF PolicySet
<1>5. SetupTyped'
  BY <1>1, <1>2, <1>4 DEF SetupInv, SetupTyped
<1>6. SetupOf(r)
  BY <1>1, <1>2, <1>4 DEF SetupOf
<1>7. StagedRight(r)' /\ ScannedRight(r)'
  BY <1>1, <1>2, RunIsTyped DEF StagedRight, ScannedRight, CreateStages, RestartStages
<1>8. PolicyInPlace(r)'
  BY <1>1, <1>4, RunIsTyped DEF PolicyInPlace, BuildConfirmationPolicy
<1>9. UnaskedRight(r)'
  BY <1>1, <1>2, <1>4, RunIsTyped DEF UnaskedRight
<1> QED
  BY <1>5, <1>6, <1>7, <1>8, <1>9, OtherRunsRight DEF RunRight

\* A request arrives, for a run that has done nothing yet.
LEMMA AskedIsRight ==
  ASSUME SetupInv, NEW r \in SetupRuns, Created(r) \/ RestartAsked(r)
  PROVE  SetupInv'
<1>1. /\ stage[r] = "new" /\ guard' = guard /\ unasked' = unasked /\ refused' = refused
      /\ resumed' = resumed
  BY DEF Created, RestartAsked, Moves, history
<1>2. PICK w \in Wish :
        /\ wish' = [wish EXCEPT ![r] = w] /\ w.pages = 0
        /\ \/ /\ w.by = "create" /\ (Enters(r, "seed") \/ Enters(r, "502"))
              /\ \E l \in {"none", "idle"} : loop' = [loop EXCEPT ![r] = l]
           \/ w.by = "restart" /\ w.anchor \in AnchorAt /\ Enters(r, "scan") /\ loop' = loop
  <2>1. CASE Created(r)
    <3>1. PICK approve \in BOOLEAN :
            wish' = [wish EXCEPT ![r] = [NoWish EXCEPT !.by = "create", !.approve = approve]]
      BY <2>1 DEF Created
    <3>2. /\ [NoWish EXCEPT !.by = "create", !.approve = approve] \in Wish
          /\ [NoWish EXCEPT !.by = "create", !.approve = approve].pages = 0
          /\ [NoWish EXCEPT !.by = "create", !.approve = approve].by = "create"
      BY DEF NoWish, Wish, AnchorKinds
    <3> QED
      BY <2>1, <3>1, <3>2 DEF Created
  <2>2. CASE RestartAsked(r)
    <3> DEFINE asks(a, k) == [NoWish EXCEPT !.by = "restart", !.anchor = a, !.kind = k]
    <3>1. PICK a \in AnchorAt, k \in AnchorKinds : wish' = [wish EXCEPT ![r] = asks(a, k)]
      BY <2>2 DEF RestartAsked
    <3>2. /\ asks(a, k) \in Wish /\ asks(a, k).pages = 0 /\ asks(a, k).by = "restart"
          /\ asks(a, k).anchor = a
      BY SetupConstants DEF NoWish, Wish
    <3> HIDE DEF asks
    <3> QED
      BY <2>2, <3>1, <3>2 DEF RestartAsked, Moves
  <2> QED
    BY <2>1, <2>2
<1>3. /\ wish' \in [SetupRuns -> Wish] /\ wish'[r] = w
      /\ \A s \in SetupRuns : s # r => wish'[s] = wish[s]
  BY <1>2 DEF SetupInv, SetupTyped
<1>4. /\ stage' \in [SetupRuns -> Stages]
      /\ \A s \in SetupRuns : s # r => stage'[s] = stage[s]
      /\ \/ w.by = "create" /\ stage'[r] \in {"seed", "502"}
         \/ w.by = "restart" /\ stage'[r] = "scan" /\ w.anchor \in AnchorAt
  <2>1. {"seed", "scan", "502"} \subseteq Stages
    BY DEF Stages, CreateStages, RestartStages
  <2> QED
    BY <1>2, <2>1, StageMoves
<1>5. /\ loop' \in [SetupRuns -> {"none", "idle", "running", "asked"}]
      /\ \A s \in SetupRuns : s # r => loop'[s] = loop[s]
      /\ loop'[r] \in {"none", "idle"}
  BY <1>1, <1>2, RunIsTyped DEF SetupInv, SetupTyped, StagedRight
<1>6. SetupTyped'
  BY <1>1, <1>3, <1>4, <1>5 DEF SetupInv, SetupTyped
<1>7. SetupOf(r)
  BY <1>1, <1>3, <1>4, <1>5 DEF SetupOf
<1>8. StagedRight(r)'
  <2>1. w.by = "restart" => loop'[r] = "none"
    BY <1>1, <1>2, RunIsTyped DEF StagedRight
  <2> QED
    BY <1>3, <1>4, <1>5, <2>1 DEF StagedRight, CreateStages, RestartStages
<1>9. PolicyInPlace(r)'
  BY <1>1, <1>4, RunIsTyped DEF PolicyInPlace, StagedRight
<1>10. ScannedRight(r)'
  <2>1. ASSUME w.anchor \in AnchorAt
        PROVE  w.pages * PageSize < w.anchor /\ w.pages + 1 <= MaxPages
    <3>1. w.anchor \in Nat \ {0} /\ PageSize \in Nat \ {0} /\ MaxPages \in Nat \ {0}
      BY <2>1, SetupConstants
    <3> QED
      BY <1>2, <3>1
  <2> QED
    BY <1>3, <1>4, <2>1 DEF ScannedRight
<1>11. UnaskedRight(r)'
  BY <1>1, RunIsTyped DEF UnaskedRight
<1> QED
  BY <1>6, <1>7, <1>8, <1>9, <1>10, <1>11, OtherRunsRight DEF RunRight

\* A page that ends before the anchor: the scan goes on with the next one, or gives up when the
\* anchor is beyond the last.
LEMMA AnchorNotOnPageIsRight ==
  ASSUME SetupInv, NEW r \in SetupRuns, AnchorNotOnPage(r)
  PROVE  SetupInv'
<1>1. /\ stage[r] = "scan" /\ ~PageHas(r) /\ guard' = guard /\ loop' = loop
      /\ unasked' = unasked /\ refused' = refused /\ resumed' = resumed
  BY DEF AnchorNotOnPage, history
<1>2. /\ wish[r] \in Wish /\ wish[r].pages \in Nat /\ wish[r].anchor \in Nat
      /\ PageSize \in Nat /\ MaxPages \in Nat
  BY RunIsTyped, SetupConstants DEF Wish
<1>3. /\ wish' \in [SetupRuns -> Wish] /\ \A s \in SetupRuns : s # r => wish'[s] = wish[s]
      /\ wish'[r].by = wish[r].by /\ wish'[r].approve = wish[r].approve
      /\ wish'[r].anchor = wish[r].anchor /\ wish'[r].kind = wish[r].kind
      /\ wish'[r].pages = wish[r].pages + 1
  <2>1. wish' = [wish EXCEPT ![r] = [wish[r] EXCEPT !.pages = wish[r].pages + 1]]
    BY DEF AnchorNotOnPage
  <2>2. [wish[r] EXCEPT !.pages = wish[r].pages + 1] \in Wish
    BY <1>2 DEF Wish
  <2> QED
    BY <1>2, <2>1, <2>2 DEF SetupInv, SetupTyped, Wish
<1>4. /\ stage' \in [SetupRuns -> Stages]
      /\ \A s \in SetupRuns : s # r => stage'[s] = stage[s]
      /\ \/ wish[r].pages + 1 < MaxPages /\ stage'[r] = "scan"
         \/ ~(wish[r].pages + 1 < MaxPages) /\ stage'[r] = "404"
  <2>1. "404" \in Stages
    BY DEF Stages
  <2>2. CASE wish[r].pages + 1 < MaxPages
    BY <1>1, <2>2 DEF AnchorNotOnPage, SetupInv, SetupTyped
  <2>3. CASE ~(wish[r].pages + 1 < MaxPages)
    BY <2>1, <2>3, StageMoves DEF AnchorNotOnPage
  <2> QED
    BY <2>2, <2>3
<1>5. SetupTyped'
  BY <1>1, <1>3, <1>4 DEF SetupInv, SetupTyped
<1>6. SetupOf(r)
  BY <1>1, <1>3, <1>4 DEF SetupOf
<1>7. StagedRight(r)' /\ PolicyInPlace(r)'
  BY <1>1, <1>3, <1>4, RunIsTyped DEF StagedRight, PolicyInPlace, CreateStages, RestartStages
<1>8. UnaskedRight(r)'
  BY <1>1, <1>3, <1>4, RunIsTyped DEF UnaskedRight
<1>9. (wish[r].pages + 1) * PageSize < wish[r].anchor
  <2>1. (wish[r].pages + 1) * PageSize \in Nat
    BY <1>2
  <2> QED
    BY <1>1, <1>2, <2>1 DEF PageHas
<1>10. ASSUME wish[r].pages + 1 < MaxPages
       PROVE  ScannedRight(r)'
  <2>1. stage'[r] = "scan"
    BY <1>4, <1>10
  <2>2. wish'[r].pages + 1 <= MaxPages
    BY <1>2, <1>3, <1>10
  <2>3. wish'[r].pages * PageSize < wish'[r].anchor
    BY <1>3, <1>9
  <2> QED
    BY <2>1, <2>2, <2>3 DEF ScannedRight
<1>11. ASSUME ~(wish[r].pages + 1 < MaxPages)
       PROVE  ScannedRight(r)'
  <2>1. stage'[r] = "404"
    BY <1>4, <1>11
  <2>2. wish[r].pages + 1 = MaxPages
    BY <1>1, <1>2, <1>11, RunIsTyped DEF ScannedRight
  <2>3. MaxPages * PageSize < wish'[r].anchor
    BY <1>3, <1>9, <2>2
  <2>4. MaxPages * PageSize = PageSize * MaxPages /\ PageSize * MaxPages \in Nat
    BY <1>2
  <2>5. wish'[r].anchor > PageSize * MaxPages
    BY <1>2, <1>3, <2>3, <2>4
  <2> QED
    BY <2>1, <2>5 DEF ScannedRight
<1>12. ScannedRight(r)'
  <2>1. stage'[r] \in {"scan", "404"}
    BY <1>4
  <2> QED
    BY <2>1, <1>10, <1>11
<1> QED
  BY <1>5, <1>6, <1>7, <1>8, <1>12, OtherRunsRight DEF RunRight

\* Nobody has asked yet.
LEMMA SetupStartsRight ==
  SetupInit => SetupInv
<1> SUFFICES ASSUME SetupInit
             PROVE  SetupInv
  OBVIOUS
<1>1. /\ NoWish \in Wish /\ NoWish.by = "nobody" /\ Unguarded \in Guard
      /\ Unguarded.policy = "none" /\ "new" \in Stages
  BY DEF NoWish, Wish, AnchorKinds, Unguarded, Guard, Stages
<1>2. SetupTyped
  BY <1>1 DEF SetupInit, SetupTyped
<1>3. ASSUME NEW r \in SetupRuns
      PROVE  RunRight(r)
  BY <1>1 DEF SetupInit, RunRight, StagedRight, PolicyInPlace, ScannedRight, UnaskedRight,
              CreateStages, RestartStages
<1> QED
  BY <1>2, <1>3 DEF SetupInv

\* Every step keeps the invariant.
LEMMA SetupStaysRight ==
  SetupInv /\ [SetupNext]_setupVars => SetupInv'
<1> SUFFICES ASSUME SetupInv, [SetupNext]_setupVars
             PROVE  SetupInv'
  OBVIOUS
<1>1. CASE UNCHANGED setupVars
  BY <1>1 DEF setupVars, SetupInv, SetupTyped, RunRight, StagedRight, PolicyInPlace,
              ScannedRight, UnaskedRight
<1>2. ASSUME NEW r \in SetupRuns,
             \/ CreateBlocked(r) \/ AnchorFound(r) \/ ScanFails(r) \/ SidecarSeeded(r)
             \/ KickedOff(r) \/ Restarted(r) \/ RestartSeeded(r) \/ Resumed(r) \/ Approved(r)
             \/ AnalyzerAttached(r) \/ PolicySet(r) \/ Created(r) \/ RestartAsked(r)
             \/ AnchorNotOnPage(r)
      PROVE  SetupInv'
  BY <1>2, StageOnlyIsRight, LoopIsRight, AnalyzerAttachedIsRight, PolicySetIsRight,
     AskedIsRight, AnchorNotOnPageIsRight
<1>3. ASSUME NEW r \in SetupRuns, NEW risk \in Risks, AgentProposes(r, risk)
      PROVE  SetupInv'
  BY <1>3, AgentProposesIsRight
<1> QED
  BY <1>1, <1>2, <1>3 DEF SetupNext

(* Of every run that create_run makes and whose policy was taken, what its *)
(* agent did unasked was of low risk, and nothing if approval was asked    *)
(* for, save what a run did that was resumed before it had its policy; a   *)
(* restart says unknown exactly of an anchor beyond the pages it may read, *)
(* and makes something only of one with a commit.                          *)
THEOREM RunsAreSetUpSafely ==
  SetupSpec => []SetupIsSafe
<1>1. SetupInv => SetupIsSafe
  <2>1. SetupInv => AsksAsConfigured
    BY RunIsTyped DEF AsksAsConfigured, UnaskedRight
  <2>2. SetupInv => AnchorIsFound
    BY RunIsTyped DEF AnchorIsFound, ScannedRight, StagedRight
  <2> QED
    BY <2>1, <2>2 DEF SetupIsSafe
<1> QED
  BY <1>1, SetupStartsRight, SetupStaysRight, PTL DEF SetupSpec

\* Only create_run attaches an analyzer, and then it goes on to the policy; the scan reads no
\* more than MaxPages pages.
Analyzed(r) ==
  guard[r].analyzer => /\ wish[r].by = "create"
                       /\ stage[r] \in {"policy", "kick", "done"}
SetupTypes ==
  /\ \A r \in SetupRuns : wish[r].pages \in 0 .. MaxPages /\ Analyzed(r)
  /\ setupFaults \in 0 .. MaxSetupFaults

\* A step of one run, and its fault.
LEMMA SetupTypesStay ==
  ASSUME SetupInv, SetupTypes, [SetupNext]_setupVars
  PROVE  SetupTypes'
<1>1. CASE UNCHANGED setupVars
  BY <1>1 DEF setupVars, SetupTypes, Analyzed
<1>2. ASSUME NEW r \in SetupRuns,
             \/ CreateBlocked(r) \/ Created(r) \/ SidecarSeeded(r) \/ AnalyzerAttached(r)
             \/ PolicySet(r) \/ KickedOff(r) \/ Resumed(r)
             \/ RestartAsked(r) \/ AnchorFound(r) \/ AnchorNotOnPage(r) \/ ScanFails(r)
             \/ Restarted(r) \/ RestartSeeded(r) \/ Approved(r)
             \/ \E risk \in Risks : AgentProposes(r, risk)
      PROVE  SetupTypes'
  <2>1. /\ wish[r] \in Wish /\ stage[r] \in Stages /\ guard[r] \in Guard
        /\ StagedRight(r) /\ ScannedRight(r) /\ Analyzed(r) /\ wish[r].pages \in 0 .. MaxPages
        /\ MaxPages \in Nat /\ MaxSetupFaults \in Nat /\ setupFaults \in 0 .. MaxSetupFaults
    BY RunIsTyped, SetupConstants DEF SetupTypes
  <2>2. setupFaults' \in 0 .. MaxSetupFaults
    <3>1. setupFaults' = setupFaults \/ Fault
      BY <1>2 DEF CreateBlocked, Created, SidecarSeeded, AnalyzerAttached, PolicySet, KickedOff,
         Resumed, RestartAsked, AnchorFound, AnchorNotOnPage, ScanFails, Restarted,
         RestartSeeded, Approved, AgentProposes
    <3> QED
      BY <2>1, <3>1 DEF Fault
  <2>3. \A s \in SetupRuns : s # r => /\ wish'[s] = wish[s] /\ stage'[s] = stage[s]
                                      /\ guard'[s] = guard[s]
    BY <1>2 DEF SetupInv, SetupTyped, CreateBlocked, Created, SidecarSeeded, AnalyzerAttached,
       PolicySet, KickedOff, Resumed, RestartAsked, AnchorFound, AnchorNotOnPage,
       ScanFails, Restarted, RestartSeeded, Approved, AgentProposes, Moves, Enters, Guards
  <2>4. wish'[r].pages \in 0 .. MaxPages /\ Analyzed(r)'
    <3>1. CASE CreateBlocked(r) \/ AnchorFound(r) \/ ScanFails(r) \/ SidecarSeeded(r)
      BY <2>1, <3>1 DEF SetupInv, SetupTyped, CreateBlocked, AnchorFound, ScanFails, SidecarSeeded,
         Moves, Enters, Analyzed
    <3>2. CASE Restarted(r) \/ RestartSeeded(r) \/ Resumed(r) \/ Approved(r)
      BY <2>1, <3>2 DEF SetupInv, SetupTyped, Restarted, RestartSeeded, Resumed, Approved, Enters,
         Analyzed
    <3>3. CASE \E risk \in Risks : AgentProposes(r, risk)
      BY <2>1, <3>3 DEF AgentProposes, Analyzed
    <3>4. CASE PolicySet(r) \/ KickedOff(r)
      BY <2>1, <3>4 DEF SetupInv, SetupTyped, PolicySet, KickedOff, Moves, Enters, Guards,
         Analyzed, Guard
    <3>5. CASE AnalyzerAttached(r)
      BY <2>1, <3>5 DEF SetupInv, SetupTyped, AnalyzerAttached, Moves, Enters, Guards, Analyzed,
         Guard, StagedRight, CreateStages
    <3>7. CASE Created(r) \/ RestartAsked(r)
      <4>1. guard' = guard /\ stage[r] = "new"
        BY <3>7 DEF Created, RestartAsked, Moves
      <4>2. wish'[r].pages = 0
        <5>1. CASE Created(r)
          BY <5>1 DEF Created, SetupInv, SetupTyped, NoWish
        <5>2. CASE RestartAsked(r)
          BY <5>2 DEF RestartAsked, SetupInv, SetupTyped, NoWish
        <5> QED
          BY <3>7, <5>1, <5>2
      <4> QED
        BY <2>1, <4>1, <4>2 DEF Analyzed
    <3>8. CASE AnchorNotOnPage(r)
      <4>1. stage[r] = "scan" /\ guard' = guard /\ wish'[r].pages = wish[r].pages + 1
        BY <2>1, <3>8 DEF SetupInv, SetupTyped, AnchorNotOnPage, Wish
      <4>2. wish[r].pages + 1 <= MaxPages
        BY <2>1, <4>1 DEF ScannedRight
      <4> QED
        BY <2>1, <4>1, <4>2 DEF Analyzed
    <3> QED
      BY <1>2, <3>1, <3>2, <3>3, <3>4, <3>5, <3>7, <3>8
  <2> QED
    BY <2>2, <2>3, <2>4 DEF SetupTypes, Analyzed
<1> QED
  BY <1>1, <1>2 DEF SetupNext

(* In every run of the set-up: an analyzer without a policy is one whose   *)
(* policy was refused or is about to be set, and the search for an anchor  *)
(* reads no more pages than it may.                                        *)
THEOREM SetupTypeCorrect ==
  SetupSpec => []SetupTypeOK
<1>1. SetupInit => SetupTypes
  BY SetupConstants DEF SetupInit, SetupTypes, Analyzed, NoWish, Unguarded
<1>2. ASSUME SetupInv, SetupTypes PROVE SetupTypeOK
  <2> SUFFICES ASSUME NEW r \in SetupRuns
               PROVE  /\ wish[r].pages \in 0 .. MaxPages
                      /\ guard[r].policy \in {"none", "ConfirmRisky", "AlwaysConfirm"}
                      /\ guard[r].analyzer =>
                           guard[r].policy # "none" \/ r \in refused \/ stage[r] = "policy"
    BY <1>2 DEF SetupTypes, SetupTypeOK
  <2>1. guard[r] \in Guard /\ PolicyInPlace(r) /\ Analyzed(r)
    BY <1>2, RunIsTyped DEF SetupTypes
  <2>2. guard[r].analyzer =>
          guard[r].policy # "none" \/ r \in refused \/ stage[r] = "policy"
    BY <2>1 DEF PolicyInPlace, Analyzed, BuildConfirmationPolicy
  <2> QED
    BY <1>2, <2>1, <2>2 DEF SetupTypes, Guard
<1> QED
  BY <1>1, <1>2, SetupStartsRight, SetupStaysRight, SetupTypesStay, PTL DEF SetupSpec

-----------------------------------------------------------------------------
(***************************************************************************)
(* MemoryStore, for any number of processes, writes and faults.  An id is  *)
(* its writer's own; what a writer has stored so far is told by the step   *)
(* it is at; and a point is stored after everything it stands for.         *)
(***************************************************************************)

Edges  == {"subjectEdge", "objectEdge"}
Memory == [triple : Triples, corpus : Corpora, edges : SUBSET Edges]

\* The steps before the memory is a node, after that, and after both of its edges.
Unwritten  == {"lookup", "curate", "discarded", "guard", "entities", "event"}
Connected  == {"index", "embed", "create", "upsert"}
Remembered == {"subjectEdge", "objectEdge"} \cup Connected
Write ==
  [at : {"rest"} \cup Unwritten \cup Remembered, id : Nat, triple : Triples \cup {None},
   corpus : Corpora, filed : Corpora, hits : SUBSET Triples]

Curating(c, steps) == curator[c].at \in steps
Active(c) == curator[c].at # "rest"

MemoryTyped ==
  /\ written \in Nat /\ tidy \in BOOLEAN
  /\ memories \in [DOMAIN memories -> Memory]
  /\ \A i \in DOMAIN memories \cup quarantined : i \in Nat /\ i <= written
  /\ points \subseteq [id : Nat, corpus : Corpora, triple : Triples]
  /\ curator \in [Curators -> Write]

\* Each write has an id of its own.
OwnIds ==
  /\ \A c \in Curators : Active(c) => curator[c].id <= written /\ curator[c].triple \in Triples
  /\ \A c, d \in Curators : (c # d /\ Active(c) /\ Active(d)) => curator[c].id # curator[d].id

\* What a writer has found has the words of what it would write.
SaidBefore(c) == \E hit \in curator[c].hits : Words[hit] = Words[curator[c].triple]

\* What a writer has stored, and what it has found.
WriterRight(c) ==
  /\ Active(c) => curator[c].id \notin quarantined
  /\ Curating(c, Unwritten) => curator[c].id \notin DOMAIN memories
  /\ Curating(c, Remembered) =>
       /\ curator[c].id \in DOMAIN memories
       /\ memories[curator[c].id].triple = curator[c].triple
       /\ memories[curator[c].id].corpus = curator[c].filed
  /\ Curating(c, {"objectEdge"}) => "subjectEdge" \in memories[curator[c].id].edges
  /\ Curating(c, Connected) => memories[curator[c].id].edges = Edges
  /\ Curating(c, {"upsert"}) => curator[c].filed \in collections
  /\ Curating(c, {"curate", "discarded"}) =>
       \A t \in curator[c].hits : \E p \in points : p.triple = t /\ p.corpus = curator[c].corpus
  /\ Curating(c, {"discarded"}) => SaidBefore(c)

\* While it is tidy, there is one writer; what is remembered has a point, unless the writer
\* is about to store it; and what the writer stores is new.
IsNew(w) ==
  \A i \in DOMAIN memories :
    memories[i].corpus = w.filed => Words[memories[i].triple] # Words[w.triple]
TidyFinds(c) ==
  /\ Curating(c, {"curate"}) =>
       \A p \in points : p.corpus = curator[c].filed => p.triple \in curator[c].hits
  /\ Curating(c, {"guard", "entities", "event"}) => IsNew(curator[c])
  /\ Curating(c, {"create"}) => curator[c].filed \notin collections
TidyWriter(c) ==
  Active(c) => /\ curator[c].corpus = curator[c].filed /\ TidyFinds(c)
               /\ \A d \in Curators : d # c => ~Active(d)
EveryMemoryHasAPoint ==
  \A i \in DOMAIN memories :
    \/ \E p \in points : p.id = i
    \/ \E c \in Curators : Curating(c, Remembered) /\ curator[c].id = i
TidyRight == tidy => EveryMemoryHasAPoint /\ \A c \in Curators : TidyWriter(c)

MemoryInv ==
  /\ MemoryTyped /\ OwnIds /\ PointsNameWholeEvents /\ NoTwinWhenTidy /\ TidyRight
  /\ \A c \in Curators : WriterRight(c)

\* What a step of a writer leaves in place: it adds to the memory of its own id, if to any.
Grows(c) ==
  /\ written' \in Nat /\ written <= written'
  /\ memories' \in [DOMAIN memories' -> Memory]
  /\ \A i \in DOMAIN memories :
       /\ i \in DOMAIN memories' /\ memories'[i].triple = memories[i].triple
       /\ memories'[i].corpus = memories[i].corpus
       /\ memories[i].edges \subseteq memories'[i].edges
       /\ i # curator[c].id => memories'[i] = memories[i]
  /\ \A i \in DOMAIN memories' : i \in DOMAIN memories \/ i = curator[c].id
  /\ quarantined \subseteq quarantined'
  /\ \A i \in quarantined' : i \in quarantined \/ i = curator[c].id
  /\ points \subseteq points' /\ collections \subseteq collections'
  /\ points' \subseteq [id : Nat, corpus : Corpora, triple : Triples]
  /\ curator' \in [Curators -> Write] /\ \A d \in Curators : d # c => curator'[d] = curator[d]

\* What the provers need of a writer.
LEMMA WriterIsTyped ==
  ASSUME MemoryInv, NEW c \in Curators
  PROVE  /\ curator[c] \in Write /\ WriterRight(c)
         /\ Active(c) => /\ curator[c].id \in Nat /\ curator[c].id <= written
                         /\ curator[c].triple \in Triples
         /\ tidy => TidyWriter(c) /\ EveryMemoryHasAPoint
BY DEF MemoryInv, MemoryTyped, OwnIds, TidyRight, Write

\* A writer that does not move keeps what is true of it.
LEMMA OtherWritersRight ==
  ASSUME MemoryInv, NEW c \in Curators, Grows(c),
         Active(c) \/ (memories' = memories /\ quarantined' = quarantined),
         NEW d \in Curators, d # c
  PROVE  WriterRight(d)'
<1>1. curator'[d] = curator[d]
  BY DEF Grows
<1>2. CASE Active(d)
  <2>1. /\ curator[d].id \in DOMAIN memories =>
             /\ curator[d].id \in DOMAIN memories'
             /\ memories'[curator[d].id] = memories[curator[d].id]
        /\ curator[d].id \notin DOMAIN memories => curator[d].id \notin DOMAIN memories'
        /\ curator[d].id \notin quarantined => curator[d].id \notin quarantined'
    BY <1>2 DEF Grows, MemoryInv, OwnIds
  <2>2. WriterRight(d)
    BY WriterIsTyped
  <2>3. /\ Active(d)' => curator'[d].id \notin quarantined'
        /\ Curating(d, Unwritten)' => curator'[d].id \notin DOMAIN memories'
        /\ Curating(d, {"upsert"})' => curator'[d].filed \in collections'
        /\ Curating(d, {"discarded"})' => SaidBefore(d)'
    BY <1>1, <1>2, <2>1, <2>2 DEF WriterRight, Curating, Grows, SaidBefore
  <2>4. Curating(d, Remembered)' =>
          /\ curator'[d].id \in DOMAIN memories'
          /\ memories'[curator'[d].id].triple = curator'[d].triple
          /\ memories'[curator'[d].id].corpus = curator'[d].filed
    BY <1>1, <2>1, <2>2 DEF WriterRight, Curating
  <2>5. /\ Curating(d, {"objectEdge"})' => "subjectEdge" \in memories'[curator'[d].id].edges
        /\ Curating(d, Connected)' => memories'[curator'[d].id].edges = Edges
    BY <1>1, <2>1, <2>2 DEF WriterRight, Curating, Remembered, Connected
  <2>6. Curating(d, {"curate", "discarded"})' =>
          \A t \in curator'[d].hits :
            \E p \in points' : p.triple = t /\ p.corpus = curator'[d].corpus
    BY <1>1, <2>2 DEF WriterRight, Curating, Grows
  <2> QED
    BY <2>3, <2>4, <2>5, <2>6 DEF WriterRight
<1>3. CASE ~Active(d)
  BY <1>1, <1>3 DEF Active, WriterRight, Curating, Unwritten, Remembered, Connected
<1> QED
  BY <1>2, <1>3

\* A step of a writer keeps the invariant when it keeps what is said of the writer itself,
\* of the points and of the memories.
LEMMA WriterSteps ==
  ASSUME MemoryInv, NEW c \in Curators, Active(c), Grows(c), tidy' \in BOOLEAN, tidy' => tidy,
         Active(c)' => /\ curator'[c].id = curator[c].id
                       /\ curator'[c].triple = curator[c].triple
                       /\ curator'[c].corpus = curator[c].corpus
                       /\ curator'[c].filed = curator[c].filed,
         WriterRight(c)', PointsNameWholeEvents', NoTwinWhenTidy',
         tidy' => TidyFinds(c)' /\ EveryMemoryHasAPoint'
  PROVE  MemoryInv'
<1>1. /\ curator[c].id \in Nat /\ curator[c].id <= written /\ curator[c].triple \in Triples
      /\ written \in Nat /\ written' \in Nat /\ written <= written'
  BY WriterIsTyped DEF MemoryInv, MemoryTyped, Grows
<1>2. \A i \in DOMAIN memories' \cup quarantined' : i \in Nat /\ i <= written'
  <2>1. ASSUME NEW i \in DOMAIN memories' \cup quarantined'
        PROVE  i \in Nat /\ i <= written
    BY <1>1, <2>1 DEF Grows, MemoryInv, MemoryTyped
  <2> QED
    BY <1>1, <2>1
<1>3. MemoryTyped'
  BY <1>1, <1>2 DEF MemoryTyped, Grows
<1>4. OwnIds'
  <2>1. ASSUME NEW d \in Curators, Active(d)'
        PROVE  Active(d) /\ curator'[d].id = curator[d].id /\ curator'[d].triple = curator[d].triple
    BY <2>1 DEF Grows, Active
  <2>2. ASSUME NEW d \in Curators, Active(d)
        PROVE  curator[d].id \in Nat /\ curator[d].id <= written /\ curator[d].triple \in Triples
    BY <2>2, WriterIsTyped
  <2>3. ASSUME NEW d \in Curators, Active(d)
        PROVE  curator[d].id <= written'
    BY <1>1, <2>2, <2>3
  <2> QED
    BY <2>1, <2>2, <2>3 DEF OwnIds, MemoryInv
<1>5. \A d \in Curators : WriterRight(d)'
  BY OtherWritersRight
<1>6. ASSUME tidy', NEW d \in Curators
      PROVE  TidyWriter(d)'
  <2>1. /\ curator[c].corpus = curator[c].filed
        /\ \A e \in Curators : e # c => ~Active(e)
    BY <1>6, WriterIsTyped DEF TidyWriter
  <2>2. \A e \in Curators : e # c => ~Active(e)'
    BY <2>1 DEF Grows, Active
  <2> QED
    BY <1>6, <2>1, <2>2 DEF TidyWriter
<1>7. TidyRight'
  BY <1>6 DEF TidyRight
<1> QED
  BY <1>3, <1>4, <1>5, <1>7 DEF MemoryInv

\* A writer goes on to its next step.
LEMMA CuratorMoves ==
  ASSUME MemoryInv, NEW c \in Curators,
         NEW step \in {"rest"} \cup Unwritten \cup Remembered, CuratorAt(c, step)
  PROVE  /\ curator' \in [Curators -> Write]
         /\ \A d \in Curators : d # c => curator'[d] = curator[d]
         /\ curator'[c].at = step /\ curator'[c].id = curator[c].id
         /\ curator'[c].triple = curator[c].triple /\ curator'[c].corpus = curator[c].corpus
         /\ curator'[c].filed = curator[c].filed
         /\ curator'[c].hits = curator[c].hits
<1>1. curator \in [Curators -> Write] /\ curator[c] \in Write
  BY DEF MemoryInv, MemoryTyped
<1>2. curator' = [curator EXCEPT ![c] = [curator[c] EXCEPT !.at = step]]
  BY <1>1 DEF CuratorAt
<1>3. /\ [curator[c] EXCEPT !.at = step] \in Write /\ [curator[c] EXCEPT !.at = step].at = step
      /\ [curator[c] EXCEPT !.at = step].id = curator[c].id
      /\ [curator[c] EXCEPT !.at = step].triple = curator[c].triple
      /\ [curator[c] EXCEPT !.at = step].corpus = curator[c].corpus
      /\ [curator[c] EXCEPT !.at = step].filed = curator[c].filed
      /\ [curator[c] EXCEPT !.at = step].hits = curator[c].hits
  BY <1>1 DEF Write
<1> QED
  BY <1>1, <1>2, <1>3

\* A writer is through.
LEMMA CuratorRests ==
  ASSUME MemoryInv, NEW c \in Curators, Rests(c)
  PROVE  /\ curator' \in [Curators -> Write]
         /\ \A d \in Curators : d # c => curator'[d] = curator[d]
         /\ curator'[c].at = "rest" /\ ~Active(c)'
<1>1. NoWrite \in Write /\ NoWrite.at = "rest"
  BY MemoryStoreAssumption DEF NoWrite, Write, None
<1> QED
  BY <1>1 DEF Rests, MemoryInv, MemoryTyped, Active

\* Nothing is said of a writer that rests.
LEMMA RestIsRight ==
  ASSUME NEW c \in Curators, curator[c].at = "rest"
  PROVE  WriterRight(c) /\ TidyFinds(c)
BY DEF WriterRight, TidyFinds, Active, Curating, Unwritten, Remembered, Connected

\* A step that stores nothing: what is said of the writer is all there is to show, and that it
\* does not go to rest, while all is tidy, with a memory that has no point.
LEMMA QuietSteps ==
  ASSUME MemoryInv, NEW c \in Curators, Active(c),
         UNCHANGED <<memories, quarantined, points, collections, written>>,
         curator' \in [Curators -> Write], \A d \in Curators : d # c => curator'[d] = curator[d],
         tidy' \in BOOLEAN, tidy' => tidy,
         Active(c)' => /\ curator'[c].id = curator[c].id
                       /\ curator'[c].triple = curator[c].triple
                       /\ curator'[c].corpus = curator[c].corpus
                       /\ curator'[c].filed = curator[c].filed,
         WriterRight(c)', tidy' => TidyFinds(c)',
         tidy' /\ Curating(c, Remembered) => Curating(c, Remembered)'
  PROVE  MemoryInv'
<1>1. Grows(c)
  BY DEF Grows, MemoryInv, MemoryTyped
<1>2. PointsNameWholeEvents'
  BY DEF PointsNameWholeEvents, MemoryInv
<1>3. NoTwinWhenTidy'
  BY DEF NoTwinWhenTidy, MemoryInv
<1>4. ASSUME tidy'
      PROVE  EveryMemoryHasAPoint'
  <2>1. EveryMemoryHasAPoint
    BY <1>4, WriterIsTyped
  <2>2. ASSUME NEW d \in Curators, Curating(d, Remembered)
        PROVE  Curating(d, Remembered)' /\ curator'[d].id = curator[d].id
    <3>1. CASE d = c
      <4>1. Curating(c, Remembered)'
        BY <1>4, <2>2, <3>1
      <4>2. Active(c)'
        BY <4>1 DEF Curating, Active, Remembered, Connected
      <4> QED
        BY <3>1, <4>1, <4>2
    <3>2. CASE d # c
      BY <2>2, <3>2 DEF Curating
    <3> QED
      BY <3>1, <3>2
  <2> QED
    BY <2>1, <2>2 DEF EveryMemoryHasAPoint
<1> QED
  BY <1>1, <1>2, <1>3, <1>4, WriterSteps

\* The lookup finds what is stored in the corpus, or a part of it; while it is tidy, all of it.
LEMMA LooksUpIsRight ==
  ASSUME MemoryInv, NEW c \in Curators, LooksUp(c)
  PROVE  MemoryInv'
<1>1. PICK found \in UNION {SUBSET near : near \in Nearest(curator[c].corpus)} :
        /\ curator' = [curator EXCEPT ![c].at = "curate", ![c].hits = {p.triple : p \in found}]
        /\ tidy' = (tidy /\ found = PointsIn(curator[c].corpus))
  BY DEF LooksUp
<1>2. curator \in [Curators -> Write] /\ curator[c] \in Write /\ CuratorIs(c, "lookup")
  BY WriterIsTyped DEF MemoryInv, MemoryTyped, LooksUp
<1>3. found \subseteq PointsIn(curator[c].corpus)
  <2>1. \A near \in Nearest(curator[c].corpus) : near \subseteq PointsIn(curator[c].corpus)
    BY DEF Nearest
  <2> QED
    BY <1>1, <2>1
<1>4. {p.triple : p \in found} \subseteq Triples
  BY <1>3 DEF PointsIn, MemoryInv, MemoryTyped
<1>5. /\ curator' \in [Curators -> Write] /\ \A d \in Curators : d # c => curator'[d] = curator[d]
      /\ curator'[c].at = "curate" /\ curator'[c].id = curator[c].id
      /\ curator'[c].triple = curator[c].triple /\ curator'[c].corpus = curator[c].corpus
      /\ curator'[c].filed = curator[c].filed
      /\ curator'[c].hits = {p.triple : p \in found}
  <2> DEFINE hits == {p.triple : p \in found}
  <2> HIDE DEF hits
  <2>1. hits \subseteq Triples
    BY <1>4 DEF hits
  <2>2. curator' = [curator EXCEPT ![c].at = "curate", ![c].hits = hits]
    BY <1>1 DEF hits
  <2>3. curator' = [curator EXCEPT ![c] = [curator[c] EXCEPT !.at = "curate", !.hits = hits]]
    BY <1>2, <2>2
  <2>4. /\ [curator[c] EXCEPT !.at = "curate", !.hits = hits] \in Write
        /\ [curator[c] EXCEPT !.at = "curate", !.hits = hits].at = "curate"
        /\ [curator[c] EXCEPT !.at = "curate", !.hits = hits].id = curator[c].id
        /\ [curator[c] EXCEPT !.at = "curate", !.hits = hits].triple = curator[c].triple
        /\ [curator[c] EXCEPT !.at = "curate", !.hits = hits].corpus = curator[c].corpus
        /\ [curator[c] EXCEPT !.at = "curate", !.hits = hits].filed = curator[c].filed
        /\ [curator[c] EXCEPT !.at = "curate", !.hits = hits].hits = hits
    BY <1>2, <2>1 DEF Write, Unwritten
  <2>5. hits = {p.triple : p \in found}
    BY DEF hits
  <2> QED
    BY <1>2, <2>3, <2>4, <2>5
<1>6. Active(c) /\ UNCHANGED <<memories, quarantined, points, collections, written>>
  BY <1>2 DEF Active, CuratorIs, LooksUp
<1>7. tidy' = (tidy /\ found = PointsIn(curator[c].corpus))
  BY <1>1
<1>8. tidy' \in BOOLEAN /\ (tidy' => tidy)
  BY <1>7
<1>9. WriterRight(c)'
  <2>1. /\ curator[c].id \notin quarantined /\ curator[c].id \notin DOMAIN memories
    BY <1>2, <1>6, WriterIsTyped DEF WriterRight, CuratorIs, Curating, Unwritten
  <2>2. \A t \in {p.triple : p \in found} :
          \E p \in points : p.triple = t /\ p.corpus = curator[c].corpus
    BY <1>3 DEF PointsIn
  <2> QED
    BY <1>5, <1>6, <2>1, <2>2
       DEF WriterRight, Curating, Active, Unwritten, Remembered, Connected
<1>10. ASSUME tidy'
       PROVE  TidyFinds(c)'
  <2>1. tidy /\ found = PointsIn(curator[c].corpus)
    BY <1>7, <1>10
  <2>2. curator[c].corpus = curator[c].filed
    BY <1>6, <2>1, WriterIsTyped DEF TidyWriter
  <2>3. \A p \in points : p.corpus = curator[c].filed => p \in found
    BY <2>1, <2>2 DEF PointsIn
  <2> QED
    BY <1>5, <1>6, <2>3 DEF TidyFinds, Curating
<1>11. ~Curating(c, Remembered)
  BY <1>2 DEF CuratorIs, Curating, Remembered, Connected
<1> QED
  BY <1>5, <1>6, <1>8, <1>9, <1>10, <1>11, QuietSteps

\* Without an answer the writer has found nothing; it is not tidy any more.
LEMMA LookupDegradesIsRight ==
  ASSUME MemoryInv, NEW c \in Curators, LookupDegrades(c)
  PROVE  MemoryInv'
<1>1. curator \in [Curators -> Write] /\ curator[c] \in Write /\ CuratorIs(c, "lookup")
  BY WriterIsTyped DEF MemoryInv, MemoryTyped, LookupDegrades
<1>2. curator' = [curator EXCEPT ![c] = [curator[c] EXCEPT !.at = "curate", !.hits = {}]]
  BY <1>1 DEF LookupDegrades
<1>3. /\ [curator[c] EXCEPT !.at = "curate", !.hits = {}] \in Write
      /\ [curator[c] EXCEPT !.at = "curate", !.hits = {}].at = "curate"
      /\ [curator[c] EXCEPT !.at = "curate", !.hits = {}].id = curator[c].id
      /\ [curator[c] EXCEPT !.at = "curate", !.hits = {}].triple = curator[c].triple
      /\ [curator[c] EXCEPT !.at = "curate", !.hits = {}].corpus = curator[c].corpus
      /\ [curator[c] EXCEPT !.at = "curate", !.hits = {}].filed = curator[c].filed
      /\ [curator[c] EXCEPT !.at = "curate", !.hits = {}].hits = {}
  BY <1>1 DEF Write, Unwritten
<1>4. /\ curator' \in [Curators -> Write] /\ \A d \in Curators : d # c => curator'[d] = curator[d]
      /\ curator'[c].at = "curate" /\ curator'[c].id = curator[c].id
      /\ curator'[c].triple = curator[c].triple /\ curator'[c].corpus = curator[c].corpus
      /\ curator'[c].filed = curator[c].filed
      /\ curator'[c].hits = {}
  BY <1>1, <1>2, <1>3
<1>5. /\ Active(c) /\ UNCHANGED <<memories, quarantined, points, collections, written>>
      /\ tidy' = FALSE
  BY <1>1 DEF Active, CuratorIs, LookupDegrades
<1>6. WriterRight(c)'
  <2>1. curator[c].id \notin quarantined /\ curator[c].id \notin DOMAIN memories
    BY <1>1, <1>5, WriterIsTyped DEF WriterRight, CuratorIs, Curating, Unwritten
  <2> QED
    BY <1>4, <1>5, <2>1 DEF WriterRight, Curating, Active, Unwritten, Remembered, Connected
<1> QED
  BY <1>4, <1>5, <1>6, QuietSteps

\* A repetition is dropped, anything else goes to the guard.
LEMMA CuratedIsRight ==
  ASSUME MemoryInv, NEW c \in Curators, Curated(c)
  PROVE  MemoryInv'
<1>1. CuratorIs(c, "curate") /\ Active(c) /\ tidy' = tidy
      /\ UNCHANGED <<memories, quarantined, points, collections, written>>
  BY DEF Active, CuratorIs, Curated
<1>2. PICK step \in {"discarded", "guard"} :
        /\ CuratorAt(c, step)
        /\ step = "discarded" <=> SaidBefore(c)
  BY DEF Curated, Curate, SaidBefore
<1>3. /\ curator' \in [Curators -> Write] /\ \A d \in Curators : d # c => curator'[d] = curator[d]
      /\ curator'[c].at = step /\ curator'[c].id = curator[c].id
      /\ curator'[c].triple = curator[c].triple /\ curator'[c].corpus = curator[c].corpus
      /\ curator'[c].filed = curator[c].filed
      /\ curator'[c].hits = curator[c].hits
  BY <1>2, CuratorMoves DEF Unwritten
<1>4. tidy' \in BOOLEAN /\ (tidy' => tidy)
  BY <1>1 DEF MemoryInv, MemoryTyped
<1>5. WriterRight(c)'
  <2>1. /\ curator[c].id \notin quarantined /\ curator[c].id \notin DOMAIN memories
        /\ \A t \in curator[c].hits : \E p \in points : p.triple = t /\ p.corpus = curator[c].corpus
    BY <1>1, WriterIsTyped DEF WriterRight, CuratorIs, Curating, Unwritten
  <2>2. SaidBefore(c) <=> SaidBefore(c)'
    BY <1>3 DEF SaidBefore
  <2> QED
    BY <1>1, <1>2, <1>3, <2>1, <2>2
       DEF WriterRight, Curating, Active, Unwritten, Remembered, Connected
<1>6. ASSUME tidy'
      PROVE  TidyFinds(c)'
  <2>1. TidyWriter(c) /\ EveryMemoryHasAPoint
    BY <1>4, <1>6, WriterIsTyped
  <2>2. \A p \in points : p.corpus = curator[c].filed => p.triple \in curator[c].hits
    BY <1>1, <2>1 DEF TidyWriter, TidyFinds, CuratorIs, Curating
  <2>3. \A d \in Curators : ~Curating(d, Remembered)
    BY <1>1, <2>1 DEF TidyWriter, CuratorIs, Curating, Active, Remembered, Connected
  <2>4. ASSUME step = "guard", NEW i \in DOMAIN memories, memories[i].corpus = curator[c].filed
        PROVE  Words[memories[i].triple] # Words[curator[c].triple]
    <3>1. PICK p \in points : p.id = i
      BY <2>1, <2>3 DEF EveryMemoryHasAPoint
    <3>2. memories[i].triple = p.triple /\ memories[i].corpus = p.corpus
      BY <3>1 DEF MemoryInv, PointsNameWholeEvents
    <3> QED
      BY <1>2, <2>2, <2>4, <3>2 DEF SaidBefore
  <2> QED
    BY <1>1, <1>3, <2>4 DEF TidyFinds, Curating, IsNew
<1>7. ~Curating(c, Remembered)
  BY <1>1 DEF CuratorIs, Curating, Remembered, Connected
<1> QED
  BY <1>1, <1>3, <1>4, <1>5, <1>6, <1>7, QuietSteps

\* The writer is through, with nothing stored by the step: the claim is a repetition, or refused,
\* or a call has failed.
LEMMA RestsIsRight ==
  ASSUME MemoryInv, NEW c \in Curators,
         Discarded(c) \/ Refused(c) \/ WriteRaises(c) \/ SemanticLaneFails(c)
  PROVE  MemoryInv'
<1>1. /\ Active(c) /\ Rests(c) /\ UNCHANGED <<memories, quarantined, points, collections, written>>
      /\ \/ tidy' = FALSE
         \/ tidy' = tidy /\ ~Curating(c, Remembered)
  BY DEF Discarded, Refused, WriteRaises, SemanticLaneFails, CuratorIs, Active, Curating,
     Remembered,
         Connected
<1>2. /\ curator' \in [Curators -> Write] /\ \A d \in Curators : d # c => curator'[d] = curator[d]
      /\ curator'[c].at = "rest" /\ ~Active(c)'
  BY <1>1, CuratorRests
<1>3. tidy' \in BOOLEAN /\ (tidy' => tidy)
  <2>1. tidy \in BOOLEAN
    BY DEF MemoryInv, MemoryTyped
  <2>2. tidy' = FALSE \/ tidy' = tidy
    BY <1>1
  <2>3. CASE tidy' = FALSE
    BY <2>3
  <2>4. CASE tidy' = tidy
    BY <2>1, <2>4
  <2> QED
    BY <2>2, <2>3, <2>4
<1>4. WriterRight(c)' /\ TidyFinds(c)'
  BY <1>2 DEF WriterRight, TidyFinds, Active, Curating, Unwritten, Remembered, Connected
<1> QED
  BY <1>1, <1>2, <1>3, <1>4, QuietSteps

\* The step that follows another one in write_event.
LEMMA FollowingIs ==
  /\ Following("entities") = "event" /\ Following("event") = "subjectEdge"
  /\ Following("subjectEdge") = "objectEdge" /\ Following("objectEdge") = "index"
  /\ Following("index") = "embed"
<1> DEFINE At(step) == CHOOSE i \in 1..5 : GraphSteps[i] = step
<1>1. /\ GraphSteps[1] = "entities" /\ GraphSteps[2] = "event" /\ GraphSteps[3] = "subjectEdge"
      /\ GraphSteps[4] = "objectEdge" /\ GraphSteps[5] = "index" /\ GraphSteps[6] = "embed"
  BY DEF GraphSteps
<1>2. \A i \in 1..5 : i = 1 \/ i = 2 \/ i = 3 \/ i = 4 \/ i = 5
  OBVIOUS
<1>3. /\ At("entities") = 1 /\ At("event") = 2 /\ At("subjectEdge") = 3 /\ At("objectEdge") = 4
      /\ At("index") = 5
  BY <1>1, <1>2
<1>4. 1 + 1 = 2 /\ 1 + 2 = 3 /\ 1 + 3 = 4 /\ 1 + 4 = 5 /\ 1 + 5 = 6
  OBVIOUS
<1> QED
  BY <1>1, <1>3, <1>4 DEF Following

\* A step that only goes on: let through, the entities, the index, the way to the vector store.
LEMMA GoesOnIsRight ==
  ASSUME MemoryInv, NEW c \in Curators,
         Allowed(c) \/ Embeds(c) \/ (WriteStep(c) /\ curator[c].at \in {"entities", "index"})
  PROVE  MemoryInv'
<1>1. /\ UNCHANGED <<memories, quarantined, points, collections, written>> /\ tidy' = tidy
      /\ \/ CuratorIs(c, "guard") /\ CuratorAt(c, "entities")
         \/ CuratorIs(c, "entities") /\ CuratorAt(c, "event")
         \/ CuratorIs(c, "index") /\ CuratorAt(c, "embed")
         \/ CuratorIs(c, "embed") /\ curator[c].filed \in collections /\ CuratorAt(c, "upsert")
         \/ CuratorIs(c, "embed") /\ curator[c].filed \notin collections /\ CuratorAt(c, "create")
  BY FollowingIs DEF Allowed, Embeds, WriteStep, Stored, CuratorIs
<1>2. PICK step \in {"entities", "event", "embed", "upsert", "create"} :
        /\ CuratorAt(c, step)
        /\ \/ step \in {"entities", "event"} /\ curator[c].at \in {"guard", "entities"}
           \/ step \in {"embed", "upsert", "create"} /\ curator[c].at \in Connected
        /\ step = "upsert" => curator[c].filed \in collections
        /\ step = "create" => curator[c].filed \notin collections
  BY <1>1 DEF CuratorIs, Connected
<1>3. /\ curator' \in [Curators -> Write] /\ \A d \in Curators : d # c => curator'[d] = curator[d]
      /\ curator'[c].at = step /\ curator'[c].id = curator[c].id
      /\ curator'[c].triple = curator[c].triple /\ curator'[c].corpus = curator[c].corpus
      /\ curator'[c].filed = curator[c].filed
      /\ curator'[c].hits = curator[c].hits
  BY <1>2, CuratorMoves DEF Unwritten, Remembered, Connected
<1>4. tidy' \in BOOLEAN /\ (tidy' => tidy) /\ Active(c)
  BY <1>1, <1>2 DEF MemoryInv, MemoryTyped, Active, Connected
<1>5. WriterRight(c)
  BY WriterIsTyped
<1>6. WriterRight(c)'
  BY <1>1, <1>2, <1>3, <1>4, <1>5
     DEF WriterRight, Curating, Active, Unwritten, Remembered, Connected
<1>7. ASSUME tidy'
      PROVE  TidyFinds(c)'
  <2>1. TidyFinds(c)
    BY <1>4, <1>7, WriterIsTyped DEF TidyWriter
  <2> QED
    BY <1>1, <1>2, <1>3, <2>1 DEF TidyFinds, Curating, Connected, IsNew
<1>8. Curating(c, Remembered) => Curating(c, Remembered)'
  BY <1>2, <1>3 DEF Curating, Remembered, Connected
<1> QED
  BY <1>1, <1>3, <1>4, <1>6, <1>7, <1>8, QuietSteps

\* A write that begins has an id nobody has had; it is tidy when nobody else is writing.
LEMMA CurateAskedIsRight ==
  ASSUME MemoryInv, NEW c \in Curators, NEW t \in Triples, NEW corpus \in Corpora,
         NEW filed \in Corpora, CurateAsked(c, t, corpus, filed)
  PROVE  MemoryInv'
<1>1. /\ CuratorIs(c, "rest") /\ written' = written + 1 /\ written \in Nat /\ written' \in Nat
      /\ UNCHANGED <<memories, quarantined, points, collections>>
  BY DEF CurateAsked, MemoryInv, MemoryTyped
<1>2. /\ curator' \in [Curators -> Write] /\ \A d \in Curators : d # c => curator'[d] = curator[d]
      /\ curator'[c].at = "lookup" /\ curator'[c].id = written + 1
      /\ curator'[c].triple = t /\ curator'[c].corpus = corpus /\ curator'[c].filed = filed
  <2> DEFINE w == [NoWrite EXCEPT !.at = "lookup", !.id = written + 1, !.triple = t,
                                  !.corpus = corpus, !.filed = filed]
  <2>1. NoWrite \in Write
    BY MemoryStoreAssumption DEF NoWrite, Write, None
  <2>2. /\ w \in Write /\ w.at = "lookup" /\ w.id = written + 1 /\ w.triple = t
        /\ w.corpus = corpus /\ w.filed = filed
    BY <1>1, <2>1 DEF Write, Unwritten
  <2>3. curator' = [curator EXCEPT ![c] = w]
    BY DEF CurateAsked
  <2> QED
    BY <2>2, <2>3 DEF MemoryInv, MemoryTyped
<1>3. tidy' \in BOOLEAN /\ (tidy' => tidy /\ corpus = filed /\ \A o \in Curators : ~Active(o))
  BY DEF CurateAsked, Active, CuratorIs
<1>4. Grows(c)
  <2>1. written <= written'
    BY <1>1
  <2> QED
    BY <1>1, <1>2, <2>1 DEF Grows, MemoryInv, MemoryTyped
<1>5. MemoryTyped'
  <2>1. \A i \in DOMAIN memories \cup quarantined : i \in Nat /\ i <= written
    BY DEF MemoryInv, MemoryTyped
  <2>2. \A i \in DOMAIN memories \cup quarantined : i \in Nat /\ i <= written'
    BY <1>1, <2>1
  <2>3. memories \in [DOMAIN memories -> Memory]
    BY DEF MemoryInv, MemoryTyped
  <2>4. points \subseteq [id : Nat, corpus : Corpora, triple : Triples]
    BY DEF MemoryInv, MemoryTyped
  <2>5. /\ memories' \in [DOMAIN memories' -> Memory]
        /\ points' \subseteq [id : Nat, corpus : Corpora, triple : Triples]
        /\ \A i \in DOMAIN memories' \cup quarantined' : i \in Nat /\ i <= written'
    BY <1>1, <2>2, <2>3, <2>4
  <2> QED
    BY <1>1, <1>2, <1>3, <2>5 DEF MemoryTyped
<1>6. OwnIds'
  <2>1. \A d \in Curators : d # c /\ Active(d)' =>
          /\ Active(d) /\ curator'[d].id = curator[d].id /\ curator[d].id \in Nat
          /\ curator[d].id <= written /\ curator'[d].triple \in Triples
    BY <1>2, WriterIsTyped DEF Active
  <2>2. \A d \in Curators : d # c /\ Active(d)' =>
          curator'[d].id <= written' /\ curator'[d].id # curator'[c].id
    BY <1>1, <1>2, <2>1
  <2>3. curator'[c].id <= written' /\ curator'[c].triple \in Triples
    BY <1>1, <1>2
  <2>4. \A d, e \in Curators :
          (d # e /\ d # c /\ e # c /\ Active(d)' /\ Active(e)') => curator'[d].id # curator'[e].id
    BY <2>1 DEF MemoryInv, OwnIds
  <2> QED
    BY <2>1, <2>2, <2>3, <2>4 DEF OwnIds
<1>7. \A d \in Curators : d # c => WriterRight(d)'
  BY <1>1, <1>4, OtherWritersRight
<1>8. WriterRight(c)'
  <2>1. written + 1 \notin DOMAIN memories /\ written + 1 \notin quarantined
    BY <1>1 DEF MemoryInv, MemoryTyped
  <2> QED
    BY <1>1, <1>2, <2>1 DEF WriterRight, Curating, Active, Unwritten, Remembered, Connected
<1>9. PointsNameWholeEvents'
  BY <1>1 DEF PointsNameWholeEvents, MemoryInv
<1>10. NoTwinWhenTidy'
  BY <1>1, <1>3 DEF NoTwinWhenTidy, MemoryInv
<1>11. ASSUME tidy'
       PROVE  EveryMemoryHasAPoint' /\ \A d \in Curators : TidyWriter(d)'
  <2>1. tidy /\ corpus = filed /\ \A o \in Curators : ~Active(o)
    BY <1>3, <1>11
  <2>2. EveryMemoryHasAPoint'
    <3>1. \A o \in Curators : ~Curating(o, Remembered)
      BY <2>1 DEF Active, Curating, Remembered, Connected
    <3> QED
      BY <1>1, <2>1, <3>1, WriterIsTyped DEF EveryMemoryHasAPoint, MemoryInv, TidyRight
  <2>3. \A d \in Curators : d # c => ~Active(d)'
    BY <1>2, <2>1 DEF Active
  <2>4. TidyFinds(c)'
    BY <1>2 DEF TidyFinds, Curating
  <2> QED
    BY <1>2, <2>1, <2>2, <2>3, <2>4 DEF TidyWriter
<1> QED
  BY <1>5, <1>6, <1>7, <1>8, <1>9, <1>10, <1>11 DEF MemoryInv, TidyRight

\* What is set aside is nobody's memory.
LEMMA QuarantinesIsRight ==
  ASSUME MemoryInv, NEW c \in Curators, Quarantines(c)
  PROVE  MemoryInv'
<1>1. /\ CuratorIs(c, "guard") /\ Active(c) /\ quarantined' = quarantined \cup {curator[c].id}
      /\ UNCHANGED <<memories, points, collections, written>> /\ tidy' = tidy
  BY DEF Quarantines, Active, CuratorIs
<1>2. /\ curator' \in [Curators -> Write] /\ \A d \in Curators : d # c => curator'[d] = curator[d]
      /\ curator'[c].at = "rest" /\ ~Active(c)'
  BY CuratorRests DEF Quarantines
<1>3. tidy' \in BOOLEAN /\ (tidy' => tidy)
  BY <1>1 DEF MemoryInv, MemoryTyped
<1>4. Grows(c)
  BY <1>1, <1>2 DEF Grows, MemoryInv, MemoryTyped
<1>5. WriterRight(c)' /\ TidyFinds(c)'
  BY <1>2 DEF WriterRight, TidyFinds, Active, Curating, Unwritten, Remembered, Connected
<1>6. PointsNameWholeEvents'
  <2>1. curator[c].id \notin DOMAIN memories
    BY <1>1, WriterIsTyped DEF WriterRight, CuratorIs, Curating, Unwritten
  <2> QED
    BY <1>1, <2>1 DEF PointsNameWholeEvents, MemoryInv
<1>7. NoTwinWhenTidy'
  BY <1>1, <1>3 DEF NoTwinWhenTidy, MemoryInv
<1>8. ASSUME tidy'
      PROVE  EveryMemoryHasAPoint'
  <2>1. EveryMemoryHasAPoint
    BY <1>3, <1>8, WriterIsTyped
  <2>2. \A d \in Curators : Curating(d, Remembered) => d # c
    BY <1>1 DEF CuratorIs, Curating, Remembered, Connected
  <2> QED
    BY <1>1, <1>2, <2>1, <2>2 DEF EveryMemoryHasAPoint, Curating
<1> QED
  BY <1>1, <1>2, <1>3, <1>4, <1>5, <1>6, <1>7, <1>8, WriterSteps

\* The node of the memory: new, and while it is tidy the first one to say so.
LEMMA EventIsRight ==
  ASSUME MemoryInv, NEW c \in Curators, WriteStep(c), curator[c].at = "event"
  PROVE  MemoryInv'
<1>1. /\ Active(c) /\ UNCHANGED <<quarantined, points, collections, written>> /\ tidy' = tidy
      /\ CuratorAt(c, "subjectEdge")
  BY FollowingIs DEF WriteStep, Active
<1>2. /\ curator' \in [Curators -> Write] /\ \A d \in Curators : d # c => curator'[d] = curator[d]
      /\ curator'[c].at = "subjectEdge" /\ curator'[c].id = curator[c].id
      /\ curator'[c].triple = curator[c].triple /\ curator'[c].corpus = curator[c].corpus
      /\ curator'[c].filed = curator[c].filed
  BY <1>1, CuratorMoves DEF Remembered
<1>3. /\ curator[c].id \notin DOMAIN memories /\ curator[c].id \notin quarantined
      /\ curator[c].triple \in Triples
  BY <1>1, WriterIsTyped DEF WriterRight, Curating, Unwritten
<1>4. /\ memories' \in [DOMAIN memories' -> Memory]
      /\ DOMAIN memories' = DOMAIN memories \cup {curator[c].id}
      /\ memories'[curator[c].id].triple = curator[c].triple
      /\ memories'[curator[c].id].corpus = curator[c].filed
      /\ \A i \in DOMAIN memories : memories'[i] = memories[i] /\ memories[i] \in Memory
  <2> DEFINE new == [triple |-> curator[c].triple, corpus |-> curator[c].filed, edges |-> {}]
  <2>1. new \in Memory /\ new.triple = curator[c].triple /\ new.corpus = curator[c].filed
    BY <1>3, WriterIsTyped DEF Memory, Write
  <2>2. memories' = [i \in DOMAIN memories \cup {curator[c].id} |->
                       IF i = curator[c].id THEN new ELSE memories[i]]
    BY DEF WriteStep, Stored
  <2>3. \A i \in DOMAIN memories : memories[i] \in Memory
    BY DEF MemoryInv, MemoryTyped
  <2> HIDE DEF new
  <2> QED
    BY <1>3, <2>1, <2>2, <2>3
<1>5. tidy' \in BOOLEAN /\ (tidy' => tidy)
  BY <1>1 DEF MemoryInv, MemoryTyped
<1>6. Grows(c)
  BY <1>1, <1>2, <1>3, <1>4 DEF Grows, MemoryInv, MemoryTyped
<1>7. WriterRight(c)'
  BY <1>1, <1>2, <1>3, <1>4 DEF WriterRight, Curating, Active, Unwritten, Remembered, Connected
<1>8. PointsNameWholeEvents'
  BY <1>1, <1>3, <1>4 DEF PointsNameWholeEvents, MemoryInv
<1>9. ASSUME tidy'
      PROVE  /\ IsNew(curator[c])
             /\ EveryMemoryHasAPoint /\ NoTwinWhenTidy /\ tidy
  BY <1>1, <1>5, <1>9, WriterIsTyped DEF TidyWriter, TidyFinds, Curating, MemoryInv
<1>10. NoTwinWhenTidy'
  BY <1>4, <1>9 DEF NoTwinWhenTidy, IsNew
<1>11. ASSUME tidy'
       PROVE  TidyFinds(c)' /\ EveryMemoryHasAPoint'
  <2>1. TidyFinds(c)'
    BY <1>2 DEF TidyFinds, Curating
  <2>2. Curating(c, Remembered)'
    BY <1>2 DEF Curating, Remembered
  <2>3. \A d \in Curators : Curating(d, Remembered) =>
          Curating(d, Remembered)' /\ curator'[d].id = curator[d].id
    BY <1>2, <2>2 DEF Curating
  <2> QED
    BY <1>1, <1>2, <1>4, <1>9, <1>11, <2>1, <2>2, <2>3 DEF EveryMemoryHasAPoint
<1> QED
  BY <1>1, <1>2, <1>5, <1>6, <1>7, <1>8, <1>10, <1>11, WriterSteps

\* An edge of the memory.
LEMMA EdgeIsRight ==
  ASSUME MemoryInv, NEW c \in Curators, WriteStep(c), curator[c].at \in Edges
  PROVE  MemoryInv'
<1> DEFINE id == curator[c].id
<1>1. /\ Active(c) /\ UNCHANGED <<quarantined, points, collections, written>> /\ tidy' = tidy
      /\ CuratorAt(c, Following(curator[c].at))
  BY DEF WriteStep, Active, Edges
<1>2. /\ curator[c].at = "subjectEdge" => Following(curator[c].at) = "objectEdge"
      /\ curator[c].at = "objectEdge" => Following(curator[c].at) = "index"
  BY FollowingIs
<1>3. Following(curator[c].at) \in {"objectEdge", "index"}
  BY <1>2 DEF Edges
<1>4. /\ curator' \in [Curators -> Write] /\ \A d \in Curators : d # c => curator'[d] = curator[d]
      /\ curator'[c].at = Following(curator[c].at) /\ curator'[c].id = id
      /\ curator'[c].triple = curator[c].triple /\ curator'[c].corpus = curator[c].corpus
      /\ curator'[c].filed = curator[c].filed
  BY <1>1, <1>3, CuratorMoves DEF Remembered, Connected
<1>5. /\ id \in DOMAIN memories /\ memories[id].triple = curator[c].triple
      /\ memories[id].corpus = curator[c].filed
      /\ id \notin quarantined
      /\ curator[c].at = "objectEdge" => "subjectEdge" \in memories[id].edges
  BY <1>1, WriterIsTyped DEF WriterRight, Curating, Remembered, Edges
<1>6. /\ memories \in [DOMAIN memories -> Memory] /\ memories[id] \in Memory
      /\ memories[id].edges \subseteq Edges
  BY <1>5 DEF MemoryInv, MemoryTyped, Memory
<1>7. /\ memories' \in [DOMAIN memories -> Memory] /\ memories'[id].triple = memories[id].triple
      /\ memories'[id].corpus = memories[id].corpus
      /\ memories'[id].edges = memories[id].edges \cup {curator[c].at}
      /\ \A i \in DOMAIN memories : i # id => memories'[i] = memories[i]
  <2>1. memories' = [memories EXCEPT ![id].edges = memories[id].edges \cup {curator[c].at}]
    BY <1>5, <1>6 DEF WriteStep, Stored, Edges
  <2>2. memories[id].edges \cup {curator[c].at} \subseteq Edges
    BY <1>6
  <2> DEFINE both == memories[id].edges \cup {curator[c].at}
  <2>3. both \subseteq Edges /\ memories' = [memories EXCEPT ![id].edges = both]
    BY <2>1, <2>2
  <2> HIDE DEF both
  <2>4. [memories[id] EXCEPT !.edges = both] \in Memory
    BY <1>6, <2>3 DEF Memory
  <2>5. /\ memories' \in [DOMAIN memories -> Memory] /\ memories'[id].triple = memories[id].triple
        /\ memories'[id].corpus = memories[id].corpus
        /\ memories'[id].edges = both
        /\ \A i \in DOMAIN memories : i # id => memories'[i] = memories[i]
    BY <1>5, <1>6, <2>3, <2>4 DEF Memory
  <2> QED
    BY <2>5 DEF both
<1>8. DOMAIN memories' = DOMAIN memories
  BY <1>7
<1>9. tidy' \in BOOLEAN /\ (tidy' => tidy)
  BY <1>1 DEF MemoryInv, MemoryTyped
<1>10. \A i \in DOMAIN memories :
         /\ memories'[i].triple = memories[i].triple /\ memories'[i].corpus = memories[i].corpus
         /\ memories[i].edges \subseteq memories'[i].edges
  BY <1>7
<1>11. Grows(c)
  <2>1. \A i \in DOMAIN memories :
          /\ i \in DOMAIN memories' /\ memories'[i].triple = memories[i].triple
          /\ memories'[i].corpus = memories[i].corpus
          /\ memories[i].edges \subseteq memories'[i].edges
          /\ i # curator[c].id => memories'[i] = memories[i]
    BY <1>7, <1>8, <1>10
  <2>2. memories' \in [DOMAIN memories' -> Memory]
    BY <1>7, <1>8
  <2>3. \A i \in DOMAIN memories' : i \in DOMAIN memories \/ i = curator[c].id
    BY <1>8
  <2>4. /\ written' \in Nat /\ written <= written'
        /\ points' \subseteq [id : Nat, corpus : Corpora, triple : Triples]
    BY <1>1 DEF MemoryInv, MemoryTyped
  <2> QED
    BY <1>1, <1>4, <2>1, <2>2, <2>3, <2>4 DEF Grows
<1>12. curator[c].at = "objectEdge" => memories'[id].edges = Edges
  BY <1>5, <1>6, <1>7 DEF Edges
<1>13. WriterRight(c)'
  <2>1. curator'[c].at \in {"objectEdge", "index"} /\ curator'[c].id \in DOMAIN memories'
    BY <1>3, <1>4, <1>5, <1>8
  <2>2. /\ memories'[curator'[c].id].triple = curator'[c].triple
        /\ memories'[curator'[c].id].corpus = curator'[c].filed
        /\ curator'[c].id \notin quarantined'
    BY <1>1, <1>4, <1>5, <1>7
  <2>3. curator'[c].at = "objectEdge" => "subjectEdge" \in memories'[curator'[c].id].edges
    BY <1>2, <1>4, <1>7 DEF Edges
  <2>4. curator'[c].at = "index" => memories'[curator'[c].id].edges = Edges
    BY <1>2, <1>4, <1>12 DEF Edges
  <2> QED
    BY <2>1, <2>2, <2>3, <2>4 DEF WriterRight, Curating, Active, Unwritten, Remembered, Connected
<1>14. PointsNameWholeEvents'
  <2>1. ASSUME NEW p \in points
        PROVE  /\ p.id \in DOMAIN memories /\ p.corpus \in collections
               /\ memories[p.id].triple = p.triple /\ memories[p.id].corpus = p.corpus
               /\ memories[p.id].edges = {"subjectEdge", "objectEdge"}
    BY DEF MemoryInv, PointsNameWholeEvents
  <2>2. ASSUME NEW p \in points
        PROVE  memories'[p.id].edges = {"subjectEdge", "objectEdge"}
    <3>1. CASE p.id = id
      BY <1>7, <2>1, <3>1 DEF Edges
    <3>2. CASE p.id # id
      BY <1>7, <2>1, <3>2
    <3> QED
      BY <3>1, <3>2
  <2>3. DOMAIN memories' \cap quarantined' = {}
    BY <1>1, <1>8 DEF MemoryInv, PointsNameWholeEvents
  <2> QED
    BY <1>1, <1>8, <1>10, <2>1, <2>2, <2>3 DEF PointsNameWholeEvents
<1>15. NoTwinWhenTidy'
  BY <1>8, <1>9, <1>10 DEF NoTwinWhenTidy, MemoryInv
<1>16. ASSUME tidy'
       PROVE  TidyFinds(c)' /\ EveryMemoryHasAPoint'
  <2>1. TidyFinds(c)'
    BY <1>3, <1>4 DEF TidyFinds, Curating
  <2>2. Curating(c, Remembered)'
    BY <1>3, <1>4 DEF Curating, Remembered, Connected
  <2>3. \A d \in Curators : Curating(d, Remembered) =>
          Curating(d, Remembered)' /\ curator'[d].id = curator[d].id
    BY <1>4, <2>2 DEF Curating
  <2>4. EveryMemoryHasAPoint
    BY <1>9, <1>16, WriterIsTyped
  <2> QED
    BY <1>1, <1>8, <2>1, <2>3, <2>4 DEF EveryMemoryHasAPoint
<1> QED
  BY <1>1, <1>4, <1>9, <1>11, <1>13, <1>14, <1>15, <1>16, WriterSteps

\* While it is tidy nobody else makes the collection, and the writer goes on to its point.
LEMMA CreatesCollectionIsRight ==
  ASSUME MemoryInv, NEW c \in Curators, CreatesCollection(c)
  PROVE  MemoryInv'
<1>1. /\ CuratorIs(c, "create") /\ Active(c) /\ collections' = collections \cup {curator[c].filed}
      /\ UNCHANGED <<memories, quarantined, points, written>> /\ tidy' = tidy
      /\ \/ curator[c].filed \in collections /\ Rests(c)
         \/ curator[c].filed \notin collections /\ CuratorAt(c, "upsert")
  BY DEF CreatesCollection, Active, CuratorIs
<1>2. tidy' \in BOOLEAN /\ (tidy' => tidy)
  BY <1>1 DEF MemoryInv, MemoryTyped
<1>3. \/ curator[c].filed \in collections /\ ~Active(c)' /\ curator'[c].at = "rest"
      \/ /\ curator[c].filed \notin collections /\ curator'[c].at = "upsert"
         /\ curator'[c].id = curator[c].id /\ curator'[c].triple = curator[c].triple
         /\ curator'[c].corpus = curator[c].corpus
         /\ curator'[c].filed = curator[c].filed
  BY <1>1, CuratorMoves, CuratorRests DEF Remembered, Connected
<1>4. curator' \in [Curators -> Write] /\ \A d \in Curators : d # c => curator'[d] = curator[d]
  BY <1>1, CuratorMoves, CuratorRests DEF Remembered, Connected
<1>5. Grows(c)
  BY <1>1, <1>4 DEF Grows, MemoryInv, MemoryTyped
<1>6. WriterRight(c)'
  <2>1. /\ curator[c].id \notin quarantined /\ curator[c].id \in DOMAIN memories
        /\ memories[curator[c].id].triple = curator[c].triple
        /\ memories[curator[c].id].corpus = curator[c].filed
        /\ memories[curator[c].id].edges = Edges
    BY <1>1, WriterIsTyped DEF WriterRight, CuratorIs, Curating, Remembered, Connected
  <2> QED
    BY <1>1, <1>3, <2>1 DEF WriterRight, Curating, Active, Unwritten, Remembered, Connected
<1>7. PointsNameWholeEvents'
  BY <1>1 DEF PointsNameWholeEvents, MemoryInv
<1>8. NoTwinWhenTidy'
  BY <1>1, <1>2 DEF NoTwinWhenTidy, MemoryInv
<1>9. ASSUME tidy'
      PROVE  TidyFinds(c)' /\ EveryMemoryHasAPoint'
  <2>1. TidyWriter(c) /\ EveryMemoryHasAPoint
    BY <1>2, <1>9, WriterIsTyped
  <2>2. curator[c].filed \notin collections
    BY <1>1, <2>1 DEF TidyWriter, TidyFinds, CuratorIs, Curating
  <2>3. curator'[c].at = "upsert" /\ curator'[c].id = curator[c].id
    BY <1>3, <2>2
  <2>4. TidyFinds(c)'
    BY <2>3 DEF TidyFinds, Curating
  <2>5. Curating(c, Remembered)'
    BY <2>3 DEF Curating, Remembered, Connected
  <2>6. \A d \in Curators : Curating(d, Remembered) =>
          Curating(d, Remembered)' /\ curator'[d].id = curator[d].id
    BY <1>4, <2>3, <2>5 DEF Curating
  <2> QED
    BY <1>1, <2>1, <2>4, <2>6 DEF EveryMemoryHasAPoint
<1> QED
  BY <1>1, <1>2, <1>3, <1>4, <1>5, <1>6, <1>7, <1>8, <1>9, WriterSteps

\* The point, after all that it stands for.
LEMMA UpsertsIsRight ==
  ASSUME MemoryInv, NEW c \in Curators, Upserts(c)
  PROVE  MemoryInv'
<1>1. /\ CuratorIs(c, "upsert") /\ Active(c) /\ points' = points \cup {Point(curator[c])}
      /\ UNCHANGED <<memories, quarantined, collections, written>> /\ tidy' = tidy
  BY DEF Upserts, Active, CuratorIs
<1>2. /\ curator' \in [Curators -> Write] /\ \A d \in Curators : d # c => curator'[d] = curator[d]
      /\ curator'[c].at = "rest" /\ ~Active(c)'
  BY CuratorRests DEF Upserts
<1>3. tidy' \in BOOLEAN /\ (tidy' => tidy)
  BY <1>1 DEF MemoryInv, MemoryTyped
<1>4. /\ Point(curator[c]) \in [id : Nat, corpus : Corpora, triple : Triples]
      /\ Point(curator[c]).id = curator[c].id /\ Point(curator[c]).corpus = curator[c].filed
      /\ Point(curator[c]).triple = curator[c].triple
  BY <1>1, WriterIsTyped DEF Point, Write
<1>5. Grows(c)
  BY <1>1, <1>2, <1>4 DEF Grows, MemoryInv, MemoryTyped
<1>6. WriterRight(c)' /\ TidyFinds(c)'
  BY <1>2 DEF WriterRight, TidyFinds, Active, Curating, Unwritten, Remembered, Connected
<1>7. PointsNameWholeEvents'
  <2>1. /\ curator[c].id \in DOMAIN memories /\ curator[c].filed \in collections
        /\ memories[curator[c].id].triple = curator[c].triple
        /\ memories[curator[c].id].corpus = curator[c].filed
        /\ memories[curator[c].id].edges = Edges
    BY <1>1, WriterIsTyped DEF WriterRight, CuratorIs, Curating, Remembered, Connected
  <2> QED
    BY <1>1, <1>4, <2>1 DEF PointsNameWholeEvents, MemoryInv, Edges
<1>8. NoTwinWhenTidy'
  BY <1>1, <1>3 DEF NoTwinWhenTidy, MemoryInv
<1>9. ASSUME tidy'
      PROVE  EveryMemoryHasAPoint'
  <2>1. EveryMemoryHasAPoint
    BY <1>3, <1>9, WriterIsTyped
  <2>2. \E p \in points' : p.id = curator[c].id
    BY <1>1, <1>4
  <2> QED
    BY <1>1, <1>2, <2>1, <2>2 DEF EveryMemoryHasAPoint, Curating
<1> QED
  BY <1>1, <1>2, <1>3, <1>5, <1>6, <1>7, <1>8, <1>9, WriterSteps

\* Nothing is remembered yet, and nobody writes.
LEMMA MemoryStartsRight ==
  MemoryInit => MemoryInv
<1> SUFFICES ASSUME MemoryInit
             PROVE  MemoryInv
  OBVIOUS
<1>1. NoWrite \in Write /\ NoWrite.at = "rest"
  BY MemoryStoreAssumption DEF NoWrite, Write, None
<1>2. DOMAIN memories = {} /\ memories \in [DOMAIN memories -> Memory]
  BY DEF MemoryInit
<1>3. \A c \in Curators : curator[c] \in Write /\ curator[c].at = "rest"
  BY <1>1 DEF MemoryInit
<1>4. MemoryTyped
  BY <1>1, <1>2 DEF MemoryInit, MemoryTyped
<1>5. OwnIds
  BY <1>3 DEF OwnIds, Active
<1>6. PointsNameWholeEvents /\ NoTwinWhenTidy /\ EveryMemoryHasAPoint
  BY <1>2 DEF MemoryInit, PointsNameWholeEvents, NoTwinWhenTidy, EveryMemoryHasAPoint
<1>7. TidyRight
  BY <1>3, <1>6 DEF TidyRight, TidyWriter, Active
<1>8. \A c \in Curators : WriterRight(c)
  BY <1>3, RestIsRight
<1> QED
  BY <1>4, <1>5, <1>6, <1>7, <1>8 DEF MemoryInv

\* Every step keeps the invariant.
LEMMA MemoryStaysRight ==
  MemoryInv /\ [MemoryNext]_memoryVars => MemoryInv'
<1> SUFFICES ASSUME MemoryInv, [MemoryNext]_memoryVars
             PROVE  MemoryInv'
  OBVIOUS
<1>1. CASE UNCHANGED memoryVars
  BY <1>1 DEF memoryVars, MemoryInv, MemoryTyped, OwnIds, PointsNameWholeEvents, NoTwinWhenTidy,
              TidyRight, TidyWriter, TidyFinds, EveryMemoryHasAPoint, WriterRight, Active,
              Curating, IsNew, SaidBefore
<1>2. ASSUME NEW c \in Curators, NEW t \in Triples, NEW corpus \in Corpora,
             NEW filed \in Corpora, CurateAsked(c, t, corpus, filed)
      PROVE  MemoryInv'
  BY <1>2, CurateAskedIsRight
<1>3. ASSUME NEW c \in Curators, WriteStep(c)
      PROVE  MemoryInv'
  <2>1. \/ curator[c].at \in {"entities", "index"} \/ curator[c].at = "event"
        \/ curator[c].at \in Edges
    BY <1>3 DEF WriteStep, Edges
  <2> QED
    BY <1>3, <2>1, GoesOnIsRight, EventIsRight, EdgeIsRight
<1>4. ASSUME NEW c \in Curators,
             \/ LooksUp(c) \/ LookupDegrades(c) \/ Curated(c) \/ Discarded(c) \/ Refused(c)
             \/ Quarantines(c) \/ Allowed(c) \/ WriteRaises(c) \/ Embeds(c)
             \/ CreatesCollection(c) \/ Upserts(c) \/ SemanticLaneFails(c)
      PROVE  MemoryInv'
  BY <1>4, LooksUpIsRight, LookupDegradesIsRight, CuratedIsRight, RestsIsRight, QuarantinesIsRight,
     GoesOnIsRight, CreatesCollectionIsRight, UpsertsIsRight
<1> QED
  BY <1>1, <1>2, <1>3, <1>4 DEF MemoryNext

(* Whatever fails on the way and whoever writes at the same time, wherever *)
(* it looks and wherever it files: a hit of the semantic lane names a      *)
(* memory that is whole and was never set aside, the words of what is      *)
(* dropped as a repetition are remembered already, and while one process   *)
(* writes at a time, nothing fails and each write sees all of the corpus   *)
(* it is filed in, no corpus has the same words twice.                     *)
THEOREM MemoriesAreRight ==
  MemorySpec => []MemoryHolds
<1>1. MemoryInv => MemoryHolds
  <2>1. MemoryInv => DiscardsHaveATwin
    <3> SUFFICES ASSUME MemoryInv, NEW c \in Curators, CuratorIs(c, "discarded")
                 PROVE  \E p \in points : /\ Words[p.triple] = Words[curator[c].triple]
                                          /\ p.corpus = curator[c].corpus
      BY DEF DiscardsHaveATwin
    <3> QED
      BY WriterIsTyped DEF WriterRight, CuratorIs, Curating, SaidBefore
  <2> QED
    BY <2>1 DEF MemoryHolds, MemoryInv
<1> QED
  BY <1>1, MemoryStartsRight, MemoryStaysRight, PTL DEF MemorySpec

\* The ids are counted from one, and no more writes are taken than MaxMemories.
MemoryTypes ==
  /\ written <= MaxMemories /\ collections \subseteq Corpora
  /\ 0 \notin DOMAIN memories \cup quarantined /\ \A p \in points : p.id # 0
  /\ \A c \in Curators : Active(c) <=> curator[c].id # 0

\* Only a new write counts, and what it stores has its id.
LEMMA MemoryTypesStay ==
  ASSUME MemoryInv, MemoryTypes, [MemoryNext]_memoryVars
  PROVE  MemoryTypes'
<1>1. CASE UNCHANGED memoryVars
  BY <1>1 DEF memoryVars, MemoryTypes, Active
<1>2. ASSUME NEW c \in Curators, NEW t \in Triples, NEW corpus \in Corpora,
             NEW filed \in Corpora, CurateAsked(c, t, corpus, filed)
      PROVE  MemoryTypes'
  <2>1. /\ written \in Nat /\ written < MaxMemories /\ written' = written + 1
        /\ UNCHANGED <<memories, quarantined, points, collections>>
    BY <1>2 DEF CurateAsked, MemoryInv, MemoryTyped
  <2>2. written + 1 <= MaxMemories /\ written + 1 # 0
    BY <2>1, MemoryStoreAssumption
  <2>3. /\ curator'[c].id = written + 1 /\ curator'[c].at = "lookup"
        /\ \A d \in Curators : d # c => curator'[d] = curator[d]
    BY <1>2 DEF CurateAsked, MemoryInv, MemoryTyped, NoWrite
  <2> QED
    BY <2>1, <2>2, <2>3 DEF MemoryTypes, Active
<1>3. ASSUME NEW c \in Curators,
             \/ LooksUp(c) \/ LookupDegrades(c) \/ Curated(c) \/ Discarded(c)
             \/ Refused(c) \/ Quarantines(c) \/ Allowed(c) \/ WriteStep(c) \/ WriteRaises(c)
             \/ Embeds(c) \/ CreatesCollection(c) \/ Upserts(c) \/ SemanticLaneFails(c)
      PROVE  MemoryTypes'
  <2>1. curator \in [Curators -> Write] /\ curator[c] \in Write
    BY DEF MemoryInv, MemoryTyped
  <2>2. written' = written
    BY <1>3 DEF LooksUp, LookupDegrades, Curated, Discarded, Refused, Quarantines, Allowed,
       WriteStep, WriteRaises, Embeds, CreatesCollection, Upserts, SemanticLaneFails
  <2>3. /\ \A d \in Curators : d # c => curator'[d] = curator[d]
        /\ \/ curator'[c].at = "rest" /\ curator'[c].id = 0
           \/ curator'[c].at # "rest" /\ curator'[c].id = curator[c].id /\ Active(c)
    <3>1. CASE LooksUp(c) \/ LookupDegrades(c)
      BY <2>1, <3>1 DEF LooksUp, LookupDegrades, CuratorIs, Active, Write
    <3>2. CASE Curated(c) \/ Allowed(c)
      BY <2>1, <3>2 DEF Curated, Allowed, CuratorIs, CuratorAt, Active, Write
    <3>3. CASE WriteStep(c) \/ Embeds(c) \/ CreatesCollection(c)
      <4>1. curator[c].at # "rest" /\ (Rests(c) \/ \E at : at # "rest" /\ CuratorAt(c, at))
        <5>1. CASE WriteStep(c)
          <6>1. curator[c].at \in {"entities", "event", "subjectEdge", "objectEdge", "index"}
            BY <5>1 DEF WriteStep
          <6>2. Following(curator[c].at) # "rest"
            BY <6>1, FollowingIs
          <6> QED
            BY <5>1, <6>1, <6>2 DEF WriteStep
        <5>2. CASE Embeds(c)
          <6>1. CuratorAt(c, "upsert") \/ CuratorAt(c, "create")
            BY <5>2 DEF Embeds
          <6> QED
            BY <5>2, <6>1 DEF Embeds, CuratorIs
        <5>3. CASE CreatesCollection(c)
          <6>1. Rests(c) \/ CuratorAt(c, "upsert")
            BY <5>3 DEF CreatesCollection
          <6> QED
            BY <5>3, <6>1 DEF CreatesCollection, CuratorIs
        <5> QED
          BY <3>3, <5>1, <5>2, <5>3
      <4> QED
        BY <2>1, <4>1 DEF CuratorAt, Rests, NoWrite, Active, Write
    <3>4. CASE \/ Discarded(c) \/ Refused(c) \/ Quarantines(c) \/ WriteRaises(c) \/ Upserts(c)
               \/ SemanticLaneFails(c)
      BY <2>1, <3>4 DEF Discarded, Refused, Quarantines, WriteRaises, Upserts, SemanticLaneFails,
         Rests, NoWrite
    <3> QED
      BY <1>3, <3>1, <3>2, <3>3, <3>4
  <2>4. \A d \in Curators : curator'[d].at # "rest" <=> curator'[d].id # 0
    BY <2>3 DEF MemoryTypes, Active
  <2>5. /\ collections' \subseteq Corpora
        /\ 0 \notin DOMAIN memories' /\ 0 \notin quarantined' /\ \A p \in points' : p.id # 0
    <3>1. CASE CreatesCollection(c)
      BY <2>1, <3>1 DEF CreatesCollection, MemoryTypes, Write
    <3>2. CASE Upserts(c)
      <4>1. curator[c].id # 0
        BY <3>2 DEF Upserts, CuratorIs, MemoryTypes, Active
      <4> QED
        BY <3>2, <4>1 DEF Upserts, Point, MemoryTypes
    <3>3. CASE Quarantines(c)
      <4>1. curator[c].id # 0
        BY <3>3 DEF Quarantines, CuratorIs, MemoryTypes, Active
      <4> QED
        BY <3>3, <4>1 DEF Quarantines, MemoryTypes
    <3>4. CASE WriteStep(c)
      <4>1. curator[c].id # 0
        BY <3>4 DEF WriteStep, MemoryTypes, Active
      <4>2. /\ memories' = Stored(c) /\ UNCHANGED <<quarantined, points, collections>>
            /\ curator[c].at \in {"entities", "event", "subjectEdge", "objectEdge", "index"}
        BY <3>4 DEF WriteStep
      <4>3. DOMAIN memories' \subseteq DOMAIN memories \cup {curator[c].id}
        BY <4>2 DEF Stored
      <4> QED
        BY <4>1, <4>2, <4>3 DEF MemoryTypes
    <3>5. CASE \/ LooksUp(c) \/ LookupDegrades(c) \/ Curated(c) \/ Discarded(c)
               \/ Refused(c) \/ Allowed(c) \/ WriteRaises(c) \/ Embeds(c)
               \/ SemanticLaneFails(c)
      BY <3>5 DEF LooksUp, LookupDegrades, Curated, Discarded, Refused, Allowed, WriteRaises,
         Embeds, SemanticLaneFails, MemoryTypes
    <3> QED
      BY <1>3, <3>1, <3>2, <3>3, <3>4, <3>5
  <2> QED
    BY <2>2, <2>4, <2>5 DEF MemoryTypes, Active
<1> QED
  BY <1>1, <1>2, <1>3 DEF MemoryNext

(* In every run of the memory: every id is that of a write that was asked  *)
(* for, and every point and every node holds a claim.                      *)
THEOREM MemoryTypeCorrect ==
  MemorySpec => []MemoryTypeOK
<1>1. MemoryInit => MemoryTypes
  BY MemoryStoreAssumption DEF MemoryInit, MemoryTypes, Active, NoWrite
<1>2. ASSUME MemoryInv, MemoryTypes PROVE MemoryTypeOK
  <2>1. written \in Nat /\ MaxMemories \in Nat
    BY <1>2, MemoryStoreAssumption DEF MemoryInv, MemoryTyped
  <2>2. \A i \in DOMAIN memories \cup quarantined : i \in 1 .. MaxMemories
    BY <1>2, <2>1 DEF MemoryInv, MemoryTyped, MemoryTypes
  <2>3. \A p \in points : p \in [id : 1 .. MaxMemories, corpus : Corpora, triple : Triples]
    <3> TAKE p \in points
    <3>1. p \in [id : Nat, corpus : Corpora, triple : Triples] /\ p.id \in DOMAIN memories
      BY <1>2 DEF MemoryInv, MemoryTyped, PointsNameWholeEvents
    <3>2. p.id \in 1 .. MaxMemories
      BY <2>2, <3>1
    <3> QED
      BY <3>1, <3>2
  <2>4. ASSUME NEW i \in DOMAIN memories
        PROVE  /\ memories[i].triple \in Triples /\ memories[i].corpus \in Corpora
               /\ memories[i].edges \subseteq Edges
    BY <1>2 DEF MemoryInv, MemoryTyped, Memory
  <2>5. ASSUME NEW c \in Curators
        PROVE  /\ curator[c].id \in 0 .. MaxMemories
               /\ curator[c].triple \in Triples \cup {None}
               /\ {curator[c].corpus, curator[c].filed} \subseteq Corpora
               /\ curator[c].hits \subseteq Triples
    <3>1. curator[c] \in Write /\ (Active(c) => curator[c].id <= written)
      BY <1>2 DEF MemoryInv, MemoryTyped, OwnIds
    <3>2. ~Active(c) => curator[c].id = 0
      BY <1>2 DEF MemoryTypes
    <3> QED
      BY <1>2, <2>1, <3>1, <3>2 DEF Write, MemoryTypes
  <2> QED
    BY <1>2, <2>2, <2>3, <2>4, <2>5 DEF MemoryTypeOK, MemoryTypes, Edges
<1> QED
  BY <1>1, <1>2, MemoryStartsRight, MemoryStaysRight, MemoryTypesStay, PTL DEF MemorySpec

----------------------------------------------------------------------------
(* A set of integers that is finite and not empty has a largest element,   *)
(* so the snapshot's peak is one of the values it is taken from.           *)
LEMMA FiniteIntsHaveAMaximum ==
  ASSUME NEW S, S \subseteq Int, IsFiniteSet(S), S # {}
  PROVE  \E m \in S : \A w \in S : w <= m
<1> DEFINE Bad == {U \in SUBSET S : U # {} /\ ~ \E m \in U : \A w \in U : w <= m}
<1>1. SUFFICES ASSUME Bad # {} PROVE FALSE
  OBVIOUS
<1>2. Bad \subseteq FiniteSubsetsOf(S)
  BY FS_Subset DEF FiniteSubsetsOf
<1>3. IsWellFoundedOn(StrictSubsetOrdering(S), FiniteSubsetsOf(S))
  BY FS_StrictSubsetOrderingWellFounded
<1>4. PICK U \in Bad : \A V \in Bad : <<V, U>> \notin StrictSubsetOrdering(S)
  <2> HIDE DEF Bad
  <2> QED
    BY <1>1, <1>2, <1>3, WFMin
<1>5. PICK x \in U : TRUE
  OBVIOUS
<1>6. U \ {x} \notin Bad
  BY <1>4, <1>5 DEF StrictSubsetOrdering
<1>7. CASE U \ {x} = {}
  <2>1. \A w \in U : w = x
    BY <1>7
  <2>2. x \in Int
    BY <1>5
  <2> QED
    BY <1>5, <2>1, <2>2
<1>8. CASE U \ {x} # {}
  <2>1. PICK m \in U \ {x} : \A w \in U \ {x} : w <= m
    BY <1>6, <1>8
  <2>2. m \in Int /\ x \in Int /\ m \in U /\ \A w \in U : w \in Int
    BY <1>5
  <2>3. ~ \A w \in U : w <= m
    BY <2>2
  <2>4. m <= x
    BY <2>1, <2>2, <2>3
  <2>5. \A w \in U : w <= x
    <3> TAKE w \in U
    <3>1. CASE w = x
      BY <2>2, <3>1
    <3>2. CASE w # x
      BY <2>1, <2>2, <2>4, <3>2
    <3> QED
      BY <3>1, <3>2
  <2> QED
    BY <1>5, <2>5
<1> QED
  BY <1>7, <1>8

\* The rings are the ends of what nvidia-smi has said.
RingsAreRecent ==
  \A c \in Cards :
    /\ ring[c] \in Seq(Samples) /\ gpuLog[c] \in Seq(Samples)
    /\ Len(ring[c]) <= RingLen
    /\ (ring[c] = <<>>) <=> (gpuLog[c] = <<>>)
    /\ ring[c] # <<>> => Last(ring[c]) = Last(gpuLog[c])

GpuInv ==
  /\ ring \in [Cards -> Seq(Samples)] /\ gpuLog \in [Cards -> Seq(Samples)]
  /\ bffEnv \in Environments /\ hookEnv \in Environments
  /\ RingsAreRecent

(* A ring that takes a sample is not empty, ends in it and keeps to its    *)
(* length.                                                                 *)
LEMMA RingTakesSample ==
  ASSUME NEW s \in Seq(Samples), NEW x \in Samples, Len(s) <= RingLen
  PROVE  /\ RingAppend(s, x) \in Seq(Samples)
         /\ RingAppend(s, x) # <<>>
         /\ Len(RingAppend(s, x)) <= RingLen
         /\ Last(RingAppend(s, x)) = x
<1> DEFINE t == Append(s, x)
<1> DEFINE m == IF Len(t) > RingLen THEN 2 ELSE 1
<1>1. RingLen \in Nat /\ RingLen >= 1
  BY GpuConstants
<1>2. t \in Seq(Samples) /\ Len(t) = Len(s) + 1 /\ t[Len(s) + 1] = x
  BY AppendProperties
<1>3. Len(s) \in Nat /\ Len(t) \in Nat /\ Len(t) >= 1
  BY <1>2, LenProperties
<1>4. m \in Int /\ Len(t) \in Int /\ m <= Len(t) /\ Len(t) - m + 1 \in 1 .. RingLen /\ m >= 1
  BY <1>1, <1>2, <1>3
<1>5. \A i \in m .. Len(t) : t[i] \in Samples
  BY <1>2, <1>4, ElementOfSeq
<1>6. RingAppend(s, x) = SubSeq(t, m, Len(t))
  BY DEF RingAppend
<1> HIDE DEF t, m
<1>7. /\ SubSeq(t, m, Len(t)) \in Seq(Samples)
      /\ Len(SubSeq(t, m, Len(t))) = Len(t) - m + 1
      /\ \A i \in 1 .. Len(t) - m + 1 : SubSeq(t, m, Len(t))[i] = t[m + i - 1]
  <2>1. /\ SubSeq(t, m, Len(t)) \in Seq(Samples)
        /\ Len(SubSeq(t, m, Len(t))) = IF m <= Len(t) THEN Len(t) - m + 1 ELSE 0
        /\ \A i \in 1 .. Len(t) - m + 1 : SubSeq(t, m, Len(t))[i] = t[m + i - 1]
    BY <1>4, <1>5, SubSeqProperties
  <2> QED
    BY <1>4, <2>1
<1>8. Last(SubSeq(t, m, Len(t))) = t[Len(t)]
  <2>1. SubSeq(t, m, Len(t))[Len(t) - m + 1] = t[m + (Len(t) - m + 1) - 1]
    BY <1>4, <1>7
  <2>2. m + (Len(t) - m + 1) - 1 = Len(t)
    BY <1>4
  <2> QED
    BY <1>7, <2>1, <2>2 DEF Last
<1>9. SubSeq(t, m, Len(t)) # <<>>
  <2> DEFINE u == SubSeq(t, m, Len(t))
  <2>1. Len(u) \in 1 .. RingLen
    BY <1>4, <1>7
  <2> HIDE DEF u
  <2>2. u # <<>>
    BY <1>1, <2>1
  <2> QED
    BY <2>2 DEF u
<1> QED
  BY <1>1, <1>2, <1>4, <1>6, <1>7, <1>8, <1>9

(* At first no card has a sample.                                          *)
LEMMA GpuStartsRight ==
  GpuInit => GpuInv
<1> SUFFICES ASSUME GpuInit PROVE GpuInv
  OBVIOUS
<1>1. <<>> \in Seq(Samples) /\ Len(<<>>) = 0 /\ 0 <= RingLen
  BY EmptySeq, GpuConstants
<1> QED
  BY <1>1 DEF GpuInit, GpuInv, RingsAreRecent

(* A poll adds its rows to the rings and to the history alike.             *)
LEMMA PollIsRight ==
  ASSUME GpuInv, NEW rows \in Rows, PollSucceeds(rows)
  PROVE  GpuInv'
<1>1. PICK cs \in SUBSET Cards : rows \in [cs -> Samples]
  BY DEF Rows
<1>2. DOMAIN rows = cs
  BY <1>1
<1>3. ASSUME NEW c \in Cards, c \in cs
      PROVE  /\ ring'[c] = RingAppend(ring[c], rows[c])
             /\ gpuLog'[c] = Append(gpuLog[c], rows[c])
             /\ rows[c] \in Samples
  BY <1>1, <1>2, <1>3 DEF PollSucceeds, Ingest
<1>4. ASSUME NEW c \in Cards, c \notin cs
      PROVE  ring'[c] = ring[c] /\ gpuLog'[c] = gpuLog[c]
  BY <1>1, <1>2, <1>4 DEF PollSucceeds, Ingest
<1>5. ASSUME NEW c \in Cards
      PROVE  /\ ring'[c] \in Seq(Samples) /\ gpuLog'[c] \in Seq(Samples)
             /\ Len(ring'[c]) <= RingLen
             /\ (ring'[c] = <<>>) <=> (gpuLog'[c] = <<>>)
             /\ ring'[c] # <<>> => Last(ring'[c]) = Last(gpuLog'[c])
  <2>1. CASE c \in cs
    <3>1. ring[c] \in Seq(Samples) /\ gpuLog[c] \in Seq(Samples) /\ Len(ring[c]) <= RingLen
      BY DEF GpuInv, RingsAreRecent
    <3>2. /\ Append(gpuLog[c], rows[c]) \in Seq(Samples)
          /\ Append(gpuLog[c], rows[c]) # <<>>
          /\ Last(Append(gpuLog[c], rows[c])) = rows[c]
      BY <1>3, <2>1, <3>1, AppendProperties DEF Last
    <3> QED
      BY <1>3, <2>1, <3>1, <3>2, RingTakesSample
  <2>2. CASE c \notin cs
    BY <1>4, <2>2 DEF GpuInv, RingsAreRecent
  <2> QED
    BY <2>1, <2>2
<1>6. ring' \in [Cards -> Seq(Samples)] /\ gpuLog' \in [Cards -> Seq(Samples)]
  <2>1. /\ ring' = [c \in Cards |-> ring'[c]]
        /\ gpuLog' = [c \in Cards |-> gpuLog'[c]]
    BY DEF PollSucceeds, Ingest
  <2> QED
    BY <1>5, <2>1
<1>7. bffEnv' = bffEnv /\ hookEnv' = hookEnv
  BY DEF PollSucceeds
<1> QED
  BY <1>5, <1>6, <1>7 DEF GpuInv, RingsAreRecent

(* Nothing else touches the rings or the environments.                     *)
LEMMA GpuStaysRight ==
  GpuInv /\ [GpuNext]_gpuVars => GpuInv'
<1>1. ASSUME GpuInv,
             GpuStart \/ PollFails \/ PollerWakes \/ GpuStop \/ StopJoins \/ HookRuns
             \/ UNCHANGED gpuVars
      PROVE  GpuInv'
  <2>1. UNCHANGED <<ring, gpuLog, bffEnv, hookEnv>>
    BY <1>1 DEF GpuStart, PollFails, PollerWakes, GpuStop, StopJoins, HookRuns, gpuVars
  <2> QED
    BY <1>1, <2>1 DEF GpuInv, RingsAreRecent
<1> QED
  BY <1>1, PollIsRight DEF GpuNext

\* The last sample of a card that has one, in the words of the history.
Said(c, r) == Last(gpuLog[c])[r]

(* The cards of the snapshot are those that nvidia-smi has spoken of, and  *)
(* the snapshot's values are what it said last.                            *)
LEMMA SnapshotIsTheLastWord ==
  ASSUME GpuInv, NEW c \in Cards
  PROVE  /\ c \in Known <=> gpuLog[c] # <<>>
         /\ c \in Known => \A r \in Resources : /\ Latest(c)[r] = Said(c, r)
                                                /\ Said(c, r) \in Int
<1>1. /\ (ring[c] = <<>>) <=> (gpuLog[c] = <<>>)
      /\ ring[c] # <<>> => Last(ring[c]) = Last(gpuLog[c])
      /\ gpuLog[c] \in Seq(Samples)
  BY DEF GpuInv, RingsAreRecent
<1>2. gpuLog[c] # <<>> => Last(gpuLog[c]) \in Samples
  BY <1>1, LenProperties, ElementOfSeq, EmptySeq DEF Last
<1>3. \A s \in Samples : s \in [Resources -> Int]
  BY GpuConstants
<1> QED
  BY <1>1, <1>2, <1>3 DEF Known, Latest, Said

(* The peak of a resource is the largest of the values that could be read, *)
(* and unknown when none could.                                            *)
LEMMA PeakIsTheLargestKnown ==
  ASSUME GpuInv, NEW r \in Resources
  PROVE  /\ Peak(r) \in Int
         /\ Peak(r) # Unknown => \E c \in Known : Said(c, r) = Peak(r)
         /\ \A c \in Known : Said(c, r) # Unknown => /\ Peak(r) # Unknown
                                                     /\ Said(c, r) <= Peak(r)
<1> DEFINE f == [c \in Known |-> Latest(c)[r]]
<1> DEFINE all == {Latest(c)[r] : c \in Known}
<1> DEFINE vals == all \ {Unknown}
<1>1. Known \subseteq Cards
  BY DEF Known
<1>2. \A c \in Known : Latest(c)[r] = Said(c, r) /\ Said(c, r) \in Int
  BY <1>1, SnapshotIsTheLastWord
<1>3. f \in Surjection(Known, all)
  BY DEF Surjection
<1>4. IsFiniteSet(Known)
  BY <1>1, FS_Subset, GpuConstants
<1>5. IsFiniteSet(vals)
  <2>1. IsFiniteSet(all)
    <3> HIDE DEF f, all
    <3> QED
      BY <1>3, <1>4, FS_Surjection
  <2> HIDE DEF all
  <2> QED
    BY <2>1, FS_Difference
<1>6. vals \subseteq Int
  BY <1>2
<1>7. Peak(r) = IF vals = {} THEN Unknown ELSE CHOOSE v \in vals : \A w \in vals : w <= v
  BY DEF Peak
<1>8. vals # {} => Peak(r) \in vals /\ \A w \in vals : w <= Peak(r)
  <2> HIDE DEF vals
  <2>1. ASSUME vals # {} PROVE \E v \in vals : \A w \in vals : w <= v
    BY <1>5, <1>6, <2>1, FiniteIntsHaveAMaximum
  <2> QED
    BY <1>7, <2>1
<1>9. \A c \in Known : Said(c, r) # Unknown => Said(c, r) \in vals
  BY <1>2
<1>10. \A v \in vals : v # Unknown /\ \E c \in Known : Said(c, r) = v
  BY <1>2
<1>11. Unknown \in Int
  BY DEF Unknown
<1> HIDE DEF vals
<1> QED
  BY <1>6, <1>7, <1>8, <1>9, <1>10, <1>11

(* A cutoff is off or a number, and the temperature's is always a number   *)
(* between 50 and 95.                                                      *)
LEMMA CutoffsAreNumbers ==
  ASSUME GpuInv
  PROVE  /\ \A r \in Resources : HookCutoff(r) \in Int
         /\ HookCutoff("temperature") \in 50 .. 95
<1>1. bffEnv \in [Resources -> Int] /\ hookEnv \in [Resources -> Int]
  BY GpuConstants DEF GpuInv
<1>2. \A v \in Int : /\ Clamped(v, 50, 95) \in 50 .. 95
                     /\ Clamped(v, 50, 1500) \in Int
                     /\ Clamped(v, 1, 100) \in Int
  BY DEF Clamped
<1>3. TemperatureCutoff(bffEnv) \in 50 .. 95
  <2>1. bffEnv.temperature \in Int
    BY <1>1 DEF Resources
  <2> QED
    BY <1>2, <2>1 DEF TemperatureCutoff
<1>4. \A env \in [Resources -> Int], r \in Resources : OptionalCutoff(env, r) \in Int
  <2> TAKE env \in [Resources -> Int], r \in Resources
  <2>1. env[r] \in Int /\ Unset \in Int
    BY DEF Unset
  <2> QED
    BY <1>2, <2>1 DEF OptionalCutoff
<1>5. HookCutoff("temperature") \in 50 .. 95
  BY <1>3 DEF HookCutoff
<1>6. ASSUME NEW r \in Resources PROVE HookCutoff(r) \in Int
  <2>1. OptionalCutoff(bffEnv, r) \in Int /\ OptionalCutoff(hookEnv, r) \in Int
    BY <1>1, <1>4
  <2> QED
    BY <1>3, <2>1 DEF HookCutoff
<1> QED
  BY <1>5, <1>6

(* A resource trips when some card has said a value at or above the        *)
(* cutoff: the card with the largest one.                                  *)
LEMMA TripsOnSomeCard ==
  ASSUME GpuInv, NEW r \in Resources
  PROVE  Trips(r) <=> \E c \in Cards : /\ gpuLog[c] # <<>>
                                       /\ Said(c, r) # Unknown /\ HookCutoff(r) # Unset
                                       /\ Said(c, r) >= HookCutoff(r)
<1>1. /\ Peak(r) \in Int
      /\ Peak(r) # Unknown => \E c \in Known : Said(c, r) = Peak(r)
      /\ \A c \in Known : Said(c, r) # Unknown => Peak(r) # Unknown /\ Said(c, r) <= Peak(r)
  BY PeakIsTheLargestKnown
<1>2. HookCutoff(r) \in Int
  BY CutoffsAreNumbers
<1>3. /\ Known = {c \in Cards : gpuLog[c] # <<>>}
      /\ \A c \in Known : Said(c, r) \in Int
  BY SnapshotIsTheLastWord DEF Known
<1> QED
  BY <1>1, <1>2, <1>3 DEF Trips

(* The hook allows when nothing trips, and the temperature comes first.    *)
LEMMA DecisionIsTheFirstTrip ==
  ASSUME GpuInv
  PROVE  /\ Decision # "allow" <=> \E r \in Resources : Trips(r)
         /\ Trips("temperature") => Decision = "temperature"
         /\ Decision \in Resources \cup {"allow"}
<1> DEFINE I == {i \in 1 .. Len(Order) : Trips(Order[i])}
<1>1. /\ Len(Order) = 4 /\ Order[1] = "temperature" /\ Order[2] = "power"
      /\ Order[3] = "vram" /\ Order[4] = "utilization"
  BY DEF Order
<1>2. \A i \in I : i = 1 \/ i = 2 \/ i = 3 \/ i = 4
  BY <1>1
<1>3. SelectInSeq(Order, Trips) = IF I # {} THEN Min(I) ELSE 0
  BY DEF SelectInSeq
<1>4. (\E r \in Resources : Trips(r)) <=> I # {}
  BY <1>1 DEF Resources
<1>5. Trips("temperature") <=> 1 \in I
  BY <1>1
<1>6. \A i \in I : Order[i] \in Resources
  BY <1>1, <1>2 DEF Resources
<1>7. I # {} => Available
  <2>1. ASSUME NEW r \in Resources, Trips(r) PROVE Available
    BY <2>1, TripsOnSomeCard, SnapshotIsTheLastWord DEF Available
  <2> QED
    BY <1>4, <2>1
<1> HIDE DEF I
<1>8. I # {} => Min(I) \in I /\ \A j \in I : Min(I) <= j
  <2>1. I # {} => \E x \in I : \A y \in I : x =< y
    <3>1. CASE 1 \in I
      BY <1>2, <3>1
    <3>2. CASE 1 \notin I /\ 2 \in I
      BY <1>2, <3>2
    <3>3. CASE 1 \notin I /\ 2 \notin I /\ 3 \in I
      BY <1>2, <3>3
    <3>4. CASE 1 \notin I /\ 2 \notin I /\ 3 \notin I
      BY <1>2, <3>4
    <3> QED
      BY <3>1, <3>2, <3>3, <3>4
  <2> QED
    BY <2>1 DEF Min
<1>9. Decision = IF ~Available \/ SelectInSeq(Order, Trips) = 0 THEN "allow"
                 ELSE Order[SelectInSeq(Order, Trips)]
  BY DEF Decision
<1>10. "allow" \notin Resources
  BY DEF Resources
<1>11. CASE I = {}
  BY <1>3, <1>4, <1>5, <1>9, <1>11
<1>12. CASE I # {}
  <2>1. Min(I) \in I /\ Min(I) # 0 /\ Order[Min(I)] \in Resources
    BY <1>2, <1>6, <1>8, <1>12
  <2>2. Decision = Order[Min(I)]
    BY <1>3, <1>7, <1>9, <1>12, <2>1
  <2>3. 1 \in I => Min(I) = 1
    BY <1>2, <1>8
  <2> QED
    BY <1>1, <1>4, <1>5, <1>10, <1>12, <2>1, <2>2, <2>3
<1> QED
  BY <1>11, <1>12

\* The rest of the monitor's types.
GpuTypes ==
  /\ down \in BOOLEAN /\ stopping \in BOOLEAN
  /\ poller \in {"off", "poll", "sleep", "ended"}
  /\ hookSaid \in Resources \cup {"none", "allow"} /\ polls \in 0 .. MaxPolls

(* In every run of the monitor: no ring is longer than its limit, and the  *)
(* hook's answer is to allow or one of the four resources.                 *)
THEOREM GpuTypeCorrect ==
  GpuSpec => []GpuTypeOK
<1>1. GpuInit => GpuTypes
  <2>1. MaxPolls \in Nat
    BY GpuConstants
  <2>2. 0 \in 0 .. MaxPolls
    BY <2>1
  <2> QED
    BY <2>2 DEF GpuInit, GpuTypes
<1>2. ASSUME GpuInv, GpuTypes, [GpuNext]_gpuVars PROVE GpuTypes'
  <2>1. MaxPolls \in Nat /\ polls \in 0 .. MaxPolls
    BY <1>2, GpuConstants DEF GpuTypes
  <2>2. polls < MaxPolls => polls + 1 \in 0 .. MaxPolls
    BY <2>1
  <2>6. CASE UNCHANGED gpuVars
    BY <1>2, <2>6 DEF gpuVars, GpuTypes
  <2>3. CASE GpuStart \/ PollFails \/ PollerWakes \/ GpuStop \/ StopJoins
    BY <1>2, <2>2, <2>3 DEF GpuStart, PollFails, PollerWakes, GpuStop, StopJoins, GpuTypes
  <2>4. CASE HookRuns
    <3>1. Decision \in Resources \cup {"allow"}
      BY <1>2, DecisionIsTheFirstTrip
    <3> QED
      BY <1>2, <2>4, <3>1 DEF HookRuns, GpuTypes
  <2>5. CASE \E rows \in Rows : PollSucceeds(rows)
    BY <1>2, <2>2, <2>5 DEF PollSucceeds, GpuTypes
  <2> QED
    BY <1>2, <2>3, <2>4, <2>5, <2>6 DEF GpuNext
<1>3. ASSUME GpuInv, GpuTypes PROVE GpuTypeOK
  <2>1. \A c \in Cards : ring[c] \in BoundedSeq(Samples, RingLen)
    <3> TAKE c \in Cards
    <3>1. ring[c] \in Seq(Samples) /\ Len(ring[c]) <= RingLen
      BY <1>3 DEF GpuInv, RingsAreRecent
    <3>2. Len(ring[c]) \in 0 .. RingLen /\ ring[c] \in [1 .. Len(ring[c]) -> Samples]
      BY <3>1, GpuConstants, LenProperties
    <3> QED
      BY <3>2 DEF BoundedSeq, SeqOf
  <2> QED
    BY <1>3, <2>1 DEF GpuInv, GpuTypes, GpuTypeOK
<1> QED
  BY <1>1, <1>2, <1>3, GpuStartsRight, GpuStaysRight, PTL DEF GpuSpec

(* For every number of cards and every ring length: the hook blocks        *)
(* exactly when the last thing nvidia-smi has said of some card reaches a  *)
(* cutoff, and no environment lets a card at 95 degrees through.           *)
THEOREM HookIsRight ==
  GpuSpec => []HookHolds
<1>1. ASSUME GpuInv PROVE BlocksWhenOver
  <2>1. \A r \in Resources :
          Trips(r) <=> \E c \in Cards : /\ gpuLog[c] # <<>>
                                        /\ Said(c, r) # Unknown /\ HookCutoff(r) # Unset
                                        /\ Said(c, r) >= HookCutoff(r)
    BY <1>1, TripsOnSomeCard
  <2>2. Decision # "allow" <=> \E r \in Resources : Trips(r)
    BY <1>1, DecisionIsTheFirstTrip
  <2> QED
    BY <2>1, <2>2 DEF BlocksWhenOver, Said
<1>2. ASSUME GpuInv PROVE GuardCannotBeDisabled
  <2> SUFFICES ASSUME NEW c \in Cards, gpuLog[c] # <<>>,
                      Last(gpuLog[c])["temperature"] >= 95
               PROVE  Decision = "temperature"
    BY DEF GuardCannotBeDisabled
  <2>1. Said(c, "temperature") >= 95 /\ Said(c, "temperature") \in Int
    BY <1>2, SnapshotIsTheLastWord DEF Said, Resources
  <2>2. HookCutoff("temperature") \in 50 .. 95
    BY <1>2, CutoffsAreNumbers
  <2>3. /\ Said(c, "temperature") # Unknown /\ HookCutoff("temperature") # Unset
        /\ Said(c, "temperature") >= HookCutoff("temperature")
    <3>1. \A v \in Int, k \in 50 .. 95 : v >= 95 => v # -1 /\ k # -1 /\ v >= k
      OBVIOUS
    <3> QED
      BY <2>1, <2>2, <3>1 DEF Unknown, Unset
  <2>4. Trips("temperature")
    <3>1. "temperature" \in Resources
      BY DEF Resources
    <3> QED
      BY <1>2, <2>3, <3>1, TripsOnSomeCard
  <2> QED
    BY <1>2, <2>4, DecisionIsTheFirstTrip
<1> QED
  BY <1>1, <1>2, GpuStartsRight, GpuStaysRight, PTL DEF GpuSpec, HookHolds
================================================================================
