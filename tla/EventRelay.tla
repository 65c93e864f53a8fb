----------------------------- MODULE EventRelay -----------------------------
(***************************************************************************)
(* The BFF's event relay for one conversation: one asyncio task polls the  *)
(* agent-server for the execution status and for one page of events, emits *)
(* both to the conversation's Socket.IO room.                              *)
(*                                                                         *)
(* The agent-server's log is append-only, so it is the number of its last  *)
(* event, and a page is named by the number of its first event (page_id =  *)
(* None is page 1).  A page that is the last one has no next_page_id; the  *)
(* relay then keeps its cursor and fetches the same page again on the next *)
(* poll.  RelayedSidecar adds what is done with each event, RunDetailPage  *)
(* the browser at the other end of the room.                               *)
(***************************************************************************)
EXTENDS Naturals

CONSTANTS
  MaxLog,       \* bound: events the agent-server ever appends
  PageSize,     \* limit of one events/search page (100 in the code)
  MaxFaults     \* bound: failed fetches, crashes of the task, BFF restarts

ASSUME LogAndPage == MaxLog \in Nat /\ PageSize \in Nat \ {0}
ASSUME FaultsAreNat == MaxFaults \in Nat

VARIABLES
  log,          \* agent-server: number of events
  status,       \* agent-server: execution_status, or "deleted" (404)
  pc,           \* the relay task: where it is; "none" = no task in _tasks
  st,           \* local: the status this iteration has read
  last,         \* local: last_status
  page,         \* local: page_id
  cur, top,     \* local: the batch still to forward is cur..top
  next,         \* local: next_page of the batch, 0 = none
  sent,         \* history: highest event this task has forwarded
  faults        \* faults so far

server  == <<log, status>>
locals  == <<st, last, page, cur, top, next, sent>>
vars    == <<server, pc, locals, faults>>

Active   == {"running", "waiting_for_confirmation"}
Quiet    == {"idle", "paused"}
Terminal == {"finished", "error", "stuck", "deleting"}
Live     == Active \cup Quiet \cup Terminal

NoStatus == "none"

Min2(a, b) == IF a < b THEN a ELSE b

\* Values of the task's locals while there is no task.
NoLocals ==
  /\ st' = NoStatus
  /\ last' = NoStatus
  /\ page' = 1
  /\ cur' = 1
  /\ top' = 0
  /\ next' = 0
  /\ sent' = 0

Init ==
  /\ log = 0
  /\ status = "idle"
  /\ pc = "none"
  /\ st = NoStatus /\ last = NoStatus
  /\ page = 1 /\ cur = 1 /\ top = 0 /\ next = 0
  /\ sent = 0
  /\ faults = 0

----------------------------------------------------------------------------
(* The agent-server, external: it appends while it runs, and its status    *)
(* moves under the user's commands and the agent's own progress.           *)

AppendEvent ==
  /\ status = "running"
  /\ log < MaxLog
  /\ log' = log + 1
  /\ UNCHANGED <<status, pc, locals, faults>>

ChangeStatus ==
  /\ status \in {"running", "waiting_for_confirmation", "idle", "finished"}
  /\ \/ /\ status = "running"
        /\ status' \in {"waiting_for_confirmation", "finished"}
     \/ /\ status # "running"
        /\ status' = "running"
     \/ status' = "deleted"
  /\ UNCHANGED <<log, pc, locals, faults>>

----------------------------------------------------------------------------
(* The relay task.                                                         *)

\* start_relay: GET /runs/{id}, create_run, and the socket's connect and
\* subscribe call it; it does nothing while the task is there.
StartRelay ==
  /\ pc = "none"
  /\ pc' = "init"
  /\ NoLocals
  /\ UNCHANGED <<server, faults>>

\* finally: _tasks.pop(cid)
Stop == pc' = "none" /\ NoLocals

\* A fetch that fails is a fault; a 404 is not.
Fault == faults < MaxFaults /\ faults' = faults + 1

\* The one-shot workspace lookup, which may fail.
FetchWorkspace ==
  /\ pc = "init"
  /\ pc' = "poll"
  /\ UNCHANGED faults \/ Fault
  /\ UNCHANGED <<server, locals>>

\* The status is read; the answer is on its way.
ReadStatus ==
  /\ pc = "poll"
  /\ status \in Live
  /\ st' = status
  /\ pc' = "report"
  /\ UNCHANGED <<server, last, page, cur, top, next, sent, faults>>

\* Mutated: only the first status is emitted.
ReportFirstStatus ==
  /\ pc = "report"
  /\ last' = IF last = NoStatus THEN st ELSE last
  /\ pc' = "fetch"
  /\ UNCHANGED <<server, st, page, cur, top, next, sent, faults>>

\* It is emitted if it differs from the last one.
ReportStatus ==
  /\ pc = "report"
  /\ last' = st
  /\ pc' = "fetch"
  /\ UNCHANGED <<server, st, page, cur, top, next, sent, faults>>

\* _fetch_conversation returns None for a 404 and for every exception alike.
StatusMissing ==
  /\ pc = "poll"
  /\ \/ status = "deleted" /\ UNCHANGED faults
     \/ Fault
  /\ Stop
  /\ UNCHANGED server

FetchPage ==
  /\ pc = "fetch"
  /\ status # "deleted"
  /\ cur' = page
  /\ top' = Min2(page + PageSize - 1, log)
  /\ next' = IF page + PageSize <= log THEN page + PageSize ELSE 0
  /\ pc' = "emit"
  /\ UNCHANGED <<server, st, last, page, sent, faults>>

\* Mutated: a failed fetch moves the cursor on.
FetchPageFailedSkips ==
  /\ pc = "fetch"
  /\ Fault
  /\ cur' = page
  /\ top' = page - 1
  /\ next' = page + PageSize
  /\ pc' = "emit"
  /\ UNCHANGED <<server, st, last, page, sent>>

\* ([], page_id): nothing to forward and the cursor stays.
FetchPageFailed ==
  /\ pc = "fetch"
  /\ \/ status = "deleted" /\ UNCHANGED faults
     \/ Fault
  /\ cur' = page
  /\ top' = page - 1
  /\ next' = page
  /\ pc' = "emit"
  /\ UNCHANGED <<server, st, last, page, sent>>

EmitEvent ==
  /\ pc = "emit"
  /\ cur <= top
  /\ cur' = cur + 1
  /\ sent' = IF cur > sent THEN cur ELSE sent
  /\ UNCHANGED <<server, pc, st, last, page, top, next, faults>>

\* Mutated: the cursor never moves.
EndBatchSamePage ==
  /\ pc = "emit" /\ cur > top
  /\ IF st \in Terminal THEN Stop ELSE pc' = "poll" /\ UNCHANGED locals
  /\ UNCHANGED <<server, faults>>

\* The batch is done: move the cursor; stop on the status read before the page.
EndBatch ==
  /\ pc = "emit"
  /\ cur > top
  /\ IF st \in Terminal
       THEN Stop
       ELSE /\ pc' = "poll"
            /\ page' = IF next # 0 THEN next ELSE page
            /\ UNCHANGED <<st, last, cur, top, next, sent>>
  /\ UNCHANGED <<server, faults>>

\* An exception inside the loop, or the cancellation of the task.
Crash ==
  /\ pc # "none"
  /\ Fault
  /\ Stop
  /\ UNCHANGED server

\* shutdown_all, or the process is killed.
BffRestart ==
  /\ Fault
  /\ Stop
  /\ UNCHANGED server

----------------------------------------------------------------------------
RelayStep ==
  \/ FetchWorkspace \/ ReadStatus \/ ReportStatus \/ StatusMissing
  \/ FetchPage \/ FetchPageFailed \/ EmitEvent \/ EndBatch

Next ==
  \/ AppendEvent \/ ChangeStatus
  \/ StartRelay \/ RelayStep
  \/ Crash \/ BffRestart

Spec == Init /\ [][Next]_vars

\* The event loop runs the task, and an open page polls GET /runs/{id} every
\* three seconds, which restarts it.  A fetch that can succeed eventually does:
\* only MaxFaults of them fail.
Fairness == WF_vars(RelayStep) /\ WF_vars(StartRelay)

FairSpec == Spec /\ Fairness

----------------------------------------------------------------------------
TypeOK ==
  /\ log \in Nat
  /\ status \in Live \cup {"deleted"}
  /\ pc \in {"none", "init", "poll", "report", "fetch", "emit"}
  /\ st \in Live \cup {NoStatus}
  /\ last \in Live \cup {NoStatus}
  /\ page \in Nat \ {0}
  /\ cur \in Nat \ {0}
  /\ top \in Nat
  /\ next \in Nat
  /\ sent \in Nat
  /\ faults \in Nat

(* The relay never skips: the cursor and the batch never lie beyond the    *)
(* first event this task has not forwarded, whatever fetches fail and      *)
(* however often the last page is fetched again while it grows.            *)
NoGap ==
  /\ page <= sent + 1
  /\ cur <= sent + 1
  /\ sent <= log
  /\ next # 0 => next <= (IF top > sent THEN top ELSE sent) + 1

(* Every event is forwarded while the conversation lives and someone looks *)
(* at it, in spite of failures and restarts, provided the relay does not   *)
(* find it in a terminal status first.                                     *)
CatchesUp ==
  \A e \in 1..MaxLog :
    log >= e ~> sent >= e \/ status \in Terminal \cup {"deleted"}

(* A status that lasts is reported to the room.                            *)
StatusReported ==
  \A s \in Active : status = s ~> last = s \/ status # s

----------------------------------------------------------------------------
(* Claims of the code's documentation that the code does not keep.         *)

(* "'event' - each ActionEvent/MessageEvent/ObservationEvent/etc" reaches  *)
(* the room: every event is forwarded, unless its conversation is deleted. *)
EveryEventForwarded ==
  \A e \in 1..MaxLog : log >= e ~> sent >= e \/ status = "deleted"
============================================================================
