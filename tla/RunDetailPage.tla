--------------------------- MODULE RunDetailPage ---------------------------
(***************************************************************************)
(* The run detail page of the browser on top of the event relay: the       *)
(* socket that joins the conversation's room, the poll of GET /runs/{id},  *)
(* and the Zustand store, which is global and outlives the page.           *)
(*                                                                         *)
(* An emission to the room reaches a socket that has joined it, in order,  *)
(* and no other.  What the store kept of another run is left out.          *)
(***************************************************************************)
EXTENDS EventRelay, Sequences, FiniteSets

CONSTANTS
  Window,       \* streamEvents keeps this many events (200 in the code)
  ErrorEvents   \* the events whose type is error or run_paused

ASSUME WindowIsNat == Window \in Nat \ {0}
ASSUME ErrorsAreEvents == ErrorEvents \subseteq Nat \ {0}

VARIABLES
  conn,         \* "away": page closed; "offline"; "joined": in the room
  seen,         \* streamEventIds
  view,         \* streamEvents
  banner,       \* pendingApprovalBanner
  shown,        \* run.status of the last GET /runs/{id}
  approving,    \* an approve request is in flight
  whole         \* history: the store was exact when this relay task began,
                \* and the socket has been in the room ever since

store    == <<seen, view, banner>>
pagevars == <<conn, store, shown, approving, whole>>
allvars  == <<vars, pagevars>>

PageInit ==
  /\ Init
  /\ conn = "away"
  /\ seen = {} /\ view = <<>> /\ banner = FALSE
  /\ shown = NoStatus
  /\ approving = FALSE
  /\ whole = FALSE

Joined == conn = "joined"
Open   == conn # "away"
Asking == shown = "waiting_for_confirmation" \/ banner

----------------------------------------------------------------------------
(* The store.                                                              *)

\* Mutated: nothing is forgotten.
LastOfAll(s) == s

\* slice(-200)
LastOf(s) ==
  IF Len(s) > Window THEN SubSeq(s, Len(s) - Window + 1, Len(s)) ELSE s

\* Mutated: deduplicates against the window instead of the seen ids.
AppendInWindow(e) ==
  /\ seen' = seen \cup {e}
  /\ view' = IF e \in {view[i] : i \in 1..Len(view)} THEN view ELSE LastOf(Append(view, e))

\* appendStreamEvent
AppendStreamEvent(e) ==
  /\ seen' = seen \cup {e}
  /\ view' = IF e \in seen THEN view ELSE LastOf(Append(view, e))

\* The store holds the first n events, and the window the last of them.
Exact(n) ==
  /\ seen = 1..n
  /\ view = LastOf([i \in 1..n |-> i])

\* start_relay from a request or a socket handler.
EnsureRelay ==
  IF pc = "none"
    THEN StartRelay /\ whole' = (conn' = "joined" /\ Exact(Cardinality(seen)))
    ELSE UNCHANGED <<vars, whole>>

\* handleEvent: an error clears the banner, whether or not it is new.
HandleEvent(e) ==
  /\ AppendStreamEvent(e)
  /\ banner' = (banner /\ e \notin ErrorEvents)

----------------------------------------------------------------------------
(* The relay's steps and what the room makes of them.                      *)

RoomEvent ==
  /\ EmitEvent
  /\ IF Joined THEN HandleEvent(cur) ELSE UNCHANGED store
  /\ UNCHANGED <<conn, shown, approving, whole>>

\* The page ignores 'status'; approval_required raises the banner.
RoomStatus ==
  /\ ReportStatus
  /\ banner' = (banner \/ (Joined /\ st # last /\ st = "waiting_for_confirmation"))
  /\ UNCHANGED <<conn, seen, view, shown, approving, whole>>

RelaySilent ==
  /\ \/ FetchWorkspace \/ ReadStatus \/ StatusMissing
     \/ FetchPage \/ FetchPageFailed \/ EndBatch \/ Crash
  /\ UNCHANGED pagevars

ServerStep ==
  /\ AppendEvent \/ ChangeStatus
  /\ UNCHANGED pagevars

BffGone ==
  /\ BffRestart
  /\ conn' = IF Joined THEN "offline" ELSE conn
  /\ whole' = FALSE
  /\ UNCHANGED <<store, shown, approving>>

----------------------------------------------------------------------------
(* The page.                                                               *)

OpenPage ==
  /\ conn = "away"
  /\ conn' = "offline"
  /\ UNCHANGED <<vars, store, shown, approving, whole>>

\* useRunStream's cleanup: the socket goes, the store stays.
ClosePage ==
  /\ Open
  /\ conn' = "away"
  /\ whole' = FALSE
  /\ UNCHANGED <<vars, store, shown, approving>>

\* The socket's connect handler: enter the room, then start the relay.  The
\* latestEventId of the query is not read.
Connect ==
  /\ conn = "offline"
  /\ conn' = "joined"
  /\ EnsureRelay
  /\ UNCHANGED <<store, shown, approving>>

Disconnect ==
  /\ Joined
  /\ Fault
  /\ conn' = "offline"
  /\ whole' = FALSE
  /\ UNCHANGED <<server, pc, locals, store, shown, approving>>

\* Mutated: no poll while the socket is in the room.
PollRunWhileOffline ==
  /\ conn = "offline"
  /\ status # "deleted"
  /\ shown' = status
  /\ UNCHANGED conn
  /\ EnsureRelay
  /\ UNCHANGED <<store, approving>>

\* useRunDetail, every 3 s: GET /runs/{id}.
PollRun ==
  /\ Open
  /\ status # "deleted"
  /\ shown' = status
  /\ UNCHANGED conn
  /\ EnsureRelay
  /\ UNCHANGED <<store, approving>>

\* POST /runs/{id}/approve reaches the agent-server ...
Approve ==
  /\ Open /\ Asking /\ ~approving
  /\ status = "waiting_for_confirmation"
  /\ status' = "running"
  /\ approving' = TRUE
  /\ UNCHANGED <<log, pc, locals, faults, conn, store, shown, whole>>

\* ... and its answer clears the banner.
Approved ==
  /\ approving
  /\ approving' = FALSE
  /\ banner' = FALSE
  /\ UNCHANGED <<vars, conn, seen, view, shown, whole>>

----------------------------------------------------------------------------
PageNext ==
  \/ RoomEvent \/ RoomStatus \/ RelaySilent \/ ServerStep \/ BffGone
  \/ OpenPage \/ ClosePage \/ Connect \/ Disconnect
  \/ PollRun \/ Approve \/ Approved

PageSpec == PageInit /\ [][PageNext]_allvars

\* The event loop runs the relay, socket.io reconnects, the query polls, and a
\* request is answered.
PageFairSpec ==
  /\ PageSpec
  /\ WF_allvars(RoomEvent \/ RoomStatus \/ (RelaySilent /\ pc' # pc))
  /\ WF_allvars(Connect)
  /\ WF_allvars(PollRun)
  /\ WF_allvars(Approved)

----------------------------------------------------------------------------
PageTypeOK ==
  /\ TypeOK
  /\ conn \in {"away", "offline", "joined"}
  /\ seen \subseteq Nat
  /\ view \in Seq(seen) /\ Len(view) <= Window
  /\ banner \in BOOLEAN
  /\ shown \in Live \cup {NoStatus}
  /\ approving \in BOOLEAN
  /\ whole \in BOOLEAN

(* A page that stays in the room shows exactly the last events forwarded,  *)
(* in order and each of them once, although the relay emits the last page  *)
(* of the log again on every poll and the whole log again after a crash,   *)
(* and although the window forgets.  PageHolds adds the types.             *)
ExactWhileJoined ==
  whole => Joined /\ \E n \in sent..log : Exact(n)

PageHolds == PageTypeOK /\ ExactWhileJoined

(* A request for approval becomes visible on an open page, also on one     *)
(* that joined the room after the relay had announced it.                  *)
ApprovalVisible ==
  status = "waiting_for_confirmation" /\ Open
    ~> Asking \/ status # "waiting_for_confirmation" \/ ~Open
============================================================================
