--------------------------- MODULE RelayedSidecar ---------------------------
(***************************************************************************)
(* The sidecar producers behind the event relay: each forwarded event is   *)
(* handed to a thread, which appends it to an in-memory accumulator and    *)
(* computes the sidecar file's fields again from all of it.  The task      *)
(* awaits the thread; a write that fails is logged and forgotten.          *)
(*                                                                         *)
(* The sidecar is abstracted to the set of events its fields were computed *)
(* from: every event is taken to touch all of them.                        *)
(***************************************************************************)
EXTENDS EventRelay, Sequences

CONSTANTS
  Cap, Drop     \* _MAX_EVENTS_PER_CID and the part dropped beyond it

ASSUME CapAndDrop == Cap \in Nat \ {0} /\ Drop \in 1..Cap
\* 5000 events, 500 dropped at once, pages of 100
ASSUME RoomForAPage == PageSize + Drop <= Cap + 1

VARIABLES
  wired,        \* local: was working_dir resolved?
  acc,          \* _events_by_cid[cid]
  sidecar,      \* events the sidecar on disk was computed from
  feeding,      \* the event the producers' thread is at, 0 = none
  failed        \* history: did the last write of the sidecar fail?

sidevars == <<wired, acc, sidecar, feeding, failed>>
feedvars == <<vars, sidevars>>

FeedInit ==
  /\ Init
  /\ wired = FALSE
  /\ acc = <<>> /\ sidecar = {}
  /\ feeding = 0 /\ failed = FALSE

----------------------------------------------------------------------------
\* Mutated: nothing is ever dropped.
AppendedUncapped(buf, e) == Append(buf, e)

\* Mutated: the newest events are dropped.
AppendedDropNewest(buf, e) ==
  LET b == Append(buf, e)
  IN  IF Len(b) > Cap THEN SubSeq(b, 1, Len(b) - Drop) ELSE b

\* _append: beyond the cap the oldest events go.
Appended(buf, e) ==
  LET b == Append(buf, e)
  IN  IF Len(b) > Cap THEN SubSeq(b, Drop + 1, Len(b)) ELSE b

Elements(buf) == {buf[i] : i \in 1..Len(buf)}

\* A lookup that misses disables the producers for this task.
Workspace ==
  /\ FetchWorkspace
  /\ wired' = (status # "deleted" /\ faults' = faults)
  /\ UNCHANGED <<acc, sidecar, feeding, failed>>

\* The event goes out to the room, then to a thread the task waits for.
Emit ==
  /\ feeding = 0
  /\ EmitEvent
  /\ feeding' = IF wired THEN cur ELSE 0
  /\ UNCHANGED <<wired, acc, sidecar, failed>>

\* update_from_event: every producer reads the whole accumulator.  A write
\* that raises is swallowed, and the sidecar stays as it was.
FeedEvent ==
  /\ feeding # 0
  /\ feeding' = 0
  /\ acc' = Appended(acc, feeding)
  /\ \/ /\ sidecar' = Elements(acc')
        /\ failed' = FALSE
     \/ /\ failed' = TRUE
        /\ UNCHANGED sidecar
  /\ UNCHANGED <<vars, wired>>

\* Mutated: a finished run keeps its accumulator.
EndFeedKept ==
  /\ feeding = 0
  /\ EndBatch
  /\ UNCHANGED sidevars

\* reset_accumulator on a terminal status.
EndFeed ==
  /\ feeding = 0
  /\ EndBatch
  /\ acc' = IF pc' = "none" THEN <<>> ELSE acc
  /\ UNCHANGED <<wired, sidecar, feeding, failed>>

\* All memory of the BFF is gone, the sidecar is not.
Restart ==
  /\ BffRestart
  /\ acc' = <<>>
  /\ feeding' = 0
  /\ UNCHANGED <<wired, sidecar, failed>>

\* The task raises where it emits, never while it waits for the thread, which
\* catches everything; nothing in the BFF calls stop_relay.
TaskCrash == feeding = 0 /\ Crash

Elsewhere ==
  /\ \/ AppendEvent \/ ChangeStatus \/ StartRelay
     \/ ReadStatus \/ ReportStatus \/ StatusMissing
     \/ FetchPage \/ FetchPageFailed \/ TaskCrash
  /\ UNCHANGED sidevars

FeedNext == Workspace \/ Emit \/ FeedEvent \/ EndFeed \/ Restart \/ Elsewhere

\* The event loop runs the task, and an open page polls GET /runs/{id} every
\* three seconds, which starts it again.  A fetch that can succeed eventually
\* does: only MaxFaults of them fail.
FeedSpec ==
  /\ FeedInit /\ [][FeedNext]_feedvars
  /\ WF_feedvars(FeedNext /\ RelayStep)
  /\ WF_feedvars(FeedEvent)
  /\ WF_feedvars(FeedNext /\ StartRelay)

----------------------------------------------------------------------------
FeedTypeOK ==
  /\ TypeOK
  /\ wired \in BOOLEAN
  /\ acc \in Seq(Nat)
  /\ sidecar \subseteq Nat
  /\ feeding \in Nat
  /\ failed \in BOOLEAN

(* The accumulator keeps within _MAX_EVENTS_PER_CID, and the producers     *)
(* never read an event the agent-server does not have.                     *)
AccumulatorBounded ==
  /\ Len(acc) <= Cap
  /\ Elements(acc) \cup sidecar \subseteq 1..log

(* Whatever is dropped, and although each poll of a last page appends its  *)
(* events again, every event of the current page the task has handed over  *)
(* is in the accumulator, so that the next write has it; and it is in the  *)
(* sidecar unless the last write failed.                                   *)
CurrentPageKept ==
  wired =>
    \A e \in page..sent :
      e # feeding => e \in Elements(acc) /\ (~failed => e \in sidecar)

(* The sidecar's feed as a whole: bounded, real, and up to date.           *)
FeedHolds == FeedTypeOK /\ AccumulatorBounded /\ CurrentPageKept

(* A finished run leaves nothing in memory in the end: a task that dies,   *)
(* or fails to read the status, leaves its accumulator to the next one,    *)
(* and the one that sees the terminal status drops it.                     *)
FinishedIsForgotten == status = "finished" ~> acc = <<>> \/ status # "finished"
============================================================================
