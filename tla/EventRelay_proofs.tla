-------------------------- MODULE EventRelay_proofs --------------------------
(***************************************************************************)
(* Proofs about the relay, its producers and the page that listens to it,  *)
(* for every log, page size, cap, window and number of faults. EventRelay: *)
(* what the cursor may reach depends on the batch in hand, and the batch   *)
(* on the log, so NoGap becomes inductive with the two facts of Inv: the   *)
(* batch exists on the server, and the types that make the arithmetic      *)
(* sound. RelayedSidecar: the feed is the relay's own cursor seen from the *)
(* file. RunDetailPage: what is on the wire, in the window and still to    *)
(* come is one stretch of the log.                                         *)
(***************************************************************************)
EXTENDS RelayedSidecar, RunDetailPage, SequenceTheorems, FiniteSetTheorems, TLAPS

\* The batch in hand lies in the log it was read from, which only grows.
BatchIsInLog == top <= log

Inv == TypeOK /\ NoGap /\ BatchIsInLog

(* A task that starts or ends satisfies everything: it has forwarded       *)
(* nothing, and its cursor is on the first event.                          *)
LEMMA FreshLocals ==
  ASSUME Inv, NoLocals, log' = log, status' = status, faults' \in Nat,
         pc' \in {"none", "init"}
  PROVE  Inv'
  BY DEF Inv, TypeOK, NoGap, BatchIsInLog, NoLocals, NoStatus

(* A fault keeps the counter a natural number.                             *)
LEMMA FaultCounts ==
  ASSUME TypeOK, Fault
  PROVE  faults' \in Nat
  BY DEF TypeOK, Fault

\* No relay runs yet.
LEMMA InitInv == Init => Inv
  BY DEF Init, Inv, TypeOK, NoGap, BatchIsInLog, Live, Quiet, NoStatus

\* Every step of the relay and of the server keeps the invariant.
LEMMA NextInv == Inv /\ [Next]_vars => Inv'
  <1> SUFFICES ASSUME Inv, [Next]_vars PROVE Inv'
    OBVIOUS
  <1> USE LogAndPage, FaultsAreNat
  <1>1. CASE AppendEvent
    BY <1>1 DEF AppendEvent, Inv, TypeOK, NoGap, BatchIsInLog, locals
  <1>2. CASE ChangeStatus
    <2>1. status' \in Live \cup {"deleted"}
      BY <1>2 DEF ChangeStatus, Inv, TypeOK, Live, Active, Terminal
    <2> QED
      BY <1>2, <2>1 DEF ChangeStatus, Inv, TypeOK, NoGap, BatchIsInLog, locals
  <1>3. CASE StartRelay
    BY <1>3, FreshLocals DEF StartRelay, server, Inv, TypeOK
  <1>4. CASE FetchWorkspace
    <2>1. faults' \in Nat
      BY <1>4, FaultCounts DEF FetchWorkspace, Inv, TypeOK
    <2> QED
      BY <1>4, <2>1
      DEF FetchWorkspace, Inv, TypeOK, NoGap, BatchIsInLog, locals, server
  <1>5. CASE ReadStatus
    BY <1>5 DEF ReadStatus, Inv, TypeOK, NoGap, BatchIsInLog, server
  <1>6. CASE ReportStatus
    BY <1>6 DEF ReportStatus, Inv, TypeOK, NoGap, BatchIsInLog, server
  <1>7. CASE StatusMissing
    <2>1. faults' \in Nat
      BY <1>7, FaultCounts DEF StatusMissing, Inv, TypeOK
    <2> QED
      BY <1>7, <2>1, FreshLocals DEF StatusMissing, Stop, server
  <1>8. CASE FetchPage
    BY <1>8 DEF FetchPage, Min2, Inv, TypeOK, NoGap, BatchIsInLog, server
  <1>9. CASE FetchPageFailed
    <2>1. faults' \in Nat
      BY <1>9, FaultCounts DEF FetchPageFailed, Inv, TypeOK
    <2> QED
      BY <1>9, <2>1
      DEF FetchPageFailed, Inv, TypeOK, NoGap, BatchIsInLog, server
  <1>10. CASE EmitEvent
    BY <1>10 DEF EmitEvent, Inv, TypeOK, NoGap, BatchIsInLog, server
  <1>11. CASE EndBatch
    <2>1. CASE st \in Terminal
      BY <1>11, <2>1, FreshLocals DEF EndBatch, Stop, server, Inv, TypeOK
    <2>2. CASE st \notin Terminal
      <3>1. top <= sent
        BY <1>11 DEF EndBatch, Inv, TypeOK, NoGap
      <3> QED
        BY <1>11, <2>2, <3>1
        DEF EndBatch, Inv, TypeOK, NoGap, BatchIsInLog, server
    <2> QED
      BY <2>1, <2>2
  <1>12. CASE Crash \/ BffRestart
    <2>1. faults' \in Nat
      BY <1>12, FaultCounts DEF Crash, BffRestart, Inv
    <2> QED
      BY <1>12, <2>1, FreshLocals DEF Crash, BffRestart, Stop, server
  <1>13. CASE UNCHANGED vars
    BY <1>13
    DEF vars, server, locals, Inv, TypeOK, NoGap, BatchIsInLog
  <1> QED
    BY <1>1, <1>2, <1>3, <1>4, <1>5, <1>6, <1>7, <1>8, <1>9, <1>10, <1>11,
       <1>12, <1>13 DEF Next, RelayStep

\* The invariant of the relay alone.
LEMMA InvHolds == Spec => []Inv
  BY InitInv, NextInv, PTL DEF Spec

(* Every variable of the relay and of the server keeps its type.           *)
THEOREM RelayTypeCorrect == Spec => []TypeOK
  <1>1. Inv => TypeOK
    BY DEF Inv
  <1> QED
    BY <1>1, InvHolds, PTL

(* _run_loop never skips an event, whatever fetches fail and however often *)
(* the last page is fetched again while it grows.                          *)
THEOREM RelayNeverSkips == Spec => []NoGap
  <1>1. Inv => NoGap
    BY DEF Inv
  <1> QED
    BY <1>1, InvHolds, PTL

----------------------------------------------------------------------------
(* The sidecar producers behind the relay.  Each poll appends the last     *)
(* page again, so the accumulator fills up with it and drops what is old;  *)
(* FeedHolds says that an event of the page itself is never dropped, and   *)
(* to keep that, one needs to know how far from its end each event is: the *)
(* part of the page handed over again lies after the part not yet handed   *)
(* over again, and together they are no longer than the page.              *)

\* The page at the cursor reaches what was forwarded, and so does the batch.
BatchReachesSent ==
  /\ sent <= page + PageSize - 1
  /\ pc = "emit" =>
       /\ cur >= page
       /\ cur <= page + PageSize
       /\ top <= page + PageSize - 1
       /\ cur <= top \/ cur > page => sent <= top
       /\ next # 0 => next >= page

\* A task that is not yet at work has forwarded nothing.
NothingSentYet == pc \in {"none", "init"} => sent = 0

\* The producers are at the event forwarded last, in a task that has a workspace.
FeedIsOwn == feeding # 0 => wired /\ pc = "emit" /\ feeding = cur - 1 /\ cur > page

\* e is among the last n entries of buf.
InTail(buf, e, n) == \E i \in 1..Len(buf) : buf[i] = e /\ Len(buf) - i < n

\* The events of this batch before it are in the accumulator.
Done == IF feeding # 0 THEN feeding ELSE cur

\* No entry that matters is farther than this from the accumulator's end.
Depth(e) ==
  IF pc = "emit"
    THEN IF e < Done THEN Done - e ELSE (sent - e + 1) + (Done - page)
    ELSE sent - e + 1

PageInTail ==
  wired => \A e \in page..sent : e # feeding => InTail(acc, e, Depth(e))

PageInSidecar ==
  wired /\ ~failed => \A e \in page..sent : e # feeding => e \in sidecar

FeedInv ==
  /\ Inv /\ FeedTypeOK /\ AccumulatorBounded
  /\ BatchReachesSent /\ NothingSentYet /\ FeedIsOwn
  /\ PageInTail /\ PageInSidecar

(* The accumulator with one more event: bounded, nothing invented, what    *)
(* was less than a page from its end is one further from it, and the event *)
(* itself is at its end.                                                   *)
LEMMA AppendedKeeps ==
  ASSUME NEW buf \in Seq(Nat), Len(buf) <= Cap, NEW e \in Nat
  PROVE  /\ Appended(buf, e) \in Seq(Nat)
         /\ Len(Appended(buf, e)) <= Cap
         /\ Elements(Appended(buf, e)) \subseteq Elements(buf) \cup {e}
         /\ \A x : \A n \in 0 .. PageSize - 1 :
              InTail(buf, x, n) => InTail(Appended(buf, e), x, n + 1)
         /\ InTail(Appended(buf, e), e, 1)
  <1> DEFINE b == Append(buf, e)
  <1>1. /\ b \in Seq(Nat) /\ Len(b) = Len(buf) + 1 /\ Len(buf) \in Nat
        /\ \A i \in 1..Len(buf) : b[i] = buf[i]
        /\ b[Len(buf) + 1] = e
    BY AppendProperties, LenProperties
  <1>2. Appended(buf, e) = IF Len(b) > Cap THEN SubSeq(b, Drop + 1, Len(b)) ELSE b
    BY DEF Appended
  <1> HIDE DEF b
  <1>3. Elements(b) \subseteq Elements(buf) \cup {e}
    BY <1>1 DEF Elements
  <1>4. ASSUME NEW x, NEW n \in 0 .. PageSize - 1, InTail(buf, x, n)
        PROVE  InTail(b, x, n + 1)
    BY <1>1, <1>4, LogAndPage DEF InTail
  <1>5. InTail(b, e, 1)
    <2>1. Len(b) \in 1..Len(b) /\ b[Len(b)] = e /\ Len(b) - Len(b) < 1
      BY <1>1
    <2> QED
      BY <2>1 DEF InTail
  <1>6. CASE Len(b) <= Cap
    <2>1. Appended(buf, e) = b
      BY <1>1, <1>2, <1>6, CapAndDrop
    <2> QED
      BY <1>1, <1>3, <1>4, <1>5, <1>6, <2>1
  <1>7. CASE Len(b) > Cap
    <2> DEFINE rest == SubSeq(b, Drop + 1, Len(b))
    <2>1. /\ Drop \in Nat /\ 1 <= Drop /\ Drop < Len(b) /\ Len(b) = Cap + 1 /\ Cap \in Nat
      BY <1>1, <1>7, CapAndDrop
    <2>2. \A i \in Drop + 1 .. Len(b) : b[i] \in Nat
      BY <1>1, <2>1, ElementOfSeq
    <2>3. /\ rest \in Seq(Nat)
          /\ Len(rest) = (IF Drop + 1 <= Len(b) THEN Len(b) - (Drop + 1) + 1 ELSE 0)
          /\ \A i \in 1 .. Len(b) - (Drop + 1) + 1 : rest[i] = b[(Drop + 1) + i - 1]
      BY <1>1, <2>1, <2>2, SubSeqProperties DEF rest
    <2>4. rest \in Seq(Nat) /\ Len(rest) = Len(b) - Drop /\ Len(rest) <= Cap
      BY <2>1, <2>3
    <2>5. \A i \in 1..Len(rest) : rest[i] = b[Drop + i] /\ Drop + i \in 1..Len(b)
      BY <1>1, <2>1, <2>3, <2>4
    <2>6. Elements(rest) \subseteq Elements(b)
      BY <2>5 DEF Elements
    <2>8. Appended(buf, e) = rest
      BY <1>2, <1>7
    <2> HIDE DEF rest
    <2>7. ASSUME NEW x, NEW n \in 1..PageSize, InTail(b, x, n)
          PROVE  InTail(rest, x, n)
      <3>1. PICK i \in 1..Len(b) : b[i] = x /\ Len(b) - i < n
        BY <2>7 DEF InTail
      <3>2. i > Drop /\ i - Drop \in 1..Len(rest) /\ Len(rest) - (i - Drop) < n
        <4>1. i \in Nat /\ n \in Nat /\ n <= PageSize /\ PageSize \in Nat
          BY <1>1, <2>1, LogAndPage
        <4>2. Len(b) - i < n /\ Len(b) = Cap + 1 /\ i <= Len(b)
          BY <2>1, <3>1, <4>1
        <4>3. i > Drop
          BY <2>1, <4>1, <4>2, RoomForAPage
        <4> QED
          BY <2>1, <2>4, <4>1, <4>2, <4>3
      <3>3. rest[i - Drop] = b[Drop + (i - Drop)]
        BY <2>5, <3>2
      <3>4. Drop + (i - Drop) = i
        BY <1>1, <2>1
      <3> QED
        BY <3>1, <3>2, <3>3, <3>4 DEF InTail
    <2>9. ASSUME NEW x, NEW n \in 0 .. PageSize - 1, InTail(buf, x, n)
          PROVE  InTail(rest, x, n + 1)
      <3>1. n + 1 \in 1..PageSize
        BY LogAndPage
      <3> QED
        BY <1>4, <2>7, <2>9, <3>1
    <2>10. InTail(rest, e, 1)
      BY <1>5, <2>7, LogAndPage
    <2> QED
      BY <1>3, <2>4, <2>6, <2>8, <2>9, <2>10
  <1> QED
    BY <1>1, <1>6, <1>7, CapAndDrop

\* No relay runs, nothing was fed.
LEMMA InitFeedInv == FeedInit => FeedInv
  <1> SUFFICES ASSUME FeedInit PROVE FeedInv
    OBVIOUS
  <1>1. Inv
    BY InitInv DEF FeedInit
  <1>2. acc \in Seq(Nat) /\ Len(acc) = 0 /\ Elements(acc) = {}
    BY EmptySeq DEF FeedInit, Elements
  <1>3. FeedTypeOK
    BY <1>1, <1>2 DEF FeedInit, Inv, FeedTypeOK
  <1>4. Elements(acc) \cup sidecar = {}
    BY <1>2 DEF FeedInit
  <1>5. AccumulatorBounded
    BY <1>2, <1>4, CapAndDrop DEF AccumulatorBounded
  <1>6. BatchReachesSent /\ NothingSentYet /\ FeedIsOwn /\ PageInTail /\ PageInSidecar
    BY LogAndPage
    DEF FeedInit, Init, BatchReachesSent, NothingSentYet, FeedIsOwn, PageInTail, PageInSidecar
  <1> QED
    BY <1>1, <1>3, <1>5, <1>6 DEF FeedInv

(* The facts about the relay alone are kept by the relay alone.            *)
LEMMA RelayPartKept ==
  ASSUME Inv, BatchReachesSent, NothingSentYet, [Next]_vars
  PROVE  Inv' /\ BatchReachesSent' /\ NothingSentYet' /\ log <= log' /\ log' \in Nat
  <1> USE LogAndPage, FaultsAreNat
  <1>1. Inv'
    BY NextInv
  <1>2. log <= log' /\ log' \in Nat
    BY DEF Next, RelayStep, AppendEvent, ChangeStatus, StartRelay, FetchWorkspace, ReadStatus,
           ReportStatus, StatusMissing, FetchPage, FetchPageFailed, EmitEvent, EndBatch, Crash,
           BffRestart, server, vars, Inv, TypeOK
  <1>3. NothingSentYet'
    BY DEF Next, RelayStep, AppendEvent, ChangeStatus, StartRelay, FetchWorkspace, ReadStatus,
           ReportStatus, StatusMissing, FetchPage, FetchPageFailed, EmitEvent, EndBatch, Crash,
           BffRestart, Stop, NoLocals, locals, vars, NothingSentYet
  <1>4. BatchReachesSent'
    <2> USE DEF Inv, TypeOK, NoGap, BatchReachesSent
    <2>1. CASE AppendEvent \/ ChangeStatus
      BY <2>1 DEF AppendEvent, ChangeStatus, locals
    <2>2. CASE StartRelay \/ StatusMissing \/ Crash \/ BffRestart
      BY <2>2 DEF StartRelay, StatusMissing, Crash, BffRestart, Stop, NoLocals
    <2>3. CASE FetchWorkspace \/ ReadStatus \/ ReportStatus
      BY <2>3 DEF FetchWorkspace, ReadStatus, ReportStatus, locals
    <2>4. CASE FetchPage
      BY <2>4 DEF FetchPage, Min2
    <2>5. CASE FetchPageFailed
      BY <2>5 DEF FetchPageFailed
    <2>6. CASE EmitEvent
      BY <2>6 DEF EmitEvent
    <2>7. CASE EndBatch
      BY <2>7 DEF EndBatch, Stop, NoLocals
    <2>8. CASE UNCHANGED vars
      BY <2>8 DEF vars, locals
    <2> QED
      BY <2>1, <2>2, <2>3, <2>4, <2>5, <2>6, <2>7, <2>8 DEF Next, RelayStep
  <1> QED
    BY <1>1, <1>2, <1>3, <1>4

(* A step that leaves the feed alone and, for the events still on the      *)
(* page, only lets the tail in which they must be grow.                    *)
LEMMA TailKept ==
  ASSUME FeedInv, Inv', UNCHANGED <<wired, acc, sidecar, feeding, failed, sent>>,
         page' >= page, \A e \in page'..sent : Depth(e) <= Depth(e)'
  PROVE  PageInTail' /\ PageInSidecar'
  <1>1. page \in Nat /\ sent \in Nat /\ cur \in Nat /\ feeding \in Nat /\ page' \in Nat
    BY DEF FeedInv, Inv, TypeOK, FeedTypeOK
  <1>2. ASSUME wired, NEW e \in page'..sent, e # feeding
        PROVE  InTail(acc, e, Depth(e)')
    <2>1. e \in page..sent
      BY <1>1
    <2>2. PICK i \in 1..Len(acc) : acc[i] = e /\ Len(acc) - i < Depth(e)
      BY <1>2, <2>1 DEF FeedInv, PageInTail, InTail
    <2>3. Len(acc) \in Nat /\ Depth(e) \in Int
      BY <1>1, LenProperties DEF FeedInv, FeedTypeOK, Depth, Done
    <2>4. Depth(e)' \in Int
      BY <1>1 DEF Inv, TypeOK, Depth, Done
    <2> QED
      BY <2>2, <2>3, <2>4 DEF InTail
  <1>3. PageInTail'
    BY <1>2 DEF PageInTail
  <1>4. PageInSidecar'
    BY <1>1 DEF FeedInv, PageInSidecar
  <1> QED
    BY <1>3, <1>4

(* A step of the relay that forwards nothing, with the sidecar left alone. *)
LEMMA FeedAlone ==
  ASSUME FeedInv, [Next]_vars, ~EmitEvent, UNCHANGED <<sidecar, failed>>,
         wired' \in BOOLEAN, wired' = wired \/ sent' = 0,
         acc' = acc \/ (acc' = <<>> /\ sent' = 0),
         feeding' = 0 \/ UNCHANGED <<pc, locals, feeding>>,
         feeding' = feeding \/ sent' = 0
  PROVE  FeedInv'
  <1>1. Inv' /\ BatchReachesSent' /\ NothingSentYet' /\ log <= log' /\ log' \in Nat
    BY RelayPartKept DEF FeedInv
  <1>2. Inv /\ TypeOK /\ FeedTypeOK /\ AccumulatorBounded /\ BatchReachesSent
        /\ NothingSentYet /\ FeedIsOwn /\ log \in Nat
    BY DEF FeedInv, Inv, TypeOK
  <1>3. FeedTypeOK'
    <2>1. acc' \in Seq(Nat)
      BY <1>2, EmptySeq DEF FeedTypeOK
    <2>2. feeding' \in Nat
      BY <1>2 DEF FeedTypeOK
    <2> QED
      BY <1>1, <1>2, <2>1, <2>2 DEF FeedTypeOK, Inv
  <1>4. AccumulatorBounded'
    <2>1. CASE acc' = acc
      BY <1>1, <1>2, <2>1 DEF AccumulatorBounded, Elements
    <2>2. CASE acc' = <<>>
      <3>1. Len(acc') = 0 /\ Elements(acc)' = {}
        BY <2>2, EmptySeq DEF Elements
      <3> QED
        BY <1>1, <1>2, <3>1, CapAndDrop DEF AccumulatorBounded
    <2> QED
      BY <2>1, <2>2
  <1>5. feeding # 0 => sent # 0
    BY <1>2 DEF FeedIsOwn, Inv, TypeOK, NoGap
  <1>6. CASE sent' = 0
    <2>1. page' \in Nat \ {0}
      BY <1>1 DEF Inv, TypeOK
    <2>2. page' .. sent' = {}
      BY <1>6, <2>1
    <2>3. feeding' = 0
      BY <1>5, <1>6 DEF locals
    <2>4. FeedIsOwn' /\ PageInTail' /\ PageInSidecar'
      BY <2>2, <2>3 DEF FeedIsOwn, PageInTail, PageInSidecar
    <2> QED
      BY <1>1, <1>3, <1>4, <2>4 DEF FeedInv
  <1>7. CASE sent' # 0
    <2>1. UNCHANGED <<wired, acc, feeding>>
      BY <1>7
    <2>2. FeedIsOwn'
      BY <1>2, <2>1 DEF FeedIsOwn, locals
    <2>3. sent' = sent /\ page' >= page /\ (UNCHANGED <<pc, locals>> \/ feeding = 0)
          /\ \A e \in page'..sent : Depth(e) <= Depth(e)'
      <3> USE DEF Inv, TypeOK, NoGap, BatchReachesSent
      <3> USE LogAndPage, <1>2, <2>1
      <3>1. CASE UNCHANGED <<pc, locals>>
        BY <3>1 DEF locals, Depth, Done, FeedTypeOK
      <3>2. CASE ~UNCHANGED <<pc, locals>>
        <4>1. feeding = 0
          BY <3>2
        <4>2. CASE StartRelay \/ StatusMissing \/ Crash \/ BffRestart
          BY <1>7, <4>2 DEF StartRelay, StatusMissing, Crash, BffRestart, Stop, NoLocals
        <4>3. CASE FetchWorkspace
          BY <1>7, <4>3 DEF FetchWorkspace, locals, NothingSentYet
        <4>4. CASE ReadStatus \/ ReportStatus
          BY <4>1, <4>4 DEF ReadStatus, ReportStatus, Depth
        <4>5. CASE FetchPage \/ FetchPageFailed
          BY <4>1, <4>5 DEF FetchPage, FetchPageFailed, Depth, Done
        <4>6. CASE EndBatch
          <5>1. pc = "emit" /\ cur > top /\ pc' = "poll" /\ UNCHANGED <<cur, top, sent>>
                /\ page' = IF next # 0 THEN next ELSE page
            BY <1>7, <4>6 DEF EndBatch, Stop, NoLocals
          <5>2. page' >= page
            BY <5>1
          <5>3. cur = page \/ sent < cur
            BY <5>1
          <5>4. \A e \in page'..sent : Depth(e) <= Depth(e)'
            BY <4>1, <5>1, <5>2, <5>3 DEF Depth, Done
          <5> QED
            BY <4>1, <5>1, <5>2, <5>4
        <4>7. CASE AppendEvent \/ ChangeStatus \/ UNCHANGED vars
          BY <3>2, <4>7 DEF AppendEvent, ChangeStatus, vars
        <4> QED
          BY <4>2, <4>3, <4>4, <4>5, <4>6, <4>7 DEF Next, RelayStep
      <3> QED
        BY <3>1, <3>2
    <2>4. PageInTail' /\ PageInSidecar'
      BY <1>1, <2>1, <2>3, TailKept
    <2> QED
      BY <1>1, <1>3, <1>4, <2>2, <2>4 DEF FeedInv
  <1> QED
    BY <1>6, <1>7

(* The event goes out, and to the producers if the task has a workspace.   *)
LEMMA EmitKeeps ==
  ASSUME FeedInv, Emit
  PROVE  FeedInv'
  <1>1. [Next]_vars
    BY DEF Emit, Next, RelayStep
  <1>2. Inv' /\ BatchReachesSent' /\ NothingSentYet' /\ log' \in Nat
    BY <1>1, RelayPartKept DEF FeedInv
  <1>3. /\ pc = "emit" /\ cur <= top /\ cur' = cur + 1 /\ sent' = (IF cur > sent THEN cur ELSE sent)
        /\ feeding = 0 /\ feeding' = (IF wired THEN cur ELSE 0)
        /\ UNCHANGED <<log, pc, page, top, wired, acc, sidecar, failed>>
    BY DEF Emit, EmitEvent, server
  <1>4. /\ cur \in Nat \ {0} /\ sent \in Nat /\ page \in Nat \ {0} /\ cur >= page
        /\ cur <= sent + 1
    BY <1>3 DEF FeedInv, Inv, TypeOK, BatchReachesSent, NoGap
  <1>5. FeedTypeOK' /\ AccumulatorBounded' /\ FeedIsOwn'
    BY <1>2, <1>3, <1>4
    DEF FeedInv, FeedTypeOK, AccumulatorBounded, Elements, FeedIsOwn, Inv
  <1>6. ASSUME wired, NEW e \in page..sent', e # cur
        PROVE  e \in page..sent /\ Depth(e)' = Depth(e) /\ Depth(e) \in Int
    BY <1>3, <1>4, <1>6 DEF Depth, Done
  <1>7. PageInTail'
    <2> SUFFICES ASSUME wired, NEW e \in page..sent', e # cur
                 PROVE  InTail(acc, e, Depth(e)')
      BY <1>3 DEF PageInTail
    <2> QED
      BY <1>3, <1>4, <1>6 DEF FeedInv, PageInTail
  <1>8. PageInSidecar'
    BY <1>3, <1>4, <1>6 DEF FeedInv, PageInSidecar
  <1> QED
    BY <1>2, <1>5, <1>7, <1>8 DEF FeedInv

(* The producers append the event, which brings the rest of the page one   *)
(* further from the end and no further than a page, and write it all down. *)
LEMMA FeedEventKeeps ==
  ASSUME FeedInv, FeedEvent
  PROVE  FeedInv'
  <1>1. UNCHANGED vars /\ wired' = wired /\ feeding # 0 /\ feeding' = 0
        /\ acc' = Appended(acc, feeding)
    BY DEF FeedEvent
  <1>2. UNCHANGED <<log, pc, locals>> /\ UNCHANGED <<cur, page, sent>>
    BY <1>1 DEF vars, server, locals
  <1>3. Inv' /\ BatchReachesSent' /\ NothingSentYet'
    BY <1>1, RelayPartKept DEF FeedInv
  <1>4. /\ wired /\ pc = "emit" /\ feeding = cur - 1 /\ feeding \in page..sent
        /\ cur \in Nat /\ sent \in Nat /\ page \in Nat \ {0} /\ log \in Nat /\ feeding \in Nat
        /\ cur <= page + PageSize /\ sent <= page + PageSize - 1 /\ sent <= log
    BY <1>1 DEF FeedInv, FeedIsOwn, Inv, TypeOK, NoGap, BatchReachesSent
  <1>5. acc \in Seq(Nat) /\ Len(acc) <= Cap
    BY DEF FeedInv, FeedTypeOK, AccumulatorBounded
  <1>6. /\ acc' \in Seq(Nat) /\ Len(acc') <= Cap
        /\ Elements(acc') \subseteq Elements(acc) \cup {feeding}
        /\ \A x : \A n \in 0 .. PageSize - 1 : InTail(acc, x, n) => InTail(acc', x, n + 1)
        /\ InTail(acc', feeding, 1)
    BY <1>1, <1>4, <1>5, AppendedKeeps
  <1>7. ASSUME NEW e \in page..sent
        PROVE  InTail(acc', e, Depth(e)')
    <2>1. CASE e = feeding
      <3>1. Depth(e)' = 1
        BY <1>1, <1>2, <1>4, <2>1 DEF Depth, Done
      <3> QED
        BY <1>6, <2>1, <3>1
    <2>2. CASE e # feeding
      <3>1. Depth(e) \in 0 .. PageSize - 1 /\ Depth(e)' = Depth(e) + 1
        BY <1>1, <1>2, <1>4, <2>2, LogAndPage DEF Depth, Done
      <3>2. InTail(acc, e, Depth(e))
        BY <1>4, <2>2 DEF FeedInv, PageInTail
      <3> QED
        BY <1>6, <3>1, <3>2
    <2> QED
      BY <2>1, <2>2
  <1>8. \A e \in page..sent : e \in Elements(acc')
    BY <1>7 DEF InTail, Elements
  <1>9. Elements(acc') \subseteq 1..log
    BY <1>4, <1>6 DEF FeedInv, AccumulatorBounded
  <1>10. Elements(acc)' = Elements(acc')
    BY DEF Elements
  <1>11. /\ sidecar' = Elements(acc') \/ sidecar' = sidecar
         /\ failed' \in BOOLEAN
         /\ ~failed' => sidecar' = Elements(acc')
    BY DEF FeedEvent
  <1>12. FeedTypeOK'
    <2>1. FeedTypeOK /\ 1..log \subseteq Nat
      BY <1>4 DEF FeedInv
    <2>2. sidecar' \subseteq Nat /\ failed' \in BOOLEAN
      BY <1>9, <1>11, <2>1 DEF FeedTypeOK
    <2> QED
      BY <1>1, <1>3, <1>6, <2>1, <2>2 DEF FeedTypeOK, Inv
  <1>13. AccumulatorBounded'
    BY <1>2, <1>6, <1>9, <1>10, <1>11 DEF FeedInv, AccumulatorBounded
  <1>14. FeedIsOwn' /\ PageInTail'
    BY <1>1, <1>2, <1>7 DEF FeedIsOwn, PageInTail
  <1>15. PageInSidecar'
    BY <1>2, <1>8, <1>11 DEF PageInSidecar
  <1> QED
    BY <1>3, <1>12, <1>13, <1>14, <1>15 DEF FeedInv

\* Every step of the relay with its sidecar keeps the invariant.
LEMMA NextFeedInv == FeedInv /\ [FeedNext]_feedvars => FeedInv'
  <1> SUFFICES ASSUME FeedInv, [FeedNext]_feedvars PROVE FeedInv'
    OBVIOUS
  <1>1. wired \in BOOLEAN /\ (feeding # 0 => pc = "emit")
    BY DEF FeedInv, FeedTypeOK, FeedIsOwn
  <1>2. CASE Workspace
    <2>1. sent' = 0 /\ ~EmitEvent /\ wired' \in BOOLEAN /\ feeding = 0
      BY <1>1, <1>2 DEF Workspace, FetchWorkspace, locals, FeedInv, NothingSentYet, EmitEvent
    <2>2. [Next]_vars
      BY <1>2 DEF Workspace, Next, RelayStep
    <2> QED
      BY <1>2, <2>1, <2>2, FeedAlone DEF Workspace
  <1>3. CASE Emit
    BY <1>3, EmitKeeps
  <1>4. CASE FeedEvent
    BY <1>4, FeedEventKeeps
  <1>5. CASE EndFeed
    <2>1. ~EmitEvent
      BY <1>5 DEF EndFeed, EndBatch, EmitEvent, FeedInv, Inv, TypeOK
    <2>2. [Next]_vars
      BY <1>5 DEF EndFeed, Next, RelayStep
    <2>3. acc' = acc \/ (acc' = <<>> /\ sent' = 0)
      BY <1>5 DEF EndFeed, EndBatch, Stop, NoLocals
    <2> QED
      BY <1>1, <1>5, <2>1, <2>2, <2>3, FeedAlone DEF EndFeed
  <1>6. CASE Restart
    <2>1. ~EmitEvent /\ sent' = 0
      BY <1>6 DEF Restart, BffRestart, Stop, NoLocals, EmitEvent, FeedInv, Inv, TypeOK, Fault
    <2>2. [Next]_vars
      BY <1>6 DEF Restart, Next
    <2> QED
      BY <1>1, <1>6, <2>1, <2>2, FeedAlone DEF Restart
  <1>7. CASE Elsewhere
    <2>1. ~EmitEvent
      BY <1>7 DEF Elsewhere, TaskCrash, AppendEvent, ChangeStatus, StartRelay, ReadStatus,
           ReportStatus, StatusMissing, FetchPage, FetchPageFailed, Crash, Fault, Stop, NoLocals,
           EmitEvent, FeedInv, Inv, TypeOK, server, locals
    <2>2. [Next]_vars
      BY <1>7 DEF Elsewhere, TaskCrash, Next, RelayStep
    <2>3. feeding = 0 \/ UNCHANGED <<pc, locals>>
      BY <1>1, <1>7 DEF Elsewhere, TaskCrash, AppendEvent, ChangeStatus, StartRelay, ReadStatus,
           ReportStatus, StatusMissing, FetchPage, FetchPageFailed
    <2> QED
      BY <1>1, <1>7, <2>1, <2>2, <2>3, FeedAlone DEF Elsewhere, sidevars
  <1>8. CASE UNCHANGED feedvars
    <2>1. UNCHANGED vars /\ UNCHANGED sidevars
      BY <1>8 DEF feedvars
    <2>2. ~EmitEvent
      BY <2>1 DEF EmitEvent, vars, locals, FeedInv, Inv, TypeOK
    <2> QED
      BY <1>1, <2>1, <2>2, FeedAlone DEF sidevars, vars
  <1> QED
    BY <1>2, <1>3, <1>4, <1>5, <1>6, <1>7, <1>8 DEF FeedNext

\* The invariant of the relay with its sidecar.
LEMMA FeedInvHolds == FeedSpec => []FeedInv
  BY InitFeedInv, NextFeedInv, PTL DEF FeedSpec

(* update_from_event: the accumulator keeps within its cap, the producers  *)
(* read only events of the server, and every event of the current page the *)
(* task has handed over is in the accumulator, and in the sidecar unless   *)
(* its last write failed, however often the page is read again.            *)
THEOREM FeedIsUpToDate == FeedSpec => []FeedHolds
  <1>1. ASSUME FeedInv PROVE CurrentPageKept
    <2> SUFFICES ASSUME wired, NEW e \in page..sent, e # feeding
                 PROVE  e \in Elements(acc) /\ (~failed => e \in sidecar)
      BY DEF CurrentPageKept
    <2>1. InTail(acc, e, Depth(e))
      BY <1>1 DEF FeedInv, PageInTail
    <2> QED
      BY <1>1, <2>1 DEF InTail, Elements, FeedInv, PageInSidecar
  <1>2. FeedInv => FeedHolds
    BY <1>1 DEF FeedInv, FeedHolds
  <1> QED
    BY <1>2, FeedInvHolds, PTL

----------------------------------------------------------------------------
(* The page at the other end of the room.  The store is exact for some     *)
(* prefix of the log that contains all that this task has forwarded: an    *)
(* event is either in it and changes nothing, or is the next one.          *)

\* The store knows only events that exist.
SeenIsReal == seen \subseteq 1..log

PageInv == Inv /\ PageHolds /\ SeenIsReal

\* The first n events.
FirstEvents(n) == [i \in 1..n |-> i]

(* The end of a sequence.                                                  *)
LEMMA LastOfElements ==
  ASSUME NEW S, NEW s \in Seq(S)
  PROVE  /\ LastOf(s) \in Seq(S)
         /\ Len(LastOf(s)) = (IF Len(s) > Window THEN Window ELSE Len(s))
         /\ \A i \in 1..Len(LastOf(s)) : LastOf(s)[i] = s[Len(s) - Len(LastOf(s)) + i]
  <1>1. Len(s) \in Nat /\ \A i \in 1..Len(s) : s[i] \in S
    BY LenProperties, ElementOfSeq
  <1>2. CASE Len(s) > Window
    <2> DEFINE m == Len(s) - Window + 1
    <2>1. /\ m \in Int /\ 1 <= m /\ m <= Len(s) /\ Len(s) - m + 1 = Window
          /\ \A i \in m..Len(s) : s[i] \in S
      BY <1>1, <1>2, WindowIsNat
    <2>2. LastOf(s) = SubSeq(s, m, Len(s))
      BY <1>2 DEF LastOf
    <2>3. \A i \in 1..Window : m + i - 1 = Len(s) - Window + i
      BY <1>1, WindowIsNat
    <2> HIDE DEF m
    <2>4. /\ LastOf(s) \in Seq(S) /\ Len(LastOf(s)) = Window
          /\ \A i \in 1..Window : LastOf(s)[i] = s[m + i - 1]
      BY <1>1, <2>1, <2>2, SubSeqProperties
    <2> QED
      BY <1>2, <2>3, <2>4
  <1>3. CASE ~(Len(s) > Window)
    <2>1. LastOf(s) = s
      BY <1>3 DEF LastOf
    <2> QED
      BY <1>1, <1>3, <2>1
  <1> QED
    BY <1>2, <1>3

(* The window over the first n events, element by element.                 *)
LEMMA LastOfFirst ==
  ASSUME NEW n \in Nat
  PROVE  /\ LastOf(FirstEvents(n)) \in Seq(Nat)
         /\ Len(LastOf(FirstEvents(n))) = (IF n > Window THEN Window ELSE n)
         /\ \A i \in 1..Len(LastOf(FirstEvents(n))) :
              LastOf(FirstEvents(n))[i] = n - Len(LastOf(FirstEvents(n))) + i
  <1> DEFINE f == FirstEvents(n)
  <1>1. f \in [1..n -> Nat] /\ \A i \in 1..n : f[i] = i
    BY DEF FirstEvents
  <1>2. f \in Seq(Nat)
    BY <1>1, SeqDef
  <1>3. Len(f) = n
    BY <1>1, <1>2, LenProperties
  <1> HIDE DEF f
  <1> DEFINE v == LastOf(f)
  <1>4. /\ v \in Seq(Nat)
        /\ Len(v) = (IF n > Window THEN Window ELSE n)
        /\ \A i \in 1..Len(v) : v[i] = f[n - Len(v) + i]
    BY <1>2, <1>3, LastOfElements
  <1> HIDE DEF v
  <1>5. \A i \in 1..Len(v) : n - Len(v) + i \in 1..n
    BY <1>4, WindowIsNat
  <1>6. \A i \in 1..Len(v) : v[i] = n - Len(v) + i
    BY <1>1, <1>4, <1>5
  <1> QED
    BY <1>4, <1>6 DEF v, f

(* The window forgets from the far end only: with the next event appended  *)
(* it is the window over one event more.                                   *)
LEMMA WindowMoves ==
  ASSUME NEW n \in Nat
  PROVE  LastOf(Append(LastOf(FirstEvents(n)), n + 1)) = LastOf(FirstEvents(n + 1))
  <1> DEFINE v == LastOf(FirstEvents(n))
             b == Append(v, n + 1)
             w == LastOf(b)
             x == LastOf(FirstEvents(n + 1))
  <1>1. /\ v \in Seq(Nat) /\ Len(v) = (IF n > Window THEN Window ELSE n)
        /\ \A i \in 1..Len(v) : v[i] = n - Len(v) + i
    BY LastOfFirst
  <1>2. n + 1 \in Nat
    OBVIOUS
  <1>3. /\ x \in Seq(Nat) /\ Len(x) = (IF n + 1 > Window THEN Window ELSE n + 1)
        /\ \A i \in 1..Len(x) : x[i] = n + 1 - Len(x) + i
    BY <1>2, LastOfFirst
  <1> HIDE DEF v, x
  <1>4. /\ b \in Seq(Nat) /\ Len(b) = Len(v) + 1
        /\ \A i \in 1..Len(v) : b[i] = v[i]
        /\ b[Len(v) + 1] = n + 1
    BY <1>1, <1>2, AppendProperties
  <1> HIDE DEF b
  <1>5. Len(v) \in Nat /\ Len(x) \in Nat
    BY <1>1, <1>3, WindowIsNat
  <1>6. \A i \in 1..Len(b) : b[i] = n - Len(v) + i
    BY <1>1, <1>4, <1>5
  <1>7. /\ w \in Seq(Nat) /\ Len(w) = (IF Len(b) > Window THEN Window ELSE Len(b))
        /\ \A i \in 1..Len(w) : w[i] = b[Len(b) - Len(w) + i]
    BY <1>4, LastOfElements
  <1> HIDE DEF w
  <1>8. Len(w) = Len(x)
    BY <1>1, <1>3, <1>4, <1>7, WindowIsNat
  <1>9. \A i \in 1..Len(w) : Len(b) - Len(w) + i \in 1..Len(b)
    BY <1>4, <1>5, <1>7, WindowIsNat
  <1>10. \A i \in 1..Len(w) : w[i] = x[i]
    <2> TAKE i \in 1..Len(w)
    <2>1. w[i] = n - Len(v) + (Len(b) - Len(w) + i)
      BY <1>6, <1>7, <1>9
    <2>2. x[i] = n + 1 - Len(x) + i
      BY <1>3, <1>8
    <2> QED
      BY <1>4, <1>5, <1>8, <2>1, <2>2
  <1>11. w = x
    BY <1>3, <1>7, <1>8, <1>10, SeqEqual
  <1> QED
    BY <1>11 DEF w, b, v, x

\* The page is closed, nothing was sent.
LEMMA InitPageInv == PageInit => PageInv
  <1> SUFFICES ASSUME PageInit PROVE PageInv
    OBVIOUS
  <1>1. Inv
    BY InitInv DEF PageInit
  <1>2. view \in Seq(seen) /\ Len(view) <= Window
    BY EmptySeq, WindowIsNat DEF PageInit
  <1>3. PageTypeOK
    BY <1>1, <1>2 DEF PageInit, PageTypeOK, Inv
  <1> QED
    BY <1>1, <1>3 DEF PageInit, PageInv, PageHolds, ExactWhileJoined, SeenIsReal

(* A relay that starts with the store exact is whole from the beginning.   *)
LEMMA EnsureRelayKeeps ==
  ASSUME PageInv, EnsureRelay, UNCHANGED store,
         conn' \in {"away", "offline", "joined"}, conn' = conn \/ conn' = "joined"
  PROVE  /\ Inv' /\ SeenIsReal' /\ whole' \in BOOLEAN /\ ExactWhileJoined'
         /\ log' = log /\ status' = status
  <1>1. /\ Inv /\ SeenIsReal /\ whole \in BOOLEAN /\ ExactWhileJoined /\ log \in Nat
    BY DEF PageInv, PageHolds, PageTypeOK, Inv, TypeOK
  <1>2. \A n \in Nat : Exact(n)' <=> Exact(n)
    BY DEF Exact, store
  <1>3. CASE pc = "none"
    <2>1. StartRelay /\ whole' = (conn' = "joined" /\ Exact(Cardinality(seen)))
      BY <1>3 DEF EnsureRelay
    <2>2. /\ Inv' /\ log' = log /\ status' = status /\ sent' = 0
      <3>1. [Next]_vars
        BY <2>1 DEF Next
      <3> QED
        BY <1>1, <2>1, <3>1, NextInv DEF StartRelay, NoLocals, server
    <2>3. ASSUME whole' PROVE \E n \in 0..log : Exact(n)
      <3> DEFINE n == Cardinality(seen)
      <3>1. IsFiniteSet(seen)
        <4>1. 1 \in Int /\ log \in Int /\ seen \in SUBSET (1..log)
          BY <1>1 DEF SeenIsReal
        <4>2. IsFiniteSet(1..log)
          BY <4>1, FS_Interval
        <4> QED
          BY <4>1, <4>2, FS_Subset
      <3>2. n \in Nat
        BY <3>1, FS_CardinalityType
      <3>3. Exact(n)
        BY <2>1, <2>3
      <3>4. seen = 1..n
        BY <3>3 DEF Exact
      <3> HIDE DEF n
      <3>5. n <= log
        <4>1. CASE n = 0
          BY <1>1, <4>1
        <4>2. CASE n # 0
          BY <1>1, <3>2, <3>4, <4>2 DEF SeenIsReal
        <4> QED
          BY <4>1, <4>2
      <3> QED
        BY <1>1, <3>2, <3>3, <3>5
    <2>4. ExactWhileJoined'
      BY <1>1, <1>2, <2>1, <2>2, <2>3 DEF ExactWhileJoined, Joined
    <2> QED
      BY <1>1, <2>1, <2>2, <2>4 DEF SeenIsReal, store
  <1>4. CASE pc # "none"
    <2>1. UNCHANGED <<vars, whole>>
      BY <1>4 DEF EnsureRelay
    <2>2. UNCHANGED <<log, status, sent>> /\ Inv'
      BY <1>1, <2>1, NextInv DEF vars, server, locals
    <2>3. \A n \in sent..log : n \in Nat
      BY <1>1 DEF Inv, TypeOK
    <2>4. ExactWhileJoined'
      BY <1>1, <1>2, <2>1, <2>2, <2>3 DEF ExactWhileJoined, Joined
    <2> QED
      BY <1>1, <2>1, <2>2, <2>4 DEF SeenIsReal, store
  <1> QED
    BY <1>3, <1>4

(* A step that leaves the store's events alone and does not make the       *)
(* history whole.                                                          *)
LEMMA StoreAlone ==
  ASSUME PageInv, Inv', UNCHANGED <<seen, view>>, log <= log', sent' <= sent \/ ~whole',
         whole' = FALSE \/ (whole' = whole /\ conn' = conn),
         conn' \in {"away", "offline", "joined"}, banner' \in BOOLEAN,
         shown' \in Live \cup {NoStatus}, approving' \in BOOLEAN
  PROVE  PageInv'
  <1>1. /\ Inv /\ PageTypeOK /\ ExactWhileJoined /\ SeenIsReal
        /\ log \in Nat /\ log' \in Nat /\ sent \in Nat /\ sent' \in Nat
    BY DEF PageInv, PageHolds, Inv, TypeOK
  <1>2. PageTypeOK'
    BY <1>1 DEF PageTypeOK, Inv
  <1>3. SeenIsReal'
    BY <1>1 DEF SeenIsReal
  <1>4. ExactWhileJoined'
    <2> SUFFICES ASSUME whole' PROVE Joined' /\ \E n \in sent'..log' : Exact(n)'
      BY DEF ExactWhileJoined
    <2>1. whole /\ conn' = conn /\ sent' <= sent
      OBVIOUS
    <2>2. PICK n \in sent..log : Exact(n)
      BY <1>1, <2>1 DEF ExactWhileJoined
    <2>3. n \in sent'..log' /\ Exact(n)'
      BY <1>1, <2>1, <2>2 DEF Exact
    <2>4. Joined'
      BY <1>1, <2>1 DEF ExactWhileJoined, Joined
    <2> QED
      BY <2>3, <2>4
  <1> QED
    BY <1>1, <1>2, <1>3, <1>4 DEF PageInv, PageHolds

(* An event reaches the room: it is in the store already, or it is the     *)
(* first one that is not.                                                  *)
LEMMA RoomEventKeeps ==
  ASSUME PageInv, RoomEvent
  PROVE  PageInv'
  <1>1. Inv /\ PageTypeOK /\ ExactWhileJoined /\ SeenIsReal
    BY DEF PageInv, PageHolds
  <1>2. Inv'
    <2>1. [Next]_vars
      BY DEF RoomEvent, Next, RelayStep
    <2> QED
      BY <1>1, <2>1, NextInv
  <1>3. /\ sent' = (IF cur > sent THEN cur ELSE sent)
        /\ UNCHANGED <<log, conn, shown, approving, whole>>
    BY DEF RoomEvent, EmitEvent, server
  <1>4. /\ log \in Nat /\ sent \in Nat /\ cur \in 1..log /\ cur <= sent + 1
        /\ cur \in Nat /\ Window \in Nat \ {0}
    BY <1>1, WindowIsNat DEF RoomEvent, EmitEvent, Inv, TypeOK, BatchIsInLog, NoGap
  <1>5. CASE ~Joined
    <2>1. UNCHANGED store
      BY <1>5 DEF RoomEvent
    <2>2. ~whole
      BY <1>1, <1>5 DEF ExactWhileJoined
    <2>3. PageTypeOK' /\ SeenIsReal' /\ ExactWhileJoined'
      BY <1>1, <1>2, <1>3, <2>1, <2>2
      DEF PageTypeOK, SeenIsReal, ExactWhileJoined, store, Inv
    <2> QED
      BY <1>2, <2>3 DEF PageInv, PageHolds
  <1>6. CASE Joined
    <2>1. /\ seen' = seen \cup {cur}
          /\ view' = (IF cur \in seen THEN view ELSE LastOf(Append(view, cur)))
          /\ banner' \in BOOLEAN
      BY <1>6 DEF RoomEvent, HandleEvent, AppendStreamEvent
    <2>2. view' \in Seq(seen') /\ Len(view') <= Window
      <3>1. view \in Seq(seen') /\ cur \in seen' /\ Len(view) <= Window
        BY <1>1, <2>1, SeqMonotonic DEF PageTypeOK
      <3>2. Append(view, cur) \in Seq(seen') /\ Len(Append(view, cur)) \in Nat
        BY <3>1, AppendProperties, LenProperties
      <3>3. /\ LastOf(Append(view, cur)) \in Seq(seen')
            /\ Len(LastOf(Append(view, cur))) =
                 (IF Len(Append(view, cur)) > Window THEN Window ELSE Len(Append(view, cur)))
        BY <3>2, LastOfElements
      <3>4. Len(LastOf(Append(view, cur))) <= Window
        BY <1>4, <3>2, <3>3
      <3> QED
        BY <2>1, <3>1, <3>3, <3>4
    <2>3. PageTypeOK'
      BY <1>1, <1>2, <1>3, <1>4, <2>1, <2>2 DEF PageTypeOK, Inv
    <2>4. SeenIsReal'
      BY <1>1, <1>3, <1>4, <2>1 DEF SeenIsReal
    <2>5. ExactWhileJoined'
      <3> SUFFICES ASSUME whole PROVE \E n \in sent'..log : Exact(n)'
        BY <1>3, <1>6 DEF ExactWhileJoined, Joined
      <3>1. PICK n \in sent..log : Exact(n)
        BY <1>1 DEF ExactWhileJoined
      <3>2. n \in Nat /\ seen = 1..n /\ view = LastOf(FirstEvents(n))
        BY <1>4, <3>1 DEF Exact, FirstEvents
      <3>3. CASE cur \in seen
        <4>1. seen' = seen /\ view' = view /\ n \in sent'..log
          BY <1>3, <1>4, <2>1, <3>1, <3>2, <3>3
        <4>2. Exact(n)'
          BY <3>1, <4>1 DEF Exact
        <4> QED
          BY <4>1, <4>2
      <3>4. CASE cur \notin seen
        <4>1. cur = n + 1 /\ n + 1 \in sent'..log
          BY <1>3, <1>4, <3>1, <3>2, <3>4
        <4>2. seen' = 1..n + 1
          BY <2>1, <3>2, <4>1
        <4>3. view' = LastOf(FirstEvents(n + 1))
          BY <2>1, <3>2, <3>4, <4>1, WindowMoves
        <4>4. Exact(n + 1)'
          BY <4>2, <4>3 DEF Exact, FirstEvents
        <4> QED
          BY <4>1, <4>4
      <3> QED
        BY <3>3, <3>4
    <2> QED
      BY <1>2, <2>3, <2>4, <2>5 DEF PageInv, PageHolds
  <1> QED
    BY <1>5, <1>6

\* Every step of the relay with the page keeps the invariant.
LEMMA NextPageInv == PageInv /\ [PageNext]_allvars => PageInv'
  <1> SUFFICES ASSUME PageInv, [PageNext]_allvars PROVE PageInv'
    OBVIOUS
  <1>1. /\ Inv /\ PageTypeOK /\ log \in Nat /\ sent \in Nat
        /\ conn \in {"away", "offline", "joined"} /\ banner \in BOOLEAN
        /\ shown \in Live \cup {NoStatus} /\ approving \in BOOLEAN
    BY DEF PageInv, PageHolds, PageTypeOK, Inv, TypeOK
  <1>2. CASE RoomEvent
    BY <1>2, RoomEventKeeps
  <1>3. CASE RoomStatus
    <2>1. [Next]_vars /\ UNCHANGED <<log, sent>>
      BY <1>3 DEF RoomStatus, ReportStatus, Next, RelayStep, server
    <2>2. Inv'
      BY <1>1, <2>1, NextInv
    <2> QED
      BY <1>1, <1>3, <2>1, <2>2, StoreAlone DEF RoomStatus
  <1>4. CASE RelaySilent
    <2>1. [Next]_vars
      BY <1>4 DEF RelaySilent, Next, RelayStep
    <2>2. Inv'
      BY <1>1, <2>1, NextInv
    <2>3. log' = log /\ (sent' = sent \/ sent' = 0)
      BY <1>4 DEF RelaySilent, FetchWorkspace, ReadStatus, StatusMissing, FetchPage,
           FetchPageFailed, EndBatch, Crash, Stop, NoLocals, server, locals
    <2> QED
      BY <1>1, <1>4, <2>2, <2>3, StoreAlone DEF RelaySilent, pagevars, store
  <1>5. CASE ServerStep
    <2>1. [Next]_vars /\ log <= log' /\ sent' = sent
      BY <1>1, <1>5 DEF ServerStep, AppendEvent, ChangeStatus, Next, locals
    <2>2. Inv'
      BY <1>1, <2>1, NextInv
    <2> QED
      BY <1>1, <1>5, <2>1, <2>2, StoreAlone DEF ServerStep, pagevars, store
  <1>6. CASE BffGone
    <2>1. [Next]_vars /\ log' = log /\ sent' = 0
      BY <1>6 DEF BffGone, BffRestart, Stop, NoLocals, Next, server
    <2>2. Inv'
      BY <1>1, <2>1, NextInv
    <2>3. conn' \in {"away", "offline", "joined"} /\ whole' = FALSE
      BY <1>1, <1>6 DEF BffGone
    <2>4. UNCHANGED <<seen, view, banner, shown, approving>>
      BY <1>6 DEF BffGone, store
    <2>5. log <= log' /\ sent' <= sent
      BY <1>1, <2>1
    <2> QED
      BY <1>1, <2>2, <2>3, <2>4, <2>5, StoreAlone
  <1>7. CASE OpenPage
    <2>1. UNCHANGED vars /\ ~whole
      BY <1>7 DEF OpenPage, PageInv, PageHolds, ExactWhileJoined, Joined
    <2>2. Inv' /\ UNCHANGED <<log, sent>>
      BY <1>1, <2>1, NextInv DEF vars, server, locals
    <2>3. conn' = "offline" /\ ~whole' /\ UNCHANGED <<store, shown, approving>>
      BY <1>7, <2>1 DEF OpenPage
    <2>4. PageTypeOK' /\ SeenIsReal' /\ ExactWhileJoined'
      BY <1>1, <1>7, <2>2, <2>3 DEF OpenPage, PageInv, PageTypeOK, SeenIsReal, ExactWhileJoined,
         store, Inv
    <2> QED
      BY <2>2, <2>4 DEF PageInv, PageHolds
  <1>8. CASE ClosePage \/ Disconnect
    <2>1. UNCHANGED <<log, sent>> /\ Inv'
      <3>1. CASE ClosePage
        BY <1>1, <3>1, NextInv DEF ClosePage, vars, server, locals
      <3>2. CASE Disconnect
        <4>1. faults' \in Nat
          BY <1>1, <3>2, FaultCounts DEF Disconnect, Inv
        <4> QED
          BY <1>1, <3>2, <4>1 DEF Disconnect, server, locals, Inv, TypeOK, NoGap, BatchIsInLog
      <3> QED
        BY <1>8, <3>1, <3>2
    <2>2. log <= log' /\ sent' <= sent
      BY <1>1, <2>1
    <2>3. whole' = FALSE /\ conn' \in {"away", "offline", "joined"}
      BY <1>8 DEF ClosePage, Disconnect
    <2>4. UNCHANGED <<seen, view, banner, shown, approving>>
      BY <1>8 DEF ClosePage, Disconnect, store
    <2> QED
      BY <1>1, <2>1, <2>2, <2>3, <2>4, StoreAlone
  <1>9. CASE Connect \/ PollRun
    <2>1. /\ EnsureRelay /\ UNCHANGED <<store, approving>>
          /\ conn' \in {"away", "offline", "joined"} /\ (conn' = conn \/ conn' = "joined")
          /\ shown' = shown \/ (shown' = status /\ status # "deleted")
      BY <1>1, <1>9 DEF Connect, PollRun
    <2>2. /\ Inv' /\ SeenIsReal' /\ whole' \in BOOLEAN /\ ExactWhileJoined'
      BY <2>1, EnsureRelayKeeps
    <2>3. shown' \in Live \cup {NoStatus}
      BY <1>1, <2>1 DEF Inv, TypeOK
    <2>4. PageTypeOK'
      BY <1>1, <2>1, <2>2, <2>3 DEF PageTypeOK, Inv, store
    <2> QED
      BY <2>2, <2>4 DEF PageInv, PageHolds
  <1>10. CASE Approve
    <2>1. [Next]_vars /\ UNCHANGED <<log, sent>>
      BY <1>10 DEF Approve, Next, ChangeStatus, locals
    <2>2. Inv'
      BY <1>1, <2>1, NextInv
    <2>3. log <= log' /\ sent' <= sent
      BY <1>1, <2>1
    <2>4. approving' \in BOOLEAN /\ UNCHANGED <<conn, seen, view, banner, shown, whole>>
      BY <1>10 DEF Approve, store
    <2> QED
      BY <1>1, <2>2, <2>3, <2>4, StoreAlone
  <1>11. CASE Approved
    <2>1. UNCHANGED <<log, sent>> /\ Inv'
      BY <1>1, <1>11, NextInv DEF Approved, vars, server, locals
    <2>2. log <= log' /\ sent' <= sent
      BY <1>1, <2>1
    <2>3. /\ approving' \in BOOLEAN /\ banner' \in BOOLEAN
          /\ UNCHANGED <<conn, seen, view, shown, whole>>
      BY <1>11 DEF Approved
    <2> QED
      BY <1>1, <2>1, <2>2, <2>3, StoreAlone
  <1>12. CASE UNCHANGED allvars
    <2>1. UNCHANGED vars /\ UNCHANGED pagevars
      BY <1>12 DEF allvars
    <2>2. UNCHANGED <<log, sent>> /\ Inv'
      BY <1>1, <2>1, NextInv DEF vars, server, locals
    <2> QED
      BY <1>1, <2>1, <2>2, StoreAlone DEF pagevars, store
  <1> QED
    BY <1>2, <1>3, <1>4, <1>5, <1>6, <1>7, <1>8, <1>9, <1>10, <1>11, <1>12 DEF PageNext

(* streamEvents of a page that stays in the room are exactly the last      *)
(* events forwarded, in order and once each, although the relay emits the  *)
(* last page on every poll and the log again after a crash.                *)
THEOREM PageIsExact == PageSpec => []PageHolds
  <1>1. PageInv => PageHolds
    BY DEF PageInv
  <1> QED
    BY <1>1, InitPageInv, NextPageInv, PTL DEF PageSpec
============================================================================
