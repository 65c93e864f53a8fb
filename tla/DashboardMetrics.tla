--------------------------- MODULE DashboardMetrics ---------------------------
(***************************************************************************)
(* The metrics dashboard: bff/services/metrics_aggregation.py behind       *)
(* bff/routers/metrics.py.  Each endpoint pages through the conversations  *)
(* of the agent-server, with the agents at work between two pages, and     *)
(* then aggregates what it got without giving way: the summary with its    *)
(* deltas, the daily series, and the breakdowns by model and by workspace. *)
(*                                                                         *)
(* Time is counted in ticks, DayLen of them to a UTC day.  Money is an     *)
(* integer and a rate is a pair, so nothing is rounded.                    *)
(***************************************************************************)
EXTENDS Naturals, Sequences, FiniteSets, SequencesExt

CONSTANTS
  MaxConvs,     \* bound: conversations that are ever created, numbered in order
  DashPlaces,   \* what a conversation can run with and in: <<model, workspace>>
  DayLen,       \* ticks of a day
  PeriodDays,   \* days of each bounded period, a function from period names
  ChartDays,    \* days of the series for "all": 30
  PageLimit,    \* conversations of a page: 100
  FetchCap,     \* conversations that are fetched at most: 2000
  LastTick      \* bound: the clock stops here

ASSUME DashConstants == MaxConvs \in Nat /\ PageLimit \in Nat \ {0} /\ FetchCap \in Nat

\* As in the routes: a period has a number of days, and "all" is none of them.
ASSUME DashTimes ==
  /\ DayLen \in Nat \ {0} /\ ChartDays \in Nat /\ "all" \notin DOMAIN PeriodDays
  /\ \A period \in DOMAIN PeriodDays : PeriodDays[period] \in Nat

VARIABLES
  stored,   \* the conversations of the agent-server: number |-> its record
  now,      \* the clock
  fetch     \* the fetch of one endpoint: where it is and what it has

dashVars == <<stored, now, fetch>>

Periods  == DOMAIN PeriodDays \cup {"all"}
Absent   == [status |-> "absent"]
Live     == {c \in 1..MaxConvs : stored[c].status # "absent"}
NoFetch  == [pc |-> "idle", cursor |-> 0, pages |-> 0, out |-> <<>>, at |-> 0, failed |-> FALSE,
             seen |-> {}]

DashInit ==
  /\ stored = [c \in 1..MaxConvs |-> Absent] /\ now = 0 /\ fetch = NoFetch

----------------------------------------------------------------------------
(* The agent-server and the clock.  Nothing of it happens between the last *)
(* page and the answer: the aggregation does not give way.                 *)

Awaiting == fetch.pc # "done"

Tick == Awaiting /\ now < LastTick /\ now' = now + 1 /\ UNCHANGED <<stored, fetch>>

\* Numbers are never used again: the next one is above all that were.
ConvCreated ==
  \E c \in 1..MaxConvs, place \in DashPlaces :
    /\ Awaiting /\ stored[c] = Absent /\ \A d \in c..MaxConvs : stored[d] = Absent
    /\ c > 1 => stored[c - 1] # Absent
    /\ stored' = [stored EXCEPT ![c] =
                    [status |-> "running", cost |-> 1, model |-> place[1], space |-> place[2],
                     n |-> c, created |-> now, updated |-> now]]
    /\ UNCHANGED <<now, fetch>>

ConvEnds ==
  \E c \in Live, status \in {"finished", "error"} :
    /\ Awaiting /\ stored[c].status = "running"
    /\ stored' = [stored EXCEPT ![c].status = status, ![c].cost = 2, ![c].updated = now]
    /\ UNCHANGED <<now, fetch>>

ConvDeleted ==
  \E c \in Live :
    /\ Awaiting /\ stored[c].status \notin {"running", "deleted"}
    /\ stored' = [stored EXCEPT ![c].status = "deleted"] /\ UNCHANGED <<now, fetch>>

Listed == {c \in Live : stored[c].status # "deleted"}

----------------------------------------------------------------------------
(* _fetch_all_conversations.                                               *)

DashRequested ==
  /\ fetch.pc = "idle"
  /\ fetch' = [NoFetch EXCEPT !.pc = "page", !.cursor = MaxConvs, !.seen = Listed]
  /\ UNCHANGED <<stored, now>>

\* Mutated: the next page begins with the last one of this.
PageOfOverlaps(cursor) ==
  LET from  == {c \in Listed : c <= cursor}
      items == {c \in from : Cardinality({d \in from : d > c}) < PageLimit}
  IN  [items |-> items, next |-> IF items = from THEN 0 ELSE Min(items)]

\* The newest of those that are listed up to cursor, and the newest that does
\* not fit.  The order within a page is left out.
PageOf(cursor) ==
  LET from  == {c \in Listed : c <= cursor}
      items == {c \in from : Cardinality({d \in from : d > c}) < PageLimit}
  IN  [items |-> items, next |-> IF items = from THEN 0 ELSE Max(from \ items)]

RowsOf(items) == LET order == SetToSeq(items) IN [i \in DOMAIN order |-> stored[order[i]]]
Capped(out) == IF Len(out) > FetchCap THEN SubSeq(out, 1, FetchCap) ELSE out

PageRead ==
  /\ fetch.pc = "page"
  /\ LET page == PageOf(fetch.cursor)
         out  == fetch.out \o RowsOf(page.items)
         over == page.next = 0 \/ Len(out) >= FetchCap
                 \/ fetch.pages = FetchCap \div PageLimit
     IN  fetch' = IF over THEN [fetch EXCEPT !.pc = "done", !.out = Capped(out), !.at = now]
                  ELSE [fetch EXCEPT !.cursor = page.next, !.out = out, !.pages = @ + 1]
  /\ UNCHANGED <<stored, now>>

\* An error, or an answer other than 200, ends the fetch with what there is,
\* uncut, and nobody is told.
PageFails ==
  /\ fetch.pc = "page"
  /\ fetch' = [fetch EXCEPT !.pc = "done", !.failed = TRUE, !.at = now]
  /\ UNCHANGED <<stored, now>>

DashServed == fetch.pc = "done" /\ fetch' = NoFetch /\ UNCHANGED <<stored, now>>

DashNext == Tick \/ ConvCreated \/ ConvEnds \/ ConvDeleted
            \/ DashRequested \/ PageRead \/ PageFails \/ DashServed
DashSpec == DashInit /\ [][DashNext]_dashVars

----------------------------------------------------------------------------
(* The aggregates, of rows at a time t.  Rows are told by their places in  *)
(* the fetch, and what is added up is counted: a sum of f has f[x] units   *)
(* of every x.                                                             *)

SumOf(f) == Cardinality(UNION {{x} \X (1..f[x]) : x \in DOMAIN f})

CostOf(rows, I)         == SumOf([i \in I |-> rows[i].cost])
Having(rows, I, status) == {i \in I : rows[i].status = status}
DayOf(t)                == t \div DayLen

\* _within_period.
WithinPeriod(r, period, t) ==
  period = "all" \/ r.created + PeriodDays[period] * DayLen >= t

Filtered(rows, period, t) == {i \in DOMAIN rows : WithinPeriod(rows[i], period, t)}

\* _prior_window: the window of the same length that ends where this begins.
PriorRows(rows, period, t) ==
  LET span == PeriodDays[period] * DayLen
  IN  {i \in DOMAIN rows : rows[i].created + 2 * span >= t /\ rows[i].created + span < t}

\* Duration is the time from creation to the last update; nothing that took no
\* time is measured.
Duration(r) == IF r.updated < r.created THEN 0 ELSE r.updated - r.created
Durations(rows, I) ==
  [i \in {j \in I : Duration(rows[j]) > 0} |-> Duration(rows[i])]

\* The value of d that k of them come before when they are sorted.
Ranked(d, k) ==
  CHOOSE v \in {d[i] : i \in DOMAIN d} :
    /\ Cardinality({i \in DOMAIN d : d[i] < v}) <= k
    /\ Cardinality({i \in DOMAIN d : d[i] <= v}) > k

\* _percentile, a hundred times: linear between the closest ranks.
Percentile(d, q) ==
  IF DOMAIN d = {} THEN 0
  ELSE LET last == Cardinality(DOMAIN d) - 1
           lo   == (q * last) \div 100
           hi   == IF lo < last THEN lo + 1 ELSE last
           part == (q * last) % 100
       IN  Ranked(d, lo) * (100 - part) + Ranked(d, hi) * part

SummaryOf(rows, period, t) ==
  LET in == Filtered(rows, period, t)
  IN  [runs     |-> Cardinality(in), cost |-> CostOf(rows, in),
       finished |-> Cardinality(Having(rows, in, "finished")),
       errored  |-> Cardinality(Having(rows, in, "error")),
       p50      |-> Percentile(Durations(rows, in), 50),
       p95      |-> Percentile(Durations(rows, in), 95),
       prior    |-> IF period = "all" THEN 0 ELSE Cardinality(PriorRows(rows, period, t))]

\* daily: today and the days before it, as many as the period has.
SpanOf(period) == IF period = "all" THEN ChartDays ELSE PeriodDays[period]
Daily(rows, period, t) ==
  [back \in 0..(SpanOf(period) - 1) |->
     LET ofDay == {i \in Filtered(rows, period, t) : DayOf(rows[i].created) + back = DayOf(t)}
     IN  [runs |-> Cardinality(ofDay), cost |-> CostOf(rows, ofDay),
          finished |-> Cardinality(Having(rows, ofDay, "finished"))]]

\* models and workspaces: the rows of the period by a field of theirs.
Breakdown(rows, field) ==
  [k \in {field[i] : i \in DOMAIN field} |->
     LET ofKey == {i \in DOMAIN field : field[i] = k}
     IN  [runs |-> Cardinality(ofKey), cost |-> CostOf(rows, ofKey)]]
ByModel(rows, period, t) ==
  Breakdown(rows, [i \in Filtered(rows, period, t) |-> rows[i].model])
BySpace(rows, period, t) ==
  Breakdown(rows, [i \in Filtered(rows, period, t) |-> rows[i].space])

----------------------------------------------------------------------------

DashTypeOK ==
  /\ now \in Nat /\ fetch.pc \in {"idle", "page", "done"} /\ fetch.pages <= FetchCap \div PageLimit
  /\ \A c \in Live : stored[c].status \in {"running", "finished", "error", "deleted"}

RunsIn(table) == SumOf([k \in DOMAIN table |-> table[k].runs])
CostIn(table) == SumOf([k \in DOMAIN table |-> table[k].cost])

\* The four endpoints tell one story of the same rows: the breakdowns by model
\* and by workspace both add up to the summary, the daily series falls short of
\* it by exactly the runs of the tail day that the period still reaches (or that
\* are before the chart of "all"), no run is both of this window
\* and of the one it is compared with, and p50 <= p95 <= the longest.
DashboardsAgree ==
  fetch.pc = "done" => \A period \in Periods :
    LET rows == fetch.out
        t    == fetch.at
        sum  == SummaryOf(rows, period, t)
        in   == Filtered(rows, period, t)
        days == Daily(rows, period, t)
        offChart == {i \in in : DayOf(rows[i].created) + SpanOf(period) <= DayOf(t)}
    IN  /\ \A b \in {ByModel(rows, period, t), BySpace(rows, period, t)} :
             RunsIn(b) = sum.runs /\ CostIn(b) = sum.cost
        /\ RunsIn(days) + Cardinality(offChart) = sum.runs
        /\ period # "all" =>
             sum.runs + sum.prior
               = Cardinality({i \in DOMAIN rows :
                                rows[i].created + 2 * PeriodDays[period] * DayLen >= t})
        /\ sum.p50 <= sum.p95
        /\ \A i \in in : \E j \in in : sum.p95 <= 100 * Duration(rows[j])

\* No run is counted twice, and a fetch that neither failed nor met the cap has
\* every run that was there from its first page to its last, whatever was
\* created, ended or deleted meanwhile.
EveryStandingRunCounted ==
  fetch.pc = "done" =>
    /\ \A i, j \in DOMAIN fetch.out : fetch.out[i].n = fetch.out[j].n => i = j
    /\ fetch.failed \/ Len(fetch.out) = FetchCap
       \/ \A c \in fetch.seen \cap Listed : \E i \in DOMAIN fetch.out : fetch.out[i].n = c
=============================================================================
