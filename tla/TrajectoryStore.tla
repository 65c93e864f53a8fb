-------------------------- MODULE TrajectoryStore --------------------------
(***************************************************************************)
(* The trajectory database and its two kinds of writers.  Each STOP of a   *)
(* run starts a hook process, which replaces the run's record with the     *)
(* latest observation, in three transactions.  Indexing passes, of the     *)
(* drain scheduler and of POST /trajectories/drain, list the records that  *)
(* have no embedding, embed them as a batch and write the vectors back,    *)
(* one transaction each.                                                   *)
(*                                                                         *)
(* A record's content is the number of the STOP it describes, and its      *)
(* embedding the number of the STOP whose text was embedded.               *)
(***************************************************************************)
EXTENDS Naturals, Sequences, FiniteSets

CONSTANTS
  Runs,
  Passes,       \* indexing passes that can be under way at once
  BatchSize,    \* batch_size of a pass (32 in the code)
  MaxStops,     \* bound: STOPs of one run
  MaxFaults     \* bound: killed hooks, failed embedder calls, abandoned passes

ASSUME RunsFinite == IsFiniteSet(Runs)
ASSUME BatchPositive == BatchSize \in Nat \ {0}
ASSUME StoreBounds == {MaxStops, MaxFaults} \subseteq Nat

VARIABLES
  row,          \* the table: [content, embedding, at] per run, or NoRow
  clock,        \* created_at stamps given out
  stops,        \* per run: STOPs so far
  hook,         \* per run: where its hook process is
  pass,         \* per pass: where it is
  batch,        \* per pass: the records it has listed and not written back
  faults,       \* faults so far
  raced,        \* history: runs replaced while a pass held their old text
  killed        \* history: runs whose last hook was killed

storeVars == <<row, clock, stops, hook, pass, batch, faults, raced, killed>>

None  == 0      \* embedding IS NULL
Row   == [content : Nat \ {0}, embedding : Nat, at : Nat]
NoRow == [content |-> 0, embedding |-> None, at |-> 0]
Item  == [run : Runs, content : Nat \ {0}]

Stored == {r \in Runs : row[r] # NoRow}

StoreInit ==
  /\ row = [r \in Runs |-> NoRow]
  /\ clock = 0
  /\ stops = [r \in Runs |-> 0]
  /\ hook = [r \in Runs |-> "idle"]
  /\ pass = [p \in Passes |-> "idle"]
  /\ batch = [p \in Passes |-> <<>>]
  /\ faults = 0
  /\ raced = {}
  /\ killed = {}

Fault == faults < MaxFaults /\ faults' = faults + 1

Held(r) == {p \in Passes : \E i \in 1..Len(batch[p]) : batch[p][i].run = r}

----------------------------------------------------------------------------
(* The trajectory hook: TrajectoryWriter.write_from_run.                   *)

HookStarts(r) ==
  /\ hook[r] = "idle"
  /\ stops[r] < MaxStops
  /\ stops' = [stops EXCEPT ![r] = @ + 1]
  /\ hook' = [hook EXCEPT ![r] = "get"]
  /\ UNCHANGED <<row, clock, pass, batch, faults, raced, killed>>

HookGets(r) ==
  /\ hook[r] = "get"
  /\ hook' = [hook EXCEPT ![r] = IF r \in Stored THEN "delete" ELSE "insert"]
  /\ UNCHANGED <<row, clock, stops, pass, batch, faults, raced, killed>>

HookDeletes(r) ==
  /\ hook[r] = "delete"
  /\ row' = [row EXCEPT ![r] = NoRow]
  /\ hook' = [hook EXCEPT ![r] = "insert"]
  /\ UNCHANGED <<clock, stops, pass, batch, faults, raced, killed>>

HookInserts(r) ==
  /\ hook[r] = "insert"
  /\ clock' = clock + 1
  /\ row' = [row EXCEPT ![r] =
       [content |-> stops[r], embedding |-> None, at |-> clock + 1]]
  /\ raced' = IF Held(r) # {} THEN raced \cup {r} ELSE raced \ {r}
  /\ hook' = [hook EXCEPT ![r] = "idle"]
  /\ killed' = killed \ {r}
  /\ UNCHANGED <<stops, pass, batch, faults>>

\* The SDK's timeout, or the agent-server dies.
HookKilled(r) ==
  /\ hook[r] # "idle"
  /\ Fault
  /\ hook' = [hook EXCEPT ![r] = "idle"]
  /\ killed' = killed \cup {r}
  /\ UNCHANGED <<row, clock, stops, pass, batch, raced>>

----------------------------------------------------------------------------
(* An indexing pass: TrajectoryIndexer.index_pending in a thread.          *)

Pending == {r \in Stored : row[r].embedding = None}

Smaller(m, n) == IF m < n THEN m ELSE n

\* The pending records newest first, up to the limit.
IsListing(q) ==
  /\ Len(q) = Smaller(Cardinality(Pending), BatchSize)
  /\ \A i \in 1..Len(q) :
       /\ q[i] \in Pending
       /\ \A r \in Pending :
            row[r].at > row[q[i]].at <=> \E j \in 1..(i - 1) : q[j] = r

\* drain_once starts a pass, or a pass goes on to its next batch.
List(p) ==
  /\ pass[p] \in {"idle", "next"}
  /\ Pending # {}
  /\ \E n \in 1..BatchSize, q \in UNION {[1..m -> Runs] : m \in 1..BatchSize} :
       /\ Len(q) = n
       /\ IsListing(q)
       /\ batch' = [batch EXCEPT ![p] =
            [i \in 1..n |-> [run |-> q[i], content |-> row[q[i]].content]]]
  /\ pass' = [pass EXCEPT ![p] = "embed"]
  /\ UNCHANGED <<row, clock, stops, hook, faults, raced, killed>>

ListEmpty(p) ==
  /\ pass[p] = "next"
  /\ Pending = {}
  /\ pass' = [pass EXCEPT ![p] = "idle"]
  /\ UNCHANGED <<row, clock, stops, hook, batch, faults, raced, killed>>

Embed(p) ==
  /\ pass[p] = "embed"
  /\ pass' = [pass EXCEPT ![p] = "update"]
  /\ UNCHANGED <<row, clock, stops, hook, batch, faults, raced, killed>>

\* Mutated: an exception ends the scheduler, not the pass.
EndForGood(p) ==
  /\ pass' = [pass EXCEPT ![p] = "stopped"]
  /\ batch' = [batch EXCEPT ![p] = <<>>]

\* drain_once swallows whatever the pass raised.
End(p) ==
  /\ pass' = [pass EXCEPT ![p] = "idle"]
  /\ batch' = [batch EXCEPT ![p] = <<>>]

EmbedFails(p) ==
  /\ pass[p] = "embed"
  /\ Fault
  /\ End(p)
  /\ UNCHANGED <<row, clock, stops, hook, raced, killed>>

\* Mutated: the vectors are zipped with the wrong records.
UpdateShifted(p) ==
  /\ pass[p] = "update"
  /\ batch[p] # <<>>
  /\ LET it == Head(batch[p])
         r == batch[p][Len(batch[p])].run
     IN  /\ r \in Stored
         /\ row' = [row EXCEPT ![r].embedding = it.content]
         /\ batch' = [batch EXCEPT ![p] = Tail(@)]
         /\ pass' = [pass EXCEPT ![p] = IF Len(batch[p]) = 1 THEN "next" ELSE @]
  /\ UNCHANGED <<clock, stops, hook, faults, raced, killed>>

\* Mutated: the listed record is written back as a whole.
UpdateWhole(p) ==
  /\ pass[p] = "update"
  /\ LET it == Head(batch[p]) IN
       /\ it.run \in Stored
       /\ row' = [row EXCEPT ![it.run].embedding = it.content,
                             ![it.run].content = it.content]
       /\ batch' = [batch EXCEPT ![p] = Tail(@)]
       /\ pass' = [pass EXCEPT ![p] = IF Len(batch[p]) = 1 THEN "next" ELSE @]
  /\ UNCHANGED <<clock, stops, hook, faults, raced, killed>>

\* update_embedding, by trajectory id alone.
Update(p) ==
  /\ pass[p] = "update"
  /\ LET it == Head(batch[p]) IN
       /\ it.run \in Stored
       /\ row' = [row EXCEPT ![it.run].embedding = it.content]
       /\ batch' = [batch EXCEPT ![p] = Tail(@)]
       /\ pass' = [pass EXCEPT ![p] = IF Len(batch[p]) = 1 THEN "next" ELSE @]
  /\ UNCHANGED <<clock, stops, hook, faults, raced, killed>>

\* KeyError: the record is being replaced; the rest of the batch is dropped.
UpdateMissing(p) ==
  /\ pass[p] = "update"
  /\ Head(batch[p]).run \notin Stored
  /\ End(p)
  /\ UNCHANGED <<row, clock, stops, hook, faults, raced, killed>>

\* The BFF dies in the middle of a pass; it will be started again.
PassAbandoned(p) ==
  /\ pass[p] # "idle"
  /\ Fault
  /\ End(p)
  /\ UNCHANGED <<row, clock, stops, hook, raced, killed>>

----------------------------------------------------------------------------
HookStep(r) == HookGets(r) \/ HookDeletes(r) \/ HookInserts(r)

PassGoesOn(p) == ListEmpty(p) \/ Embed(p) \/ Update(p) \/ UpdateMissing(p)

StoreNext ==
  \/ \E r \in Runs : HookStarts(r) \/ HookStep(r) \/ HookKilled(r)
  \/ \E p \in Passes : List(p) \/ PassGoesOn(p) \/ EmbedFails(p) \/ PassAbandoned(p)

StoreSpec == StoreInit /\ [][StoreNext]_storeVars

\* Processes run, and the scheduler's loop starts a pass every minute.
StoreFairSpec ==
  /\ StoreSpec
  /\ \A r \in Runs : WF_storeVars(HookStep(r))
  /\ \A p \in Passes : WF_storeVars(PassGoesOn(p))
  /\ WF_storeVars(\E p \in Passes : List(p))

----------------------------------------------------------------------------
StoreTypeOK ==
  /\ row \in [Runs -> Row \cup {NoRow}]
  /\ clock \in Nat
  /\ stops \in [Runs -> Nat]
  /\ hook \in [Runs -> {"idle", "get", "delete", "insert"}]
  /\ pass \in [Passes -> {"idle", "embed", "update", "next"}]
  /\ batch \in [Passes -> Seq(Item)]
  /\ faults \in Nat
  /\ raced \subseteq Runs /\ killed \subseteq Runs

(* Re-fired STOP hooks converge on the latest observation: a run whose     *)
(* last hook was not killed has a record, of its last STOP, whatever       *)
(* passes list and write back meanwhile.                                   *)
ConvergesToLatest ==
  \A r \in Runs :
    hook[r] = "idle" /\ stops[r] > 0 /\ r \notin killed
      => r \in Stored /\ row[r].content = stops[r]

(* A record's embedding was computed from a text of that run, and from the *)
(* record's own text unless the run was stopped again while a pass held it.*)
EmbeddingOfOwnText ==
  \A r \in Stored :
    row[r].embedding # None /\ r \notin raced
      => row[r].embedding = row[r].content

(* The store as a whole: what it holds of a run is of its last stop, and of*)
(* its own text.                                                           *)
StoreHolds == StoreTypeOK /\ EmbeddingOfOwnText /\ ConvergesToLatest

(* Every record is embedded in the end, although a pass is dropped by an   *)
(* exception of the embedder or by a record that vanished under it, and    *)
(* whatever other passes do.                                               *)
EventuallyEmbedded ==
  \A r \in Runs :
    r \in Stored ~> \/ row[r].embedding # None
                    \/ r \notin Stored
============================================================================
