------------------------------ MODULE MCRecords ------------------------------
(***************************************************************************)
(* The components that keep records or compute answers from them, and the  *)
(* harnesses that write such records.  They share no state, so one run     *)
(* checks each by itself: part is chosen at the start, and all the other   *)
(* components stay in one initial state.                                   *)
(***************************************************************************)
EXTENDS RunReports, DashboardMetrics, BenchSessions, BenchPatches, BenchPairs, SelfEval,
        RunSetup, SidecarFile, BffState, RepoGraph, MemoryStore

VARIABLE part

Parts == {"reports", "dashboard", "sessions", "patches", "pairs", "selfeval", "setup",
          "sidecar", "threads", "registry", "graph", "memory"}

recordVars ==
  <<part, reportVars, dashVars, benchVars, text, tally, evalVars, setupVars, sidecarVars,
    threadVars, registryVars, graphVars, memoryVars>>

MCPeriods  == [short |-> 1]
MCPlaces   == {<<"m1", "w1">>, <<"m2", "w1">>}
MCTasks    == <<"t1", "t2">>
MCSayings  == {[has |-> {}, blank |-> {}],
               [has |-> {"summary", "thought"}, blank |-> {"summary"}]}
ToolResult(e, f, t, k) == [exit |-> e, flagged |-> f, error |-> t, terminal |-> k]
MCResults  == {ToolResult("0", FALSE, FALSE, TRUE), ToolResult("1", FALSE, FALSE, TRUE),
               ToolResult("1", FALSE, FALSE, FALSE),
               ToolResult("0", TRUE, FALSE, TRUE), ToolResult("null", FALSE, TRUE, FALSE),
               ToolResult("text", FALSE, FALSE, TRUE)}
MCWords    == [t \in Triples |-> IF t = "u" THEN "t" ELSE t]
MCSymmetry == Permutations(Contents)

N(k, n, d) == [kind |-> k, name |-> n, depth |-> d]
MCTrees ==
  [f \in {"p", "t"} |->
     IF f = "p"
     THEN {<<N("class", "a", 0), N("function", x, i), N("call", "b", j)>> :
             x \in {"a", "b"}, i \in 0..1, j \in 1..2}
            \cup {<<N("class", "a", 0), N("call", "b", 0), N("class", "a", 0),
                    N("function", "b", 1)>>}
     ELSE {<<>>, <<N("class", "a", 0), N("method", "b", 1)>>}]
MCDrafts == [f \in {"p", "t"} |-> IF f = "p" THEN {<<N("call", "b", 0)>>} ELSE {<<>>}]
MCDisk   == [r \in Repos |-> [f \in Files |-> CHOOSE t \in Trees[f] : TRUE]]

RecordsInit ==
  /\ part \in Parts
  /\ ReportInit /\ DashInit /\ BenchInit /\ PatchInit /\ PairInit /\ EvalInit
  /\ SetupInit /\ SidecarInit /\ ThreadsInit /\ RegistryInit /\ GraphInit /\ MemoryInit
  /\ part # "reports" => files = [p \in Paths |-> Missing]
  /\ part # "selfeval" => proposals = <<>>
  /\ part # "registry" => store = 0
  /\ server.enabled = (server.gen # 0) /\ server.gen = store
  /\ part # "graph" => checkout = MCDisk

\* All but part p stay as they are.
Only(p) ==
  /\ part = p /\ UNCHANGED part
  /\ p # "reports" => UNCHANGED reportVars
  /\ p # "dashboard" => UNCHANGED dashVars
  /\ p # "sessions" => UNCHANGED benchVars
  /\ p # "patches" => UNCHANGED text
  /\ p # "pairs" => UNCHANGED tally
  /\ p # "selfeval" => UNCHANGED evalVars
  /\ p # "setup" => UNCHANGED setupVars
  /\ p # "sidecar" => UNCHANGED sidecarVars
  /\ p # "threads" => UNCHANGED threadVars
  /\ p # "registry" => UNCHANGED registryVars
  /\ p # "graph" => UNCHANGED graphVars
  /\ p # "memory" => UNCHANGED memoryVars

ReportStep    == Only("reports") /\ ReportNext
DashboardStep == Only("dashboard") /\ DashNext
SessionStep   == Only("sessions") /\ BenchNext
PatchStep     == Only("patches") /\ PatchGrows
PairStep      == Only("pairs") /\ PairNext
EvalStep      == Only("selfeval") /\ EvalNext
SetupStep     == Only("setup") /\ SetupNext
SidecarStep   == Only("sidecar") /\ SidecarNext
ThreadStep    == Only("threads") /\ ThreadsNext
RegistryStep  == Only("registry") /\ RegistryNext
GraphStep     == Only("graph") /\ GraphNext
MemoryStep    == Only("memory") /\ MemoryNext

RecordsNext ==
  \/ ReportStep \/ DashboardStep \/ SessionStep \/ PatchStep \/ PairStep \/ EvalStep
  \/ SetupStep \/ SidecarStep \/ ThreadStep \/ RegistryStep \/ GraphStep \/ MemoryStep

RecordsSpec == RecordsInit /\ [][RecordsNext]_recordVars

-----------------------------------------------------------------------------
(***************************************************************************)
(* The properties of the components, each where its component moves.       *)
(***************************************************************************)

\* The types of the parts.
RecordsTypeOK ==
  CASE part = "reports"   -> ReportTypeOK
    [] part = "dashboard" -> DashTypeOK
    [] part = "sessions"  -> BenchTypeOK
    [] part = "patches"   -> PatchTypeOK
    [] part = "pairs"     -> PairTypeOK
    [] part = "selfeval"  -> EvalTypeOK
    [] part = "setup"     -> SetupTypeOK
    [] part = "sidecar"   -> SidecarTypeOK
    [] part = "threads"   -> ThreadsTypeOK
    [] part = "registry"  -> RegistryTypeOK
    [] part = "graph"     -> GraphTypeOK
    [] part = "memory"    -> MemoryTypeOK

\* What is computed from the records: the diff page shows the files as the agent has left them,
\* the pages that read the same calls agree on them, and every row can be read; the tables of
\* the dashboard agree; the patch that is scored has all the model's edits; the tables of pairs
\* and the budget of tokens are right.
ReportsHold ==
  /\ part = "reports" => DiffShowsWorkspace /\ ReportsAgree /\ RowsAreLegible
  /\ part = "dashboard" => DashboardsAgree
  /\ part = "patches" => NormalizingIsSafe
  /\ part = "pairs" => BenchNumbersHold
=============================================================================
