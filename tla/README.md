# Forge-OH: a verification project

Forge-OH is a local front end for coding agents: a browser application, a FastAPI
back end for it (the BFF), a set of tools and hooks that run inside the
OpenHands agent-server, and two vLLM containers that share one graphics card.
This directory holds TLA+ models of the parts of it that have a protocol, the TLC
runs that check them, and proofs for TLAPS. `PROJECT.json` lists the runs, the
source lines of every definition (`map`), one plausible bug per property
(`mutants`), the hazards, the theorems and the disagreements found.

    tlc -workers 2 -config MCEventRelay.cfg MCEventRelay     # one run
    tlapm EventRelay_proofs.tla                              # one module's proofs

## 1. The system and its parts

    browser page --REST, Socket.IO--> BFF --HTTP--> agent-server --tool calls--> worktree
                                       |                |  STOP hooks --> .forge-oh/, trajectories.db
                                       |                '--/check, /mark--> BFF ledger
                                       |--subprocess--> vllm_supervisor.sh --docker--> coder | planner
                                       '--git worktree, SQLite files, sidecar JSON

Everything meets in the BFF, one asyncio process: its handlers interleave at every
`await`, its memory goes with a restart, and what it keeps on disk is SQLite files,
worktrees and one JSON file per workspace. The agent-server is a separate process and
outside this repository; it is modelled by what the code here expects of it.

| Part (source) | State | Operations | Hard behaviour | What makes it correct | Module |
|---|---|---|---|---|---|
| Idempotent tool executor and ledger (`idempotent_executor.py`, `idempotency_ledger.py`, `routers/idempotency.py`) | the invocation; one SQLite table behind one connection | check, execute, mark, clear | fail-open timeouts, late marks, crash between effect and mark, shared transaction | an answer is the result of an execution of that call; re-execution only after a fault; first mark wins; never blocks | `IdempotentExecutor`, `AtLeastOnceCall` |
| Event relay (`event_relay.py`) | a task per conversation: cursor, last status | start, poll status, fetch page, emit, stop | last page fetched again while it grows, swallowed failures, crash, restart | no event is skipped; each reaches the room; statuses that last are reported | `EventRelay` |
| Sidecar producers (`sidecar_producers.py`) | accumulator per conversation | append, recompute, reset | duplicates after a restart, the cap | bounded; newest event kept; nothing left of a finished run | `RelayedSidecar` |
| Sidecar file (`sidecar.py`) | one JSON file per workspace, and its lock file | seed, update | writers on threads and in processes, a death anywhere | no update is lost | `SidecarFile` |
| Run detail page and its store (`useRunStream.ts`, `store.ts`, `page.tsx`, `main.py`) | socket, seen ids, window of events, banner | join, leave, poll, approve | re-sent pages, reconnection, late join | the page shows each event once and in order; an approval request becomes visible | `RunDetailPage` |
| STOP hooks (`verify/*`, `trajectory/hook.py`, `hook_config.py`) | `verify-state.json`, shared and unlocked | load, verify, save, record | two sessions, kill between truncation and write, retry budget, file edits under the tests | bounded retries; the agent is let go; a failure is recorded | `StopHooks` |
| Trajectory store, writer, drain (`trajectory/store.py`, `writer.py`, `trajectory_drain.py`, `routers/trajectories.py`) | one SQLite table | replace a record, list, embed, write back | record replaced under a pass, two passes, failures | converges to the last stop; vectors of own text; all embedded in the end | `TrajectoryStore` |
| Model router and vLLM supervisor (`model_router.py`, `ops/vllm_*.sh`) | a lock per role, two containers, one card | route, ensure, clear, launch, wait | caps that fire while the supervisor goes on, supervisors of both roles | one role resident; coalescing; every request answered | `VllmSwap` |
| Runs router, worktrees, event-commit ledger, restart (`routers/runs.py`, `worktree.py`, `event_commit_ledger.py`, `restart.py`) | conversations, worktrees, (event, HEAD) rows | create, message, delete, fork, restart | lost answers, rollbacks, crash, sharing of a worktree by a fork | no leaked worktree, no stale stamp, no run without its files | `RunWorktrees` |
| Run set-up (`routers/runs.py`, `restart.py`) | role and backend pin, analyzer, policy, kick-off | create, resume, restart | a call that fails is only logged; a resume before the policy is there; the anchor beyond the pages read | risky calls are asked about; the anchor is found | `RunSetup` |
| Run lifecycle (`runs.py`: pause, resume, stop, approve, reject, switch) | status and turn on the agent-server | the six routes | the resume loop against a turn that still unwinds; status read before interrupt | an answered resume has started the run; stop leaves it at rest; every request ends | `RunLifecycle` |
| Read side of a run (`event_normalize.py`, `action_`, `file_diff_` and `trace_reconstruction.py`, `run_metrics.py`, `run_compare.py`) | none: functions of the event log | rows, commands, artifacts, plan, diffs, spans, metrics, comparison | calls that are refused, unanswered or repeated; files created, edited, overwritten | the tabs agree with each other and with the workspace | `EventNormalize`, `RunReports` |
| Dashboard metrics (`metrics_aggregation.py`, `routers/metrics.py`) | one fetch | page, summarise, series, breakdowns | runs created, ended, deleted between two pages; window edges | no run missed or counted twice; the tables add up | `DashboardMetrics` |
| GPU monitor and thermal hook (`gpu_monitor.py`, `gpu/hook.py`) | a ring of samples per card | poll, snapshot, decide, stop | failed and partial polls, two environments, stop against a poll | a hot card blocks and nothing else does | `GpuMonitor` |
| Self-evaluation (`selfeval/*`, `routers/selfeval.py`) | cycle flag, unit, runs, summary, proposals | run, reap, poll, score, propose | flag against unit across failures and restarts | the flag falls; the summary is honest; proposals are kept | `SelfEval` |
| Agent presets, settings (`agent_presets.py`, `settings.py`) | a dict and an object in the process | create, patch, set default, delete, reset | handlers run on threads, without a lock | one default; no answered patch lost | `BffThreads` |
| Secrets, workspaces, MCP servers (`secrets.py`, `workspaces.py`, `mcp.py`, `mcp_bootstrap.py`) | entries at the agent-server, a ping cache | rotate, update, register, toggle, ping, drop | edits of two calls, either of which fails or loses its answer | no entry is lost unless somebody is told; a ping is of its own server | `RegistryProxies` |
| RepoGraph (`repograph/*`, `routers/repograph.py`) | graph in Neo4j, registry | index, query | overlapping indexes, files edited meanwhile or unreadable, lost answers | the graph is that of the files; views agree up to their limits | `RepoGraph` |
| Memory port and curation (`openhands_tools_ext/memory`) | Neo4j, Qdrant | write, curate, consult, redact | six calls to three stores, any of which fails; looked up in one corpus, filed in another | a hit names a whole memory; a claim dropped has a twin in words | `MemoryStore` |
| SWE-bench harness (`bench_pathF_swebench.py`, `bench_pathB.py`) | run directory, clones, runs and workspaces at the BFF | solve, record, clean up, resume | interrupts and kills at every step | each task counted once; nothing left behind | `BenchSessions` |
| Benchmark patches and comparison (`apply_and_test.py`, `mcnemar.py`, `compare_tokens.py`, token budget) | none | normalise, count, test | a patch cut off anywhere, ties, missing outcomes | no edit lost; reports differ only as they say | `BenchPatches`, `BenchPairs` |
| Loop guard, run metadata store, episodic memory, conflict checker, inference probes, `consult_memory`, tool invocation, search tools, retriever and embedder, verify selector, other routers | little or none | one request, one call | none of several steps | - | not modelled |
| Front end other than the detail page, single-model benchmarks, scripts, compose files | - | - | - | read for what they promise | not modelled |

## 2. The modules

Every action stands for one uninterrupted stretch of a handler: from one `await`,
system call or process boundary to the next. Definitions marked "mutated" or "mutant"
are plausible bugs; no specification uses them, `PROJECT.json` names the property
that each of them breaks.

**`IdempotentExecutor`.** One invocation per key goes `idle, check, execute, mark,
returned, settled` (`IdempotentToolExecutor.__call__`). `CheckFailed` and `MarkFailed`
are the two-second timeouts that fail open; `Execute` is the visible effect, with the
`/mark` request sent or lost. The ledger is `db` (committed) and `txn` (inserted on the
shared connection and visible, though not durable): `MarkInsert` and `MarkCommit` are the two
awaits of `mark_completed`, `ClearDelete` and `ClearCommit` those of `clear_conversation`, and any
handler's commit commits all of them: a late row that comes between a deletion and its commit is
committed with it, in the place of the old one. An
observation is the number of the execution it comes from. `exposures` is a history
variable: it counts, per call, the faults that hid or lost its row.
**`AtLeastOnceCall`** is what a caller may rely on, without ledger or network: answers
come from executions of that call, a settled call is never executed again.

**`EventRelay`.** The agent-server's log is the number of its last event, a page is
named by its first event. `FetchPage` keeps `page_id` on the last page, as the code does,
so that page is fetched again on every poll. `FetchPageFailed` is `([], page_id)`. `EndBatch` stops on the status
that was read *before* the page. `Crash` and `BffRestart` lose the cursor.
**`RelayedSidecar`** extends it: each emitted event is then handed to a thread that feeds the
producers (`FeedEvent`), whose write may fail and be forgotten; `failed` is a history variable, the
outcome of the last write;
**`RunDetailPage`** extends it the other way, with the room and the browser: an emission
reaches a socket that has joined, in order, and no other.

**`StopHooks`.** One process per stop: `LoadState`, `Verify` or `GiveUp`, then
`SaveTruncate` and `SaveWrite` (`write_text` truncates first), then the trajectory
hook, which may be killed or find its database locked (`TrajectoryFails`) and then leaves the
older record or none. Sessions share the file when they share a workspace. `KillVerify` is the SDK's
timeout. Four variables are history: `missed` holds the sessions whose last stop recorded
nothing, `spent` counts the verifications that were run,
`blocks` the stops that were blocked, and `lost` the most verifications that a hook of the
session found missing in the file when it read it (undone by another session's torn or
stale write, or never saved because the hook was killed).

**`TrajectoryStore`.** A hook replaces a record in three transactions (`get`, `delete`,
`insert`); passes list pending records newest first, embed them as a batch and write
the vectors back one at a time, by id. A record's content is the number of the stop it
describes.

**`VllmSwap`.** A request goes through the pin, the probe, the lock of its role (with a
cap, or without one when the lock is free but promised to a waiter), the supervisor it started
and the second probe. The supervisor (`job`) checks, clears the card, polls the memory,
launches, waits; it goes on when the request's cap has fired. The containers load, exit
or crash. `overlapped` is a history variable: supervisors of both roles have run at once.

**`RunWorktrees`.** A request is a record with its program counter and locals; the
worktree, the conversation and the message it makes carry its number. Agents commit, reset and
check out: every move of a HEAD has a number of its own, so a sha stands for the time it became
HEAD, and "older" is `<` whatever the history looks like. A `git worktree add` that fails or is
killed makes nothing or a half-made worktree (`NotProvisioned`), and the run goes on in the
workspace's own directory, which may be a repository or not. A fork starts with no user message of
its own: the rows of the ledger belong to the original's events. `excused` is a history variable:
worktrees that a `git worktree add` cut short has left, or whose removal a failure or a crash has
prevented.

**`SidecarFile`.** A change is `OpensLock` (which makes the lock file when there is none),
`Locks`, `ReadsPayload`, `WritesTmp`, `Replaces`, `Unlocks` of `_rmw`; a writer may die
after each, and the kernel frees its lock. The lock is on the inode that was opened, so
that removing the lock file (a mutant) lets two writers in. `merged` is a history
variable: the file, had every change met the one before it.

**`RunSetup`.** `create_run` from its `POST /api/conversations`, which may be refused, lost or
answered without an id, over the seed of the sidecar, the analyzer and the policy to the kick-off,
and `restart_from_here` from the scan for its anchor and its refusals on; two handlers interleave
with each other, with the calls of the agents they start and with a user who resumes any
conversation that is listed, also one whose policy is not there yet. Three variables are history:
`unasked`, the risks of the calls that were executed without a question, and whether the run had no policy then;
`refused`, the runs whose policy was not taken; `resumed`, those a user has started.

**`RunLifecycle`.** One conversation, several requests. `turn` is the part of the status
that the code cannot see: a paused turn that still unwinds makes `POST /run` answer 409.
`ResumeRefused` is the retry loop, its deadline a number of laps. A stop that cannot read the status
is answered as done without an interrupt; the model calls that answer "ok unread". `disturbed` is a history
variable: another request has started the run since this one was answered.

**`EventNormalize`, `RunReports`.** An agent calls tools, the environment answers (or
refuses, or does not), and a file changes when the file editor answers. Each report is an
operator on the log, written as the code computes it (`Pairing`, `Reconstruct`,
`BuildSpans`, ...), so it can be compared with `files`, the workspace itself. The reports
read different fields of one answer (the exit code, a number or digits; the error flag; the
error text; the kind of the observation), so `ReportsAgree` says where two of them may differ:
a code that came as digits is a failure in the terminal tab and none in the trace, and a
failure told only by the error text, or by the code of another tool, is in the trace and
makes no symptom. A failed hook makes a symptom and no span.
**`DashboardMetrics`** is one fetch in steps, one page each, with the conversations
changing in between; the aggregation is operators on what was fetched. Time is in ticks, a
rate is a pair of integers, and what is added up is counted (`SumOf`): a cost is its number of units.

**`GpuMonitor`.** `PollSucceeds` appends to the ring of each card that has a readable row,
`PollFails` raises the unavailable flag, `HookRuns` decides on the newest sample of
each ring with the cutoffs of the BFF's and the hook's environment, clamped as the code
clamps them. `gpuLog` is a history variable: what nvidia-smi has said of each card.

**`SelfEval`.** The BFF's flag and reaper, the systemd unit (external: one-shot) and the
harness it runs: selection, resolution, create, poll, score, summary, proposals. All
cycles are of one day, the worst case for the names of the files.

**`BffThreads`, `RegistryProxies`.** Handlers that are not coroutines run on a pool of
threads: each access to the shared object is a step. Handlers that edit the
agent-server's entries give way between their calls, and each call may be refused or take effect
with its answer lost. `crossed` and `mixed` are history variables that say which overlaps of presets
and settings have happened: `OneDefault` and `PatchesKept` hold except after those, and section 5
says what those do. `due` says why an entry is there or not, `stray` which servers may have left a
ping behind: overwritten, probed as they went, or deleted with the answer lost.

**`RepoGraph`.** The tags of a syntax tree, the resolution of calls and methods and the
replacement transaction (`ReplaceRepo`), by callers that overlap with edits and with
each other; a file that cannot be read is indexed with no tags, a workspace may have no files, the
answer of a commit may be lost. The views are operators on the stored graph, each with the sets of
rows its `LIMIT` may let through. `settled` and `lastCommit` are history. **`MemoryStore`.** A curated
write through lookup, event node, two edges, collection, embedding and point, with a
failure after each. The corpus that is looked up is the caller's, the one it is filed in is for
`attributes["corpus_name"]` or the default to say; hits with a negative score are skipped, whichever
these are; what is compared are the words of the claims. `tidy` is a history variable: nothing has
failed or overlapped, and every write was looked up where it is filed with the whole corpus among the hits.

**`BenchSessions`, `BenchPatches`, `BenchPairs`.** One session of either path, task by
task, with calls that are refused or whose answer is lost, deletions in vain, interrupts and kills,
and the next session that resumes into the directory; `cut` is a history variable, what the harness was
kept from taking away; a patch that grows line by line, so that each prefix is a patch some limit has
cut off, between the two lines of a file's header too; two directories that grow one task at a time
and the reports made of them. Merging and stripping are sets of places that go, and what is left is
the lines at the others in their order (`Picked`).

The `MC` modules hold the model values and the few constants a configuration file cannot
write. `MCServices` and `MCRecords` are unions: components that share no state are checked
in one run, `part` (`serving` in `MCServices`) says which of them moves, and the others stay in one
initial state.
Their combined properties (`ReportsHold`, `EveryWaitEnds`, ...) are conjunctions of the
components' own, each said where its component moves. `BffState` joins what two components
that share no state keep for overlapping handlers. Besides the mutant that
`PROJECT.json` lists for a property, most conjuncts have a mutated operator of their own in
the modules (comment "Mutated:"); put in the place of the operator that follows it, each
violates the combined property it belongs to.

## 3. The runs

| Run | Instance | States | What it shows |
|---|---|---|---|
| `ledger` | two calls of two conversations, a crash of the agent-server, a clear, any number of BFF stops | 139 786 | `NoPhantomResult`, `ReexecutionsArePaid`, `FirstMarkWins`, `ImplementsContract`, `CallReturns` |
| `relay` | 3 events, pages of 2, 2 faults, any number of failed sidecar writes, an accumulator of 3 | 108 449 | `NoGap`, `FeedHolds` (bounded, the current page kept), `FinishedIsForgotten`, `CatchesUp`, `StatusReported` |
| `relay_forward_all` | 3 events, pages of 2, no fault | 1 341 | a run that finishes with more than a page unread: the rest is never forwarded |
| `page` | 2 events, pages of 1, a window of 1, one fault | 286 326 | `PageHolds` (the window is exact), `ApprovalVisible` |
| `hooks` | two sessions, a budget of 2, a follow-up task, a hook killed or failed | 1 115 980 | `RetryBound`, `WithinBudget`, `VerdictsHold` (no verdict is lost or mistaken), `AgentIsLetGo` |
| `trajectory` | two runs of up to two stops, two passes, one fault | 46 591 | `StoreHolds` (latest stop, own text), `EventuallyEmbedded` |
| `vllm` | three requests among coder, pinned planner and a pin on Ollama, one fault | 836 526 | `SwapsHold` (coalesced, one role), `EveryRequestAnswered`, `SoleRoleComesUp` |
| `worktrees` | a run and three more requests, one move of HEAD, one fault | 1 061 180 | `WorktreesHold` (no leak, no stale stamp), `AnsweredRunHasItsFiles` |
| `worktrees_fork` | three requests, no fault | 835 | deleting a fork removes the original's files |
| `services` | lifecycle: two requests, two laps, one fault; card: two cards, rings of 2, three polls; cycle: two tasks, two cycles, one fault | 100 862 | `StopLeavesAtRest`, `OkMeansStarted`, `HookHolds`, `EveryWaitEnds` |
| `records` | twelve components, one at a time | 1 118 327 | the rows of the next table |
| `risky_calls` | two runs, one fault | 2 896 | a run whose policy could not be set executes a risky call unasked, though nobody resumed it |

| Property of `records` | Of | Instance | What it says |
|---|---|---|---|
| `ReportsHold` | `RunReports` | one file, two contents, logs of 4 events | the diff tab shows the workspace (`DiffShowsWorkspace`), the tabs agree although each reads other fields (`ReportsAgree`), a row is blank only by an explicit text of white space, a message never (`RowsAreLegible`) |
| | `DashboardMetrics` | two conversations, days of 2 ticks | the four endpoints agree (`DashboardsAgree`) |
| | `BenchPatches`, `BenchPairs` | patches of 5 lines over two files; four tasks in pairs | no edit is lost, moved before another or, when the sections of a file follow each other, given to another file (`NormalizingIsSafe`); `BenchNumbersHold` |
| `EveryStandingRunCounted` | `DashboardMetrics` | two conversations, pages of 1 | no run is missed or counted twice by the pages of the fetch |
| `SessionsHold` | `BenchSessions` | two tasks, two sessions, two mishaps | `BooksBalance`, `NothingLeftBehind` (but for what the harness was kept from taking away, or of which the answer was lost) |
| `SummaryIsHonest`, `ProposalsArePreserved` | `SelfEval` | two tasks, one cycle, two faults | nothing is scored a success whose run did not succeed; no proposal is overwritten |
| `SetupIsSafe` | `RunSetup` | two runs, one fault, two pages of one event | `AsksAsConfigured` (a resume before the policy excuses only what the run did without it), `AnchorIsFound` (unknown exactly when no page has it; nothing made without a commit) |
| `NoLostChange` | `SidecarFile` | two writers, two sessions, three changes, one fault | no update is lost |
| `BffStateHolds` | `BffThreads`, `RegistryProxies` | two threads, three operations; three requests, one refusal or lost answer | `OneDefault`, `PatchesKept` (overlaps apart), `EntryIsNotLost`, `PingOfItsOwn` |
| `RepoGraphHolds` | `RepoGraph` | two files of two languages, either of which may be missing, two callers, an edit, two indexes, one fault, views of two and three rows | `GraphIsCurrent`, `EdgesAreRight`, `ViewsAgree`, `RegisteredIsStored` |
| `MemoryHolds` | `MemoryStore` | three claims, two of them in the same words, two corpora, two curators, one hit, one fault | `PointsNameWholeEvents`, `DiscardsHaveATwin`, `NoTwinWhenTidy` |

`RecordsTypeOK` and `ServiceTypeOK` are the components' type invariants. Three more
properties hold in the instance of `records` and are left out of its configuration, since they are
proved (section 4): `ReportsGrow` (a report only grows with its log), `AFlipTellsMore` (one more flip
the way most go never weakens a result) and `OthersAreKept`.

**Why these bounds.** The relay's arithmetic is on page boundaries: a log that grows to three in
pages of two has a page that is full and last, one that is partial and last, and one
that is followed; a cap of three overflows on the first event of a page that is sent again.
The page run needs an event beyond the window and one that is sent twice: two events and a
window of one. Two sessions are what interference needs, a budget of two has one
blocked stop and one that gives up, and one follow-up task reaches the exhausted budget.
Two passes and two stops give a replaced record under each pass. Three requests for the
card are a holder, a waiter and a third that finds the lock free but promised, or that comes for the other
role. Four requests on runs give create, message, fork or restart, and delete in every
order. One fault reaches every error path, two (relay) a failure during the recovery
from another. A log of four events is two calls and their answers, in any order and with
any of them refused: create and edit, edit and overwrite, an edit under an unanswered one.
Two conversations on pages of one put an event between two pages; three ticks in days of
two put a run on either side of each window's edge. Five lines of a patch are
two headers of one file and an edit: a merge, and a place to lose the edit. Two writers, each opening the lock before or after the
other's release, are what a lost update needs; the third change is a repeat. Two polls overflow
nothing, three overflow a ring of two. Two cycles are a flag that is raised again, two tasks
are one that fails beside one that does not.
Each such cap is a guard of the action it bounds and is named in `CONSTANTS`.

**Stopping.** All runs set `CHECK_DEADLOCK FALSE`: conversations end, requests are used
up, agents finish; the systems do stop. What must not stop is said by the liveness properties.

**Fairness.** The executor is synchronous code with timeouts, so each step of an
invocation is taken (`WF` of `Executor(k)`); nothing is assumed of the BFF. The event loop runs the
relay's task, and an open page polls `GET /runs/{id}`, which starts it again; a
request that can succeed does in the end because only `MaxFaults` of them fail.
On the page socket.io reconnects, the query polls, and a request is answered. The SDK awaits each
hook, and a blocked agent tries again. Processes of the trajectory hook run, and the
drain's loop starts passes for ever. For the card, weak fairness of all progress together
is enough, since no step of it goes back: every loop of the supervisor is bounded and the
timers fire. `LifeFair`: the event loop runs each handler, and each of its calls ends, by an
answer or a timeout; nothing is assumed of the turn that unwinds. `GpuFair`: the poller's
sleep and the timeout of `stop` end; nvidia-smi need not. `EvalFair`: the handler, the
reaper, systemd's queue and the harness go on; the runs that the harness waits for need
not end, since every wait of it has a timeout. The remaining modules have safety
properties only.

## 4. What is proved

Each theorem holds for every value of the constants that the module's assumptions allow. Most
of the invariants are not inductive as they stand; what was added to them is said below. Eight
modules hold the proofs.

`IdempotentExecutor_proofs`:

- `TypeCorrect`: the type invariant.
- `ReexecutionBound`: each execution of a call after the first is paid for by a fault
  (`ReexecutionsArePaid`). It is not inductive: it says nothing of a call that is
  about to execute. The inductive invariant says, for each place an invocation can be
  in, how many executions its exposures and a committed row account for: with a durable
  row the call can only execute if a check failed, and that check was counted.
- `ResultsAreReal`: `NoPhantomResult`, from the same invariant.
- `LedgerIsFirstWins`: the action property `FirstMarkWins`; a row that is committed is
  visible, so `INSERT OR IGNORE` leaves nothing to commit over it, unless a deletion of its
  conversation is in the same transaction (`deleted`).
- `RefinesContract`: the component implements `AtLeastOnceCall`; initial states map to
  initial states and every step to a step or a stutter, under the invariant that what an
  invocation holds was executed.

`EventRelay_proofs`, for every log, page size, cap, window and number of faults:

- `RelayTypeCorrect`: the type invariant.
- `RelayNeverSkips`: `NoGap`. What the cursor may reach depends on the batch, and the
  batch on the log, so the invariant adds that the batch in hand lies in the log. The
  case that matters is `EndBatch`: the batch is exhausted, so its top has been
  forwarded, and the next page starts right behind it.
- `FeedIsUpToDate`: `FeedHolds` of the producers behind the relay. The cap drops from the front
  while every poll of a last page appends its events again, so the invariant says how near to its end
  the accumulator holds each event of the page (`PageInTail`): no deeper than the page is long, which
  the cap's drop leaves alone (`RoomForAPage`). What is in the accumulator at a write is in the sidecar
  (`PageInSidecar`), unless that write failed. `BatchReachesSent` says that a batch that is not empty
  reaches up to what was forwarded.
- `PageIsExact`: `PageHolds`, the window of a page that stays in the room. The store is exact
  for a prefix of the log that contains all that this task has forwarded, so an event
  is either known and changes nothing, or is the next one; `NoGap` is what makes the second true.

`StopHooks_proofs`, for every set of sessions, budget and bound:

- `HooksTypeCorrect`: the type invariant.
- `BudgetIsKept`: `WithinBudget`. The file gets its entries from the copies that hooks
  hold, so the invariant says it of those copies too.
- `RetriesAreBounded`: `RetryBound`. A hook decides on the count it has loaded, and the
  file may have been rolled back since, so nothing follows from the file. The invariant
  says instead that what the hook holds and what was found missing is all that was run
  (`Accounted`), that blocks are verifications (`BlocksAreSpent`), and that a block which
  is decided and not yet counted still fits (`PendingFits`). The step that matters is
  `Verify`: it blocks with `used + 1 < MaxIterations`, and there `spent <= used + lost`.
- `VerdictsAreKept`: `VerdictsHold`. The verdict that counts is in the entry that carries the
  count of all verifications (`VerdictIsInCopies`); a copy that another session puts back
  carries a smaller count (`UsedIsSpent`) or the same verdict.

The same module, of the store behind the hooks: `StoreIsRight`, that is `StoreHolds`. What makes it
inductive is what a pass holds between the listing and the write back: the content that the record
still has, unless the run was stopped meanwhile (`HeldIsCurrent`).

`VllmSwap_proofs`: `SwapsAreSafe`, that is `SwapsHold`. `Coalesced` follows from the lock alone:
whoever waits for a supervisor holds the lock of its role (`LockIsHeld`). `OneRoleResident`
needs `OtherIsCleared`: until supervisors of both roles overlap, the role that was cleared
stays off the card while the supervisor that cleared it runs.

`RunWorktrees_proofs`, for any number of requests, commits and faults:

- `WorktreesAreRight`: `WorktreesHold` (no leak, no stale stamp). A conversation, a worktree and a
  message carry the number of the request that makes them, so a request that has not come that far is
  nobody's (`MadeInTime`); a live worktree is in hands that can be named (`Accounted`); the
  HEAD that a capture holds is no older than any message it may be recorded for (`Captures`), since
  every move of a HEAD has a later number than all messages so far (`BornBelowHead`).
- `AnsweredRunsKeepTheirFiles`: `AnsweredRunHasItsFiles`. The handler's own worktree is live from
  its provision to the answer (`FilesKept`), since every rollback belongs to a request that
  is not answered.

`Services_proofs`, component by component:

- `StoppedRunsRest`: `StopLeavesAtRest` of `RunLifecycle`. Between the two calls of a reject
  the agent rests unless another request has started it (`RejectIsMidway`). A stop that could not
  read the status is excepted, and section 5 says what it does.
- `AnsweredOkHasStarted`: the action property `OkMeansStarted`, by exclusion: of all the steps
  that answer, only two give this answer, and both post `/run` in the same step.
- `RunsAreSetUpSafely`: `SetupIsSafe`. The policy is in place from the kick-off on
  (`PolicyInPlace`), and what was done unasked before it is a resumed run's (`UnaskedRight`); the anchor is not on the pages the scan has read (`ScannedRight`).
- `MemoriesAreRight`: `MemoryHolds`. The invariant says, for each place of a writer, what it has
  stored and found (`WriterRight`), and while all is tidy that everything remembered has a point
  or its writer is about to store one (`EveryMemoryHasAPoint`): the lookup sees points only; and that
  a writer past its lookup has words no memory of its corpus has (`TidyWriter`).
- `HookIsRight`: `HookHolds` of the card's guard. The ring ends where the log of what nvidia-smi
  has said ends (`RingsAreRecent`); the rest is about one decision: the peak of the
  snapshot is a value it is taken from (`FiniteIntsHaveAMaximum`), and the clamp keeps the
  temperature's cutoff between 50 and 95.
- `LifeTypeCorrect`, `SetupTypeCorrect`, `MemoryTypeCorrect`, `GpuTypeCorrect`: the type invariants, the
  last with the rings' length.

`Records_proofs`, component by component:

- `SidecarTypeCorrect`: the type invariant of `SidecarFile`.
- `NoChangeIsLost`: `NoLostChange`. It is not inductive: it says nothing of what a writer
  is about to write. The invariant says that whoever is at work has opened the one lock
  file there is (`OneLockFile`, which is why that file must never be removed), that
  between the flock and its release the lock is the writer's own (`HoldsItsLock`), hence that no two
  hold it (`Exclusion`), and that a payload is its change made to the file as it is now
  (`PayloadIsCurrent`). The step that matters is `Replaces`: nobody else has a payload
  that becomes stale by it.
- `OtherSessionsAreKept`: the action property `OthersAreKept`, from the same invariant.
- `SummariesAreHonest`: `SummaryIsHonest` of `SelfEval`. An outcome stands at the place of its
  task, the tasks of a selection differ whatever the strategy (`SelectionsRepeatNothing`), and a run that
  the harness polls is in no outcome yet (`HarnessIsInStep`).
- `ProposalsStay`: the action property `ProposalsArePreserved`. Among one more suffix than there
  are proposals one is free, so the name that is chosen is new (`FreshNameIsFresh`, by the
  pigeonhole principle).
- `PresetsAndSettingsAreKept`: `ThreadsKeep`. Between two steps of a set-default several
  presets or none may be the default: the invariant says of the walk that what lies behind it
  is set and what lies before it is as it was (`WalkIsOn`), and that the keys of duplicates under way
  are nobody's (`KeysAreFresh`).
- `OverlapsLoseNothing`: `BffStateHolds`, from the theorem above and `EntriesAndPingsAreKept`
  (`RegistryKeeps`): who probes a server has met it, so a deletion while nobody probes leaves nothing
  that could write to the cache (`ProbesMeetTheirServer`); whoever drops an entry without putting it
  back ends, and its answer stays (`EndedHaveAnswers`).
- `RepoGraphIsRight`: `RepoGraphHolds`. A request that nothing has disturbed is alone with
  its repository, what it has read is as it was read and what it deletes is all that is stored
  (`CleanIsAlone`, `UpToDate`), so its commit stores the index of the files, those it could not read
  counting as empty. Whatever overlaps, nobody deletes the files of the last commit (`LastIsStored`). That an
  index is right is a fact about `BuildIndex` (`EdgesOfAnIndex`): the class around a method
  begins before it and ends with it or after (`InsideEndsFirst`, `MethodHasItsClass`), and with one
  class of that name in the file it is the one the edge leads to. `ViewsAgree` holds of any graph: a
  view that its limit has not cut has all its rows.
- `SessionsBalanceTheirBooks`: `SessionsHold` of `BenchSessions`. A task is still to do, at hand or
  counted, and in path A never none of the three; what the task at hand may have at the BFF is
  said for each place of `run_task` (`Standing`), so whoever leaves it knows what it leaves, a call in
  flight included (`InFlight`). That a
  resumed session lists each file once is a fact about `SetToSeq` (`SetToSeqLists`).
- `StandingRunsAreCounted`: `EveryStandingRunCounted` of `DashboardMetrics`. Between two pages all
  that is listed above the cursor and stood at the start has been read (`PagesAreRead`). A page that
  is followed by another is full (`PageIsTheNewest`), so the loop's bound on pages is never what
  ends a fetch short of the cap (`PagesFillTheCap`).

- `EvalTypeCorrect`, `ThreadsTypeCorrect`, `RegistryTypeCorrect`, `GraphTypeCorrect`, `BenchTypeCorrect`,
  `DashTypeCorrect`: the type invariants of the components above.

`Reports_proofs`, for what is computed from records, for every log, fetch, patch and tally:

- `DiffsShowTheWorkspace`: `DiffShowsWorkspace`. It is inductive beside what the log's events carry (`LogOK`,
  `Fits`): an answer of the editor carries the file before and after, so the next edit of a file starts
  from what the diff shows already, and the first one from the file at the start of the run.
- `ReportsAgreeAlways` and `ReportsOnlyGrow`: `ReportsAgree`, and the action property `ReportsGrow`. Beside it: only a
  white-space summary or thought makes a blank row (`Legible`). Both rest
  on `PairsAreTheAnswers`: a call has at most one answer, which is after it, so the last observation of
  an action, which is what the code takes, is the only one, and no later event replaces it.
- `BenchNumbersAreRight` and `FlipsTellMore`: `BenchNumbersHold`, and the action property `AFlipTellsMore`. The
  cells are disjoint sets of tasks (`CellsAgree`). The sums of binomials are sizes of sets of ways in which
  the pairs can flip: complements match the two tails (`SplitsMirror`, `MidPIsRight`), and leaving the new
  pair out bounds the ways of one more (`SplitsOfOneMore`).
- `DashboardsTellOneStory`: `DashboardsAgree`. A sum is the size of the set of its units, so a breakdown
  adds up to the total because its keys divide the rows (`PartsAddUp`, `BreakdownAddsUp`); a value of
  rank k exists and grows with k (`RanksGrow`), which carries over to the interpolation.
- `NormalizingLosesNothing`: `NormalizingIsSafe` for patches of any length. The places that are kept are
  numbered in their order (`NthOfRank`, `Ranking`), so what is left of a patch is again one whose headers are whole
  (`Headed`), has the same edits in the same order, and opens its sections where the patch does (`PartOfAPatch`);
  the header before an edit is dropped only when an earlier one of its file stays.
- `RecordsTypeCorrect`, `ReportsAreRight` and `ServicesTypeCorrect`: `RecordsTypeOK` and `ReportsHold` of `records`,
  `ServiceTypeOK` of `services`. A behaviour of a union is a behaviour of each component, since a
  step of one leaves the others as they are (`EachAlone`, `ServicesStepAlone`); what was proved of
  the components then holds of it.

Constants carry the assumptions the proofs use (`KeysBelongToConversations`, `LogAndPage`,
`WritersAndBounds`, `AsksNameRoles`, `GpuConstants`, `EvalConstants`, `RepoGraphAssumption`,
`BenchConstants`, `DashConstants`, `DashTimes`, `PairsAssumption`, `PatchAssumption`, ...): that
bounds are natural numbers, that a page and a budget are not empty, that there are finitely many cards,
that a manifest and a data set name no task twice, that a source file is a sequence of nodes, that no
writer is named as the free lock is, that no name stands for "none".

Recursive definitions and folds are out of the provers' reach, so what the models compute on data is
written with sets, functions and quantifiers (`SelectTasks` takes its tagged tasks
as the ordering of a set, a sum counts units, a merged patch is the lines at the places that stay). Facts that
would be shown by induction are shown by a least or a
smallest counterexample instead: `WFMin` with the order of the natural numbers
(`LeastNatural`) or of finite sets (`FiniteIntsHaveAMaximum`).

**Only model-checked**: all liveness, since fairness and `ENABLED` are beyond the prover. Every invariant
and every action property of the passing runs is stated by a theorem above. The claims that do not hold (next
section) are refuted by TLC.

## 5. Where code and documentation disagree

Three runs show it (`findings` quotes the lines): the relay leaves out the tail of a run that
ends far ahead of it; deleting a fork takes the original's files; a run whose confirmation
policy could not be posted executes risky calls unasked (one that a restart has made never has a
policy at all).

More claims are stated as definitions and do not hold. Give one to TLC as the only
`INVARIANT` or `PROPERTY` of the run named, and it shows the behaviour:

| Claim | Run | What happens |
|---|---|---|
| `ExactlyOnce` (docstring of the executor) | `ledger` | a crash between effect and mark: the effect is repeated |
| `SessionsDoNotInterfere` (`verify/hook.py`) | `hooks` | one session's save writes back its stale copy of the other's entry |
| `CapDegradesToOllama` (`model_router.py`, comment on the cap) | `vllm` | the supervisor that goes on has stopped Ollama, so the capped request is refused |
| `StopCancelsTurn` (answer of `resume`: "Use Stop (interrupt) to cancel it") | `services` | the paused status makes stop answer without an interrupt; the turn goes on unwinding |
| `FallsOpen` (`gpu/hook.py`: allows when the poller is unavailable) | `services` | the rings keep the last good sample, and the hook still blocks on it |
| `UnresolvedIsReported` (`harness.py`) | `services` | `TaskOutcome` is given a field it does not have; the harness ends with an exception |
| `PlanIsLatest` (`action_reconstruction.py`) | `records` | a list that has been emptied is skipped and the one before it shown |
| `SummaryIsComplete` (`bench_pathB.py`: "so summary math is complete on resume") | `records` | a task that failed in the harness is not in the resumed books |
| `EditsAreScored` (`reconstruct_patch_from_run`) | `records` | the files route answers with the two texts and no "diff", so the patch is empty whatever the agent has edited |
| `ToolCapHolds` ("tool cap catches thrashing") | `records` | the poll asks the metrics for `tool_call_count`, the route answers `toolCallCount`: the count is always 0 |
| `WorkspaceAtBase` (`create_workspace`) | `records` | a clone whose checkout was cut off stays on the default branch, and is used as it is |
| `EditsKeepTheirFile` (`merge_duplicate_file_sections`: "only merges CONSECUTIVE duplicates or duplicates with no other file section in between") | `records` with `MaxLines = 7` | the header of a file's second section goes although another file's section stands between: its hunks fall to the other file |
| `HunkCountsMatchBody` (`recount_hunks`) | `records` | a section that begins right behind a hunk's header is counted as the hunk's lines |

Seen while modelling, without a definition of their own:

- **Pages and relay.** `page.tsx:147` expects a status event to lower the approval
  banner, but `handleEvent` drops every status event before that branch, so an approval in
  another tab leaves the banner up.
- **Trajectories.** A vector computed from a replaced record's text may be written to the new record
  and is then never computed again (`update_embedding` writes by id): this is why
  `EmbeddingOfOwnText` excepts raced records.
- **Runs.** `record_sha`'s docstring says that one event is not captured at two HEADs; two
  messages sent at once, with a commit between them, do that. The comment at `runs.py:312`
  lets a preset's role yield to the one of the task's complexity; nothing looks at that. `ADR-026` says a restart is tagged and takes "the same code
  path" as create; it sets no tags and has its own path. A resume retries whatever the
  status, although its comment says it does so only when the run leaves "running". A stop whose
  status fetch answers an error other than 404 is answered "stopped" while the agent runs on
  (`runs.py:1149`); a user who resumes a new run before `create_run` has posted its policy
  lets it act without one (`runs.py:981`). A `git worktree add` that is cut short leaves half a
  worktree that nothing removes, and the run goes on in the workspace itself.
- **STOP hooks.** Once the budget is used, follow-up tasks of the conversation are not
  verified any more (`loop.py:114`).
- **Card.** A route names an engine that answered the probe and may be taken down by a
  swap for the other role before it is used (`model_router.py:514`).
- **Reports.** An agent's white-space `summary` or `thought` blanks its row's text; a symptom in the sidecar
  never clears. An exit code written as digits is a failure in the terminal tab and a success in the trace
  (`action_reconstruction.py:106`, `trace_reconstruction.py:102`). The dashboard's chart leaves out the oldest day of a window, and `stuck` runs are in no
  status of it.
- **Self-evaluation.** The reaper may note "ok" before the unit has started. A launch that
  raises anything but `FileNotFoundError` leaves the flag up. A cycle started on a terminal
  is not shown. A timed-out task's run goes on while the next begins, which
  `ADR-011` §3 excludes. A second cycle of a day overwrites the summary of the first.
- **Presets, settings, registries.** Two set-defaults that overlap leave none or two; two settings
  patches that overlap lose one. A rotation whose deletion is done and not answered, or a workspace
  whose directory cannot be made in between, loses the entry and says so (`secrets.py:162`,
  `workspaces.py:213`); a server deleted by such a call leaves its ping status to the next of its name.
- **Benchmarks.** A failure of the infrastructure is recorded as unresolved and not tried
  again. `compare_tokens.py` counts path A's `summary.json` and `progress.json` as tasks;
  a task without an outcome is a failure there and left out of the McNemar test. A workspace or a run
  whose creation was not answered, or whose deletion was refused, stays at the BFF, and only the latter
  is printed.
- **RepoGraph.** Two overlapping index requests may leave the union of two builds;
  `index_repo`'s counts are of before the merge; a method is given to the first class of its name; an
  import is filed under the module's name. The registry is empty after a restart. A file that cannot
  be read is stored as one without symbols, as if it were empty.
- **Memory.** `curated_write` looks for twins in the corpus it is given and files its points
  under `attributes["corpus_name"]` or the default: a claim is kept twice in one corpus, or dropped
  for a twin in another (`ADR-023`). "a b", "c", "d" is dropped for "a", "b c", "d", whose words are the
  same (`ace_cycle.py:182`). `min_score` "0.0 keeps every hit" (`ports/memory.py:261`), and hits with a
  negative score are skipped (`semantic_memory_path.py:196`). A write whose
  semantic lane fails stays; one that fails half-way shows among the recent writes. A
  redaction changes the payload and not the entity nodes. A collection that two first writes
  create at once loses one of the two points. One failed initialisation makes the port unavailable
  until a restart, and `close` leaves the clients of the vector store and of the embedder open.

## 6. Limits

Data are abstracted to what the properties tell apart: an event is its number or a record
of its kind, tool and path, an observation the execution it comes from, a commit its number, a prompt nothing at all.
Time is abstracted to order: a timeout may fire whenever its wait is on. The page model has one
conversation, so what the global store keeps of another run is left out. Reading the
agent-server's answers (shapes, aliases of keys) is left out, as are authentication,
path guards and logging. TLC's runs say nothing beyond their bounds; the theorems do.

**Partly modelled.** Of RepoGraph, PageRank, the search by name and the git history behind
`co_changed` are left out: numbers without a protocol, and external commands. Of the memory port,
`link_entities`, the temporal query, redaction, the reads of the inspector and of `consult_memory`,
and the doubles of the tests. Of the front end, all but the run's stream. Of the BFF's start and stop, the order of the shutdown.

**Not modelled, and why.** The loop guard is a pure window without a caller outside its
tests. Run metadata and episodic memory are single statements on one connection; the two
ledgers, built alike and with several writers, are modelled. The conflict checker, the probes of the
backends, the search tools, the retriever and the other routers each make one call and
pass on its answer. Tool invocation builds prompts, the verify selector chooses a command;
neither keeps state. The benchmarks of single models run once, from the first line to the
last. Rendering in the front end has no shared state.

## 7. The plan

1. Done: all the modules above, and the proofs of section 4: every safety property of the passing runs.
2. Next proofs: none of the runs' safety properties is left. `PlanIsLatest` without its exception, as what does hold
   of the plan tab, is the next to state.
3. Next models: PageRank's cut-off in RepoGraph as a bounded check, the order of the
   BFF's shutdown against relays and drains that still run.
