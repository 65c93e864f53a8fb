----------------------------- MODULE GpuMonitor -----------------------------
(***************************************************************************)
(* The GPU monitor of the BFF (bff/services/gpu_monitor.py) and the hook   *)
(* that runs before a tool (openhands_tools_ext/gpu/hook.py).  The poller  *)
(* keeps a ring of samples per card; the hook, another process with an     *)
(* environment of its own, reads the last sample of every card through     *)
(* GET /api/gpu and blocks the tool when one has reached a cutoff.  When   *)
(* it learns nothing it allows.                                            *)
(***************************************************************************)
EXTENDS Integers, Sequences, SequencesExt, FiniteSets

CONSTANTS
  Cards,
  Samples,      \* what nvidia-smi says of a card: [Resources -> Int]
  Environments, \* values of the cutoffs' environment variables: [Resources -> Int]
  RingLen,      \* samples kept of a card
  MaxPolls      \* bound: polls of nvidia-smi

Resources == {"temperature", "power", "vram", "utilization"}
Unknown   == -1    \* a column that reads N/A
Unset     == -1    \* an environment variable that is not set
Malformed == -2    \* or that is not a number

ASSUME GpuConstants ==
  /\ IsFiniteSet(Cards) /\ RingLen \in Nat \ {0} /\ MaxPolls \in Nat
  /\ \A s \in Samples \cup Environments : s \in [Resources -> Int]

VARIABLES
  ring,       \* per card: the last samples
  down,       \* the last poll was recorded as unavailable
  poller,     \* the task: off, poll, sleep, ended
  stopping,   \* the stop event is set
  hookSaid,   \* what the last hook said: "none", "allow", or the resource
  bffEnv,     \* the cutoffs in the environment of the BFF
  hookEnv,    \* and in that of the hook
  gpuLog,     \* history: per card, all its samples
  polls       \* polls so far

gpuVars == <<ring, down, poller, stopping, hookSaid, bffEnv, hookEnv, gpuLog, polls>>

GpuInit ==
  /\ ring = [c \in Cards |-> <<>>]
  /\ down = FALSE /\ poller = "off" /\ stopping = FALSE /\ hookSaid = "none"
  /\ bffEnv \in Environments /\ hookEnv \in Environments
  /\ gpuLog = [c \in Cards |-> <<>>]
  /\ polls = 0

----------------------------------------------------------------------------
(* The cutoffs.                                                            *)

Clamped(v, lo, hi) == IF v < lo THEN lo ELSE IF v > hi THEN hi ELSE v

IsNumber(raw) == raw \notin {Unset, Malformed}

\* Mutated: the temperature's value is taken as it is.
CutoffUnclamped(env) == IF IsNumber(env.temperature) THEN env.temperature ELSE 83

\* _cutoff_celsius, and _cutoff of the hook.
TemperatureCutoff(env) ==
  IF IsNumber(env.temperature) THEN Clamped(env.temperature, 50, 95) ELSE 83

\* The three others are off unless they are set.
OptionalCutoff(env, r) ==
  CASE ~IsNumber(env[r]) -> Unset
    [] r = "power" -> Clamped(env[r], 50, 1500)
    [] OTHER -> Clamped(env[r], 1, 100)

\* What the BFF reports comes first, then the hook's own environment.
HookCutoff(r) ==
  IF r = "temperature" THEN TemperatureCutoff(bffEnv)
  ELSE LET reported == OptionalCutoff(bffEnv, r)
       IN IF reported # Unset THEN reported ELSE OptionalCutoff(hookEnv, r)

----------------------------------------------------------------------------
(* The poller.                                                             *)

GpuStart ==
  /\ poller = "off" /\ polls < MaxPolls
  /\ poller' = "poll" /\ stopping' = FALSE
  /\ UNCHANGED <<ring, down, hookSaid, bffEnv, hookEnv, gpuLog, polls>>

\* Mutated: the ring keeps what came first.
RingAppendFull(s, x) == IF Len(s) < RingLen THEN Append(s, x) ELSE s

\* Mutated: the deque has no limit.
RingAppendUnbounded(s, x) == Append(s, x)

\* _RingBuffer.append: a deque with a maximal length.
RingAppend(s, x) ==
  LET t == Append(s, x) IN SubSeq(t, IF Len(t) > RingLen THEN 2 ELSE 1, Len(t))

\* What _parse_csv makes of the output: rows of some cards, the unreadable
\* ones left out.
Rows == UNION {[cs -> Samples] : cs \in SUBSET Cards}

\* _ingest, of every row.
Ingest(rows) ==
  /\ ring' = [c \in Cards |-> IF c \in DOMAIN rows THEN RingAppend(ring[c], rows[c]) ELSE ring[c]]
  /\ gpuLog' = [c \in Cards |->
       IF c \in DOMAIN rows THEN Append(gpuLog[c], rows[c]) ELSE gpuLog[c]]

\* One lap of _run.
PollSucceeds(rows) ==
  /\ poller = "poll" /\ polls < MaxPolls
  /\ Ingest(rows)
  /\ down' = FALSE
  /\ poller' = "sleep" /\ polls' = polls + 1
  /\ UNCHANGED <<stopping, hookSaid, bffEnv, hookEnv>>

\* _poll_once reports a missing, hanging or failing nvidia-smi with a sample
\* that says so and goes to a ring of its own.
PollFails ==
  /\ poller = "poll" /\ polls < MaxPolls
  /\ down' = TRUE
  /\ poller' = "sleep" /\ polls' = polls + 1
  /\ UNCHANGED <<ring, stopping, hookSaid, bffEnv, hookEnv, gpuLog>>

\* The interval is over, or the stop event is set.
PollerWakes ==
  /\ poller = "sleep"
  /\ poller' = IF stopping THEN "ended" ELSE "poll"
  /\ UNCHANGED <<ring, down, stopping, hookSaid, bffEnv, hookEnv, gpuLog, polls>>

GpuStop ==
  /\ poller \in {"poll", "sleep"} /\ ~stopping
  /\ stopping' = TRUE
  /\ UNCHANGED <<ring, down, poller, hookSaid, bffEnv, hookEnv, gpuLog, polls>>

\* Mutated: the poller is waited for without a timeout.
StopJoinsEnded ==
  /\ stopping /\ poller = "ended"
  /\ poller' = "off" /\ stopping' = FALSE
  /\ UNCHANGED <<ring, down, hookSaid, bffEnv, hookEnv, gpuLog, polls>>

\* stop waits three seconds for the task and then cancels it: nvidia-smi may
\* take five.
StopJoins ==
  /\ stopping /\ poller \in {"ended", "poll"}
  /\ poller' = "off" /\ stopping' = FALSE
  /\ UNCHANGED <<ring, down, hookSaid, bffEnv, hookEnv, gpuLog, polls>>

----------------------------------------------------------------------------
(* The snapshot and the hook.                                              *)

Known == {c \in Cards : ring[c] # <<>>}
Latest(c) == Last(ring[c])

\* hottest_temperature, peak_utilization_pct, peak_vram_pct, peak_power_w
Peak(r) ==
  LET vals == {Latest(c)[r] : c \in Known} \ {Unknown} IN
  IF vals = {} THEN Unknown ELSE CHOOSE v \in vals : \A w \in vals : w <= v

\* snapshot: available as soon as any card has ever been sampled
Available == Known # {}

\* Thermal, power, VRAM, utilization: the first that trips blocks.
Order == <<"temperature", "power", "vram", "utilization">>

Trips(r) == Peak(r) # Unknown /\ HookCutoff(r) # Unset /\ Peak(r) >= HookCutoff(r)

Decision ==
  LET i == SelectInSeq(Order, Trips) IN
  IF ~Available \/ i = 0 THEN "allow" ELSE Order[i]

\* The BFF answers in time, or the hook, disabled or not, falls open.
HookRuns ==
  /\ hookSaid' \in {Decision, "allow"}
  /\ UNCHANGED <<ring, down, poller, stopping, bffEnv, hookEnv, gpuLog, polls>>

GpuNext ==
  \/ GpuStart \/ PollFails \/ PollerWakes \/ GpuStop \/ StopJoins \/ HookRuns
  \/ \E rows \in Rows : PollSucceeds(rows)

GpuSpec == GpuInit /\ [][GpuNext]_gpuVars

\* The event loop runs the task's wake-up and stop's timeout.
GpuFair == WF_gpuVars(PollerWakes) /\ WF_gpuVars(StopJoins)

----------------------------------------------------------------------------
(* The types of the state.                                                 *)
GpuTypeOK ==
  /\ ring \in [Cards -> BoundedSeq(Samples, RingLen)]
  /\ down \in BOOLEAN /\ stopping \in BOOLEAN
  /\ poller \in {"off", "poll", "sleep", "ended"}
  /\ hookSaid \in Resources \cup {"none", "allow"}
  /\ polls \in 0 .. MaxPolls

(* The hook decides on the last thing nvidia-smi has said of each card:    *)
(* neither the ring's limit, nor failed polls, nor polls that leave a card *)
(* out, nor unreadable columns of another card hide a value that has       *)
(* reached a cutoff, and nothing else blocks.                              *)
BlocksWhenOver ==
  Decision # "allow" <=>
    \E c \in Cards : gpuLog[c] # <<>> /\ \E r \in Resources :
      LET v == Last(gpuLog[c])[r]
      IN v # Unknown /\ HookCutoff(r) # Unset /\ v >= HookCutoff(r)

(* "Clamp to sane bounds so a bad env var can't disable the guard"         *)
(* (gpu_monitor.py): a card at 95 degrees blocks under every pair of       *)
(* environments, and it is named as the reason.                            *)
GuardCannotBeDisabled ==
  (\E c \in Cards : gpuLog[c] # <<>> /\ Last(gpuLog[c])["temperature"] >= 95)
    => Decision = "temperature"

(* The hook as a whole: it blocks on a card that is over and on nothing    *)
(* else, and no value of the environment turns it off.                     *)
HookHolds == BlocksWhenOver /\ GuardCannotBeDisabled

(* A stop ends the poller, even with nvidia-smi hanging.                   *)
PollerStops == stopping ~> poller = "off"

----------------------------------------------------------------------------
(* "Exits 0 otherwise (allow), including when ... the poller reports       *)
(* unavailable=true" (gpu/hook.py): a hook that runs after a failed poll   *)
(* allows.                                                                 *)
FallsOpen == [][hookSaid' # hookSaid /\ down => hookSaid' = "allow"]_gpuVars
============================================================================
