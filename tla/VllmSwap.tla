------------------------------ MODULE VllmSwap ------------------------------
(***************************************************************************)
(* The model router (bff/services/model_router.py) and the swap-on-demand  *)
(* supervisor (ops/vllm_supervisor.sh) that share one GPU.                 *)
(*                                                                         *)
(* A request asks for a role.  If the vLLM container of the role does not  *)
(* answer, the router starts `supervisor ensure <role>` and waits for it,  *)
(* but only VLLM_SUPERVISOR_REQUEST_CAP seconds: the supervisor goes on by *)
(* itself, and the router's lock is free for the next request.  The        *)
(* supervisors themselves take no lock: they meet in docker, in the card's *)
(* memory and in the Ollama service they stop.                             *)
(*                                                                         *)
(* A supervisor is named by the request that started it.  Docker, the vLLM *)
(* engine and Ollama are external: Loaded, Refused and Crash.  Nothing     *)
(* restarts Ollama here: an operator does (scripts/start-host-services.sh).*)
(***************************************************************************)
EXTENDS Integers, Sequences, SequencesExt

CONSTANTS
  MaxRequests,    \* bound: calls of route_by_role, named in the order they arrive
  Asks,           \* the pairs of a role and a backend_id (or "none") that are used
  MaxFaults       \* bound: failed spawns, polls and launches, dead engines

ASSUME BoundsAssumption == MaxRequests \in Nat /\ MaxFaults \in Nat

Requests == 1 .. MaxRequests

NoRequest == 0      \* nobody holds the lock
Roles == {"coder", "planner"}
Other(r) == IF r = "coder" THEN "planner" ELSE "coder"

ASSUME AsksNameRoles == \A ask \in Asks : ask[1] \in Roles

VARIABLES
  container,      \* role -> "absent", "loading" or "serving"
  ollama,         \* the Ollama service answers (and may hold memory)
  role, pin, pc,  \* of each request; pc is where route_by_role stands
  holder,         \* role -> the holder of its asyncio.Lock
  waiters,        \* role -> those who wait for the lock, first come first served
  job,            \* request -> where the supervisor it started stands
  faults,
  overlapped      \* history: supervisors of both roles have run at once

vars == <<container, ollama, role, pin, pc, holder, waiters, job, faults,
          overlapped>>
requestVars == <<role, pin>>
lockVars == <<holder, waiters>>
hostVars == <<container, ollama, job, overlapped>>

Ended == {"vllm", "ollama", "refused"}
JobEnded == {"ok", "failed"}
Running(q) == job[q] \notin JobEnded \cup {"none"}

Init ==
  /\ container = [r \in Roles |-> "absent"]
  /\ ollama = TRUE
  /\ role = [q \in Requests |-> "coder"]
  /\ pin = [q \in Requests |-> "none"]
  /\ pc = [q \in Requests |-> "new"]
  /\ holder = [r \in Roles |-> NoRequest]
  /\ waiters = [r \in Roles |-> <<>>]
  /\ job = [q \in Requests |-> "none"]
  /\ faults = 0
  /\ overlapped = FALSE

Goto(q, l) == pc' = [pc EXCEPT ![q] = l]

-----------------------------------------------------------------------------
(* route_by_role *)

\* The pin is checked first: a vLLM pin must name the role, a pin on Ollama
\* skips the probe and the swap.
PinLegal(r, p) == p \in {"none", "ollama"} \/ (p = "vllm-coder" /\ r = "coder")
                                           \/ (p = "vllm-planner" /\ r = "planner")
\* The first probe (_vllm_role_health) is read as the request arrives.
Arrive(q) ==
  /\ pc[q] = "new" /\ \A p \in 1 .. q - 1 : pc[p] # "new"
  /\ \E ask \in Asks : LET r == ask[1] p == ask[2] IN
       /\ role' = [role EXCEPT ![q] = r]
       /\ pin' = [pin EXCEPT ![q] = p]
       /\ Goto(q, CASE ~PinLegal(r, p) -> "refused"
                    [] p = "ollama" -> "fallback"
                    [] OTHER -> IF container[r] = "serving" THEN "vllm" ELSE "ensure")
  /\ UNCHANGED <<lockVars, hostVars, faults>>

\* A planner has no Ollama model; a pin on vLLM forbids the fallback.
MayFallBack(q) == role[q] = "coder" /\ pin[q] \in {"none", "ollama"} /\ ollama
\* Mutated: returns None where it should raise.
FallbackSilent(q) ==
  /\ pc[q] = "fallback"
  /\ Goto(q, IF MayFallBack(q) THEN "ollama" ELSE "none")
  /\ UNCHANGED <<requestVars, lockVars, hostVars, faults>>
Fallback(q) ==
  /\ pc[q] = "fallback"
  /\ Goto(q, IF MayFallBack(q) THEN "ollama" ELSE "refused")
  /\ UNCHANGED <<requestVars, lockVars, hostVars, faults>>

-----------------------------------------------------------------------------
(* _supervisor_ensure *)

\* Starts the supervisor, or fails to.
Spawn(q) ==
  \/ /\ job' = [job EXCEPT ![q] = "check"]
     /\ overlapped' = (overlapped \/ \E p \in Requests : Running(p) /\ role[p] # role[q])
     /\ Goto(q, "awaiting")
     /\ holder' = [holder EXCEPT ![role[q]] = q]
     /\ UNCHANGED faults
  \/ /\ faults < MaxFaults
     /\ faults' = faults + 1
     /\ holder' = [holder EXCEPT ![role[q]] = NoRequest]
     /\ Goto(q, "fallback")
     /\ UNCHANGED <<job, overlapped>>

\* Mutated: no lock.
EnsureAlone(q) ==
  /\ pc[q] = "ensure"
  /\ Spawn(q)
  /\ UNCHANGED <<requestVars, waiters, container, ollama>>

\* Held: wait for the lock, with the cap.  Free but promised to a waiter:
\* `async with` queues behind it, with no cap.  Free: start the supervisor.
Ensure(q) ==
  /\ pc[q] = "ensure"
  /\ LET r == role[q] IN
     \/ /\ holder[r] # NoRequest \/ waiters[r] # <<>>
        /\ waiters' = [waiters EXCEPT ![r] = Append(@, q)]
        /\ Goto(q, IF holder[r] # NoRequest THEN "coalesced" ELSE "queued")
        /\ UNCHANGED <<holder, job, overlapped, faults>>
     \/ /\ holder[r] = NoRequest
        /\ waiters[r] = <<>>
        /\ Spawn(q)
        /\ UNCHANGED waiters
  /\ UNCHANGED <<requestVars, container, ollama>>

First(q) == LET r == role[q] IN
            holder[r] = NoRequest /\ waiters[r] # <<>> /\ Head(waiters[r]) = q

\* A request that found the lock held does not start a supervisor of its own.
GrantCoalesced(q) ==
  /\ pc[q] = "coalesced"
  /\ First(q)
  /\ holder' = [holder EXCEPT ![role[q]] = q]
  /\ waiters' = [waiters EXCEPT ![role[q]] = Tail(@)]
  /\ Goto(q, "trusting")
  /\ UNCHANGED <<requestVars, hostVars, faults>>

GrantQueued(q) ==
  /\ pc[q] = "queued"
  /\ First(q)
  /\ waiters' = [waiters EXCEPT ![role[q]] = Tail(@)]
  /\ Spawn(q)
  /\ UNCHANGED <<requestVars, container, ollama>>

LockCap(q) ==
  /\ pc[q] = "coalesced"
  /\ holder[role[q]] # NoRequest
  /\ \E i \in DOMAIN waiters[role[q]] :
       /\ waiters[role[q]][i] = q
       /\ waiters' = [waiters EXCEPT ![role[q]] = RemoveAt(@, i)]
  /\ Goto(q, "fallback")
  /\ UNCHANGED <<requestVars, holder, hostVars, faults>>

\* Mutated: no `finally: lock.release()`.
TrustProbeLeaks(q) ==
  /\ pc[q] = "trusting"
  /\ Goto(q, IF container[role[q]] = "serving" THEN "vllm" ELSE "fallback")
  /\ UNCHANGED <<requestVars, lockVars, hostVars, faults>>

\* Its own probe, and after it the second probe of route_by_role, are one step.
TrustProbe(q) ==
  /\ pc[q] = "trusting"
  /\ holder' = [holder EXCEPT ![role[q]] = NoRequest]
  /\ Goto(q, IF container[role[q]] = "serving" THEN "vllm" ELSE "fallback")
  /\ UNCHANGED <<requestVars, waiters, hostVars, faults>>

\* The supervisor has ended in time: route_by_role believes it and probes again.
Awaited(q) ==
  /\ pc[q] = "awaiting"
  /\ job[q] \in JobEnded
  /\ holder' = [holder EXCEPT ![role[q]] = NoRequest]
  /\ Goto(q, IF job[q] = "ok" /\ container[role[q]] = "serving" THEN "vllm" ELSE "fallback")
  /\ job' = [job EXCEPT ![q] = "none"]
  /\ UNCHANGED <<requestVars, waiters, container, ollama, overlapped, faults>>

\* wait_for times out: the supervisor is left alone and the lock released.
Cap(q) ==
  /\ pc[q] = "awaiting"
  /\ Running(q)
  /\ holder' = [holder EXCEPT ![role[q]] = NoRequest]
  /\ Goto(q, "fallback")
  /\ UNCHANGED <<requestVars, waiters, hostVars, faults>>

-----------------------------------------------------------------------------
(* ops/vllm_supervisor.sh *)

\* The exit code of a supervisor that nobody waits for any more is lost.
JobGoto(q, l) ==
  job' = [job EXCEPT ![q] = IF l \in JobEnded /\ pc[q] # "awaiting" THEN "none" ELSE l]
OnlyLive(r) == container[r] = "serving" /\ container[Other(r)] # "serving"

\* cmd_ensure
Check(q) ==
  /\ job[q] = "check"
  /\ JobGoto(q, IF OnlyLive(role[q]) THEN "ok" ELSE "clear")
  /\ UNCHANGED <<container, ollama, faults>>

\* Mutated: the other role is left alone.
ClearOwn(q) ==
  /\ job[q] = "clear"
  /\ container' = [container EXCEPT ![role[q]] = "absent"]
  /\ ollama' = FALSE
  /\ JobGoto(q, "vram")
  /\ UNCHANGED faults

\* Mutated: Ollama is left to the launcher.
ClearNotOllama(q) ==
  /\ job[q] = "clear"
  /\ container' = [r \in Roles |-> "absent"]
  /\ JobGoto(q, "vram")
  /\ UNCHANGED <<ollama, faults>>

\* cmd_up stops the other role, its own (_stop_role: docker rm -f) and Ollama
\* (_stop_ollama).  One step: what another actor does between them has the same
\* outcome before the first or after the last.
ClearCard(q) ==
  /\ job[q] = "clear"
  /\ container' = [r \in Roles |-> "absent"]
  /\ ollama' = FALSE
  /\ JobGoto(q, "vram")
  /\ UNCHANGED faults

\* _free_gpu_for_vllm polls the free memory, and gives up in the end; when
\* nvidia-smi says nothing it goes on.
CardFree == ~ollama /\ \A r \in Roles : container[r] = "absent"
PollVram(q) ==
  /\ job[q] = "vram"
  /\ \/ /\ JobGoto(q, IF CardFree THEN "launch" ELSE "failed")
        /\ UNCHANGED faults
     \/ /\ faults < MaxFaults
        /\ faults' = faults + 1
        /\ JobGoto(q, "launch")
  /\ UNCHANGED <<container, ollama>>

\* _launch: the launcher removes a container of its name and runs a new one.
Launch(q) ==
  /\ job[q] = "launch"
  /\ \/ /\ container' = [container EXCEPT ![role[q]] = "loading"]
        /\ JobGoto(q, "wait")
        /\ UNCHANGED faults
     \/ /\ faults < MaxFaults
        /\ faults' = faults + 1
        /\ container' = [container EXCEPT ![role[q]] = "absent"]
        /\ JobGoto(q, "failed")
  /\ UNCHANGED ollama

\* _wait_ready: the role answers, or READY_TIMEOUT passes.
WaitReady(q) ==
  /\ job[q] = "wait"
  /\ JobGoto(q, IF container[role[q]] = "serving" THEN "ok" ELSE "failed")
  /\ UNCHANGED <<container, ollama, faults>>

Supervise(q) ==
  /\ Check(q) \/ ClearCard(q) \/ PollVram(q) \/ Launch(q) \/ WaitReady(q)
  /\ UNCHANGED <<requestVars, pc, lockVars, overlapped>>

-----------------------------------------------------------------------------
(* The engines *)

\* An engine that finds the card's memory free loads its weights; one that
\* does not exits ("Free memory on device ... is less than desired").
Loaded(r) ==
  /\ container[r] = "loading"
  /\ container[Other(r)] # "serving"
  /\ ~ollama
  /\ container' = [container EXCEPT ![r] = "serving"]
  /\ UNCHANGED <<ollama, faults>>

Refused(r) ==
  /\ container[r] = "loading"
  /\ container[Other(r)] # "absent" \/ ollama
  /\ container' = [container EXCEPT ![r] = "absent"]
  /\ UNCHANGED <<ollama, faults>>

Crash(r) ==
  /\ faults < MaxFaults
  /\ container[r] # "absent"
  /\ faults' = faults + 1
  /\ container' = [container EXCEPT ![r] = "absent"]
  /\ UNCHANGED ollama

Engine(r) == Loaded(r) \/ Refused(r)
EngineStep(A) == A /\ UNCHANGED <<requestVars, pc, lockVars, job, overlapped>>

-----------------------------------------------------------------------------
RouterStep(q) ==
  \/ Fallback(q)
  \/ Ensure(q) \/ GrantCoalesced(q) \/ GrantQueued(q) \/ LockCap(q) \/ TrustProbe(q)
  \/ Awaited(q) \/ Cap(q)

Progress ==
  \/ \E q \in Requests : RouterStep(q) \/ Supervise(q)
  \/ \E r \in Roles : EngineStep(Engine(r))

Next ==
  \/ \E q \in Requests : Arrive(q)
  \/ Progress
  \/ \E r \in Roles : EngineStep(Crash(r))

Spec == Init /\ [][Next]_vars

\* The event loop and its timers run, a supervisor's loops are all bounded, and an
\* engine either loads or exits.  Nothing goes in circles, so it is enough that
\* the system as a whole goes on.
FairSpec == Spec /\ WF_vars(Progress)

-----------------------------------------------------------------------------
TypeOK ==
  /\ container \in [Roles -> {"absent", "loading", "serving"}]
  /\ ollama \in BOOLEAN
  /\ role \in [Requests -> Roles]
  /\ pin \in [Requests -> {"none"} \cup {ask[2] : ask \in Asks}]
  /\ pc \in [Requests -> {"new", "ensure", "coalesced", "queued", "trusting",
                          "awaiting", "fallback"} \cup Ended]
  /\ holder \in [Roles -> Requests \cup {NoRequest}]
  /\ waiters \in [Roles -> Seq(Requests)]
  /\ job \in [Requests -> {"none", "check", "clear", "vram", "launch", "wait"} \cup JobEnded]
  /\ faults \in 0 .. MaxFaults
  /\ overlapped \in BOOLEAN

\* "3 parallel self-eval tasks each spawn their own vllm_supervisor.sh
\* subprocess and race against the same GPU": two supervisors of one role run at
\* once only if the wait of one of them has been cut by the cap.
Coalesced ==
  \A p, q \in Requests :
    (p # q /\ role[p] = role[q] /\ Running(p) /\ Running(q))
      => (pc[p] # "awaiting" \/ pc[q] # "awaiting")

\* The topology of ADR-009 section 3a, one role resident at a time, as far as
\* the supervisor keeps it: it holds until supervisors of both roles overlap.
OneRoleResident ==
  ~overlapped => \E r \in Roles : container[r] = "absent"

\* The supervisors as a whole: coalesced per role, and one role on the card.
SwapsHold == TypeOK /\ Coalesced /\ OneRoleResident

\* Every request is answered, whatever the supervisors do: the caps and the lock
\* wedge nobody ("a broken coder container wedges every POST /api/runs").
EveryRequestAnswered ==
  []<>(\A q \in Requests : pc[q] \in Ended \cup {"new"})

\* If only one role is asked for and nothing fails, the role comes up once the
\* requests stop, although each new supervisor removes the container that an
\* abandoned one is loading, and none of them retries.
Settled(r) ==
  /\ \A q \in Requests : pc[q] # "new" /\ (pin[q] = "ollama" \/ role[q] = r)
  /\ \E q \in Requests : pin[q] # "ollama"
SoleRoleComesUp ==
  <>[](\A r \in Roles : Settled(r) => container[r] = "serving" \/ faults > 0)

\* What the comment on VLLM_SUPERVISOR_REQUEST_CAP promises of a
\* host where Ollama answers: a coder request whose wait for the supervisor is cut
\* degrades to Ollama and is not refused.
CapDegradesToOllama ==
  ~ \E q \in Requests :
      role[q] = "coder" /\ pin[q] = "none" /\ pc[q] = "refused" /\ Running(q)
=============================================================================
