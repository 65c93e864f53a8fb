--------------------------- MODULE VllmSwap_proofs ---------------------------
(***************************************************************************)
(* Proofs about VllmSwap, for any number of requests, any roles and pins   *)
(* they ask for, and any number of faults: supervisors of a role are       *)
(* coalesced, and one role is on the card until supervisors of both have   *)
(* run at once.  Coalesced follows from the lock alone, whose holder is    *)
(* the request that waits; OneRoleResident from what a supervisor that is  *)
(* past the clearing of the card may rely on.                              *)
(***************************************************************************)
EXTENDS VllmSwap, SequenceTheorems, TLAPS

\* Who waits for a supervisor, or probes on behalf of one, holds the lock of its role.
LockIsHeld ==
  \A q \in Requests : pc[q] \in {"awaiting", "trusting"} => holder[role[q]] = q

\* A request starts its supervisor after it has arrived.
NewHasNoJob == \A q \in Requests : pc[q] = "new" => ~Running(q)

\* Until they overlap, all supervisors that run are of one role.
OneRoleSupervised ==
  ~overlapped => \A p, q \in Requests : Running(p) /\ Running(q) => role[p] = role[q]

\* The supervisor has cleared the card and not yet ended.
PastClear(q) == job[q] \in {"vram", "launch", "wait"}

\* Until they overlap, the other role stays off the card once it has been cleared.
OtherIsCleared ==
  ~overlapped => \A q \in Requests : PastClear(q) => container[Other(role[q])] = "absent"

-----------------------------------------------------------------------------
(***************************************************************************)
(* Roles, the queue and the supervisors' places.                           *)
(***************************************************************************)

\* There are two roles.
LEMMA TheOther ==
  ASSUME NEW r \in Roles
  PROVE  Other(r) \in Roles /\ Other(r) # r /\ \A s \in Roles : s = r \/ s = Other(r)
  BY DEF Roles, Other

\* A waiter that leaves the queue leaves a queue.
LEMMA RemovedFromQueue ==
  ASSUME NEW S, NEW w \in Seq(S), NEW i \in DOMAIN w
  PROVE  RemoveAt(w, i) \in Seq(S)
<1>1. Len(w) \in Nat /\ DOMAIN w = 1..Len(w)
  BY LenProperties
<1>2. i \in 1..Len(w)
  BY <1>1
<1>3. /\ 1 \in Int /\ i - 1 \in Int /\ i + 1 \in Int /\ Len(w) \in Int
      /\ \A j \in 1..i - 1 : w[j] \in S
      /\ \A j \in i + 1..Len(w) : w[j] \in S
  BY <1>1, <1>2, ElementOfSeq
<1>4. SubSeq(w, 1, i - 1) \in Seq(S) /\ SubSeq(w, i + 1, Len(w)) \in Seq(S)
  BY <1>3, SubSeqProperties
<1> QED
  BY <1>4, ConcatProperties DEF RemoveAt

\* Past the clearing of the card a supervisor is still running.
LEMMA PastClearRuns ==
  ASSUME NEW q \in Requests
  PROVE  PastClear(q) => Running(q)
  BY DEF PastClear, Running, JobEnded

\* The facts about the card, as one.
CardInv == NewHasNoJob /\ OneRoleSupervised /\ OtherIsCleared /\ OneRoleResident

\* They survive a step that starts no supervisor, lets none past the clearing, changes no
\* role of one that runs, and brings no container up.
LEMMA CardQuiet ==
  ASSUME TypeOK, CardInv, UNCHANGED overlapped,
         \A q \in Requests : Running(q) => role'[q] = role[q] /\ pc'[q] # "new",
         \A q \in Requests : Running(q)' => Running(q),
         \A q \in Requests : PastClear(q)' => PastClear(q),
         \A r \in Roles : container[r] = "absent" => container'[r] = "absent"
  PROVE  CardInv'
<1>1. role \in [Requests -> Roles]
  BY DEF TypeOK
<1>2. NewHasNoJob'
  BY DEF NewHasNoJob
<1>3. OneRoleSupervised'
  BY DEF CardInv, OneRoleSupervised
<1>4. OtherIsCleared'
  <2> SUFFICES ASSUME ~overlapped, NEW q \in Requests, PastClear(q)'
               PROVE  container'[Other(role'[q])] = "absent"
    BY DEF OtherIsCleared
  <2>1. PastClear(q) /\ role'[q] = role[q] /\ role[q] \in Roles
    BY <1>1, PastClearRuns
  <2> QED
    BY <2>1, TheOther DEF CardInv, OtherIsCleared
<1>5. OneRoleResident'
  BY DEF CardInv, OneRoleResident
<1> QED
  BY <1>2, <1>3, <1>4, <1>5 DEF CardInv

\* Whatever a step of the router does to the lock is well if its owner is the holder before
\* and after, or gives it up.
LEMMA LockPasses ==
  ASSUME TypeOK, LockIsHeld, NEW q \in Requests, role' = role,
         \A p \in Requests : p # q => pc'[p] = pc[p],
         holder[role[q]] \in {NoRequest, q},
         holder' = holder \/ \E h \in {q, NoRequest} : holder' = [holder EXCEPT ![role[q]] = h],
         pc'[q] \in {"awaiting", "trusting"} => holder'[role[q]] = q
  PROVE  LockIsHeld'
<1> SUFFICES ASSUME NEW p \in Requests, pc'[p] \in {"awaiting", "trusting"}
             PROVE  holder'[role[p]] = p
  BY DEF LockIsHeld
<1>1. CASE p = q
  BY <1>1
<1>2. CASE p # q
  <2>1. holder[role[p]] = p
    BY <1>2 DEF LockIsHeld
  <2>2. role[p] # role[q]
    BY <1>2, <2>1 DEF NoRequest, Requests
  <2> QED
    BY <2>1, <2>2 DEF TypeOK
<1> QED
  BY <1>1, <1>2

-----------------------------------------------------------------------------
(***************************************************************************)
(* The invariant.                                                          *)
(***************************************************************************)

\* The invariant, without what follows from it.
IInv == TypeOK /\ LockIsHeld /\ CardInv

\* Two requests that wait for supervisors of one role would both hold its lock.
LEMMA LockCoalesces == LockIsHeld => Coalesced
  BY DEF LockIsHeld, Coalesced

\* It holds at the start.
LEMMA InvariantAtStart == Init => IInv
<1> SUFFICES ASSUME Init PROVE IInv
  OBVIOUS
<1>1. \A q \in Requests : pc[q] = "new" /\ job[q] = "none" /\ ~Running(q) /\ ~PastClear(q)
  BY DEF Init, Running, PastClear
<1>2. TypeOK
  <2>1. <<>> \in Seq(Requests)
    BY EmptySeq
  <2>2. MaxFaults \in Nat
    BY BoundsAssumption
  <2> QED
    <3>1. faults \in 0..MaxFaults
      BY <2>2 DEF Init
    <3>2. waiters \in [Roles -> Seq(Requests)]
      BY <2>1 DEF Init
    <3>3. "coder" \in Roles
      BY DEF Roles
    <3>4. /\ container \in [Roles -> {"absent", "loading", "serving"}]
          /\ pin \in [Requests -> {"none"} \cup {ask[2] : ask \in Asks}]
          /\ holder \in [Roles -> Requests \cup {NoRequest}]
      BY DEF Init
    <3> QED
      BY <3>1, <3>2, <3>3, <3>4 DEF Init, TypeOK
<1>3. LockIsHeld
  BY <1>1 DEF LockIsHeld
<1>4. OneRoleResident
  BY DEF Init, OneRoleResident, Roles
<1> QED
  BY <1>1, <1>2, <1>3, <1>4
  DEF IInv, CardInv, NewHasNoJob, OneRoleSupervised, OtherIsCleared

\* The arrival names the role of a request that has no supervisor yet.
LEMMA ArriveKeeps ==
  ASSUME IInv, NEW q \in Requests, Arrive(q)
  PROVE  IInv'
<1>1. TypeOK /\ LockIsHeld /\ CardInv
  BY DEF IInv
<1>2. PICK ask \in Asks :
        /\ role' = [role EXCEPT ![q] = ask[1]]
        /\ pin' = [pin EXCEPT ![q] = ask[2]]
        /\ Goto(q, CASE ~PinLegal(ask[1], ask[2]) -> "refused"
                     [] ask[2] = "ollama" -> "fallback"
                     [] OTHER -> IF container[ask[1]] = "serving" THEN "vllm" ELSE "ensure")
  BY DEF Arrive
<1>3. /\ \E l \in {"refused", "fallback", "vllm", "ensure"} : pc' = [pc EXCEPT ![q] = l]
      /\ UNCHANGED <<container, ollama, holder, waiters, job, faults, overlapped>>
      /\ pc[q] = "new"
  BY <1>2 DEF Arrive, Goto, lockVars, hostVars
<1>4. TypeOK'
  <2>1. ask[1] \in Roles
    BY AsksNameRoles
  <2> QED
    BY <1>1, <1>2, <1>3, <2>1 DEF TypeOK, Ended
<1>5. /\ pc'[q] \notin {"new", "awaiting", "trusting"}
      /\ \A p \in Requests : p # q => pc'[p] = pc[p] /\ role'[p] = role[p]
  BY <1>1, <1>2, <1>3 DEF TypeOK
<1>6. LockIsHeld'
  BY <1>1, <1>3, <1>5 DEF LockIsHeld
<1>7. CardInv'
  <2>1. ~Running(q)
    BY <1>1, <1>3 DEF CardInv, NewHasNoJob
  <2>2. \A p \in Requests : Running(p) => role'[p] = role[p] /\ pc'[p] # "new"
    BY <1>1, <1>5, <2>1 DEF CardInv, NewHasNoJob
  <2> QED
    BY <1>1, <1>3, <2>2, CardQuiet DEF Running, PastClear
<1> QED
  BY <1>4, <1>6, <1>7 DEF IInv

\* A step of a request that has arrived, that starts no supervisor and ends at most its own:
\* it may take the lock when it is free, and give it up when it holds it.
LEMMA RouterQuiet ==
  ASSUME IInv, NEW q \in Requests, TypeOK', pc[q] # "new",
         \E l \in {"vllm", "ollama", "refused", "fallback", "coalesced", "queued", "trusting"} :
            pc' = [pc EXCEPT ![q] = l],
         job' = job \/ job' = [job EXCEPT ![q] = "none"],
         UNCHANGED <<role, container, overlapped>>,
         \/ holder' = holder /\ pc'[q] # "trusting"
         \/ holder[role[q]] = NoRequest /\ holder' = [holder EXCEPT ![role[q]] = q]
         \/ holder[role[q]] = q /\ holder' = [holder EXCEPT ![role[q]] = NoRequest]
                                /\ pc'[q] # "trusting"
  PROVE  IInv'
<1>1. TypeOK /\ LockIsHeld /\ CardInv
  BY DEF IInv
<1>2. pc'[q] \notin {"new", "awaiting"} /\ \A p \in Requests : p # q => pc'[p] = pc[p]
  BY <1>1 DEF TypeOK
<1>3. LockIsHeld'
  <2>1. CASE holder' = holder /\ pc'[q] # "trusting"
    BY <1>1, <1>2, <2>1 DEF LockIsHeld
  <2>2. CASE holder[role[q]] = NoRequest /\ holder' = [holder EXCEPT ![role[q]] = q]
    <3>1. holder'[role[q]] = q
      BY <1>1, <2>2 DEF TypeOK
    <3> QED
      BY <1>1, <1>2, <2>2, <3>1, LockPasses
  <2>3. CASE holder[role[q]] = q /\ holder' = [holder EXCEPT ![role[q]] = NoRequest]
                                 /\ pc'[q] # "trusting"
    BY <1>1, <1>2, <2>3, LockPasses
  <2> QED
    BY <2>1, <2>2, <2>3
<1>4. CardInv'
  <2>1. \A p \in Requests : job'[p] = job[p] \/ job'[p] = "none"
    BY <1>1 DEF TypeOK
  <2>2. \A p \in Requests : (Running(p)' => Running(p)) /\ (PastClear(p)' => PastClear(p))
    BY <2>1 DEF Running, PastClear
  <2>3. \A p \in Requests : Running(p) => pc'[p] # "new"
    BY <1>1, <1>2 DEF CardInv, NewHasNoJob
  <2> QED
    BY <1>1, <2>2, <2>3, CardQuiet
<1> QED
  BY <1>3, <1>4 DEF IInv

\* A request that starts its supervisor takes the lock, which is free, for as long as it
\* waits; the supervisor of another role that runs makes them overlap.
LEMMA SpawnKeeps ==
  ASSUME IInv, NEW q \in Requests, Spawn(q), pc[q] # "new", holder[role[q]] = NoRequest,
         waiters' \in [Roles -> Seq(Requests)], UNCHANGED <<requestVars, container, ollama>>
  PROVE  IInv'
<1>1. TypeOK /\ LockIsHeld /\ CardInv /\ MaxFaults \in Nat
  BY BoundsAssumption DEF IInv
<1>2. UNCHANGED <<role, pin, container, ollama>>
  BY DEF requestVars
<1>3. CASE /\ job' = [job EXCEPT ![q] = "check"]
           /\ overlapped' = (overlapped \/ \E p \in Requests : Running(p) /\ role[p] # role[q])
           /\ pc' = [pc EXCEPT ![q] = "awaiting"]
           /\ holder' = [holder EXCEPT ![role[q]] = q]
           /\ UNCHANGED faults
  <2>1. TypeOK'
    BY <1>1, <1>2, <1>3 DEF TypeOK
  <2>2. LockIsHeld'
    <3>1. holder'[role[q]] = q
      BY <1>1, <1>3 DEF TypeOK
    <3>2. \A p \in Requests : p # q => pc'[p] = pc[p]
      BY <1>1, <1>3 DEF TypeOK
    <3> QED
      BY <1>1, <1>2, <1>3, <3>1, <3>2, LockPasses
  <2>3. /\ pc'[q] = "awaiting" /\ job'[q] = "check"
        /\ \A p \in Requests : p # q => pc'[p] = pc[p] /\ job'[p] = job[p]
    BY <1>1, <1>3 DEF TypeOK
  <2>4. /\ ~PastClear(q)'
        /\ \A p \in Requests : p # q => /\ Running(p)' = Running(p)
                                        /\ PastClear(p)' = PastClear(p)
    BY <2>3 DEF Running, PastClear
  <2>5. NewHasNoJob'
    BY <1>1, <2>3, <2>4 DEF CardInv, NewHasNoJob
  <2>6. OneRoleSupervised'
    <3> SUFFICES ASSUME ~overlapped', NEW p \in Requests, Running(p)'
                 PROVE  role[p] = role[q]
      BY <1>2 DEF OneRoleSupervised
    <3> QED
      BY <1>3, <2>4
  <2>7. OtherIsCleared'
    BY <1>1, <1>2, <1>3, <2>4 DEF CardInv, OtherIsCleared
  <2>8. OneRoleResident'
    BY <1>1, <1>2, <1>3 DEF CardInv, OneRoleResident
  <2> QED
    BY <2>1, <2>2, <2>5, <2>6, <2>7, <2>8 DEF IInv, CardInv
<1>4. CASE /\ faults < MaxFaults
           /\ faults' = faults + 1
           /\ holder' = [holder EXCEPT ![role[q]] = NoRequest]
           /\ pc' = [pc EXCEPT ![q] = "fallback"]
           /\ UNCHANGED <<job, overlapped>>
  <2>1. faults' \in 0..MaxFaults
    BY <1>1, <1>4 DEF TypeOK
  <2>2. TypeOK'
    BY <1>1, <1>2, <1>4, <2>1 DEF TypeOK
  <2>3. holder' = holder
    BY <1>1, <1>4 DEF TypeOK
  <2>4. pc'[q] # "trusting"
    BY <1>1, <1>4 DEF TypeOK
  <2> QED
    BY <1>2, <1>4, <2>2, <2>3, <2>4, RouterQuiet
<1> QED
  BY <1>3, <1>4 DEF Spawn, Goto

\* A request joins the queue, or starts its supervisor.
LEMMA EnsureKeeps ==
  ASSUME IInv, NEW q \in Requests, Ensure(q)
  PROVE  IInv'
<1>1. TypeOK /\ role[q] \in Roles /\ waiters[role[q]] \in Seq(Requests)
  BY DEF IInv, TypeOK
<1>2. CASE /\ holder[role[q]] = NoRequest
           /\ Spawn(q)
           /\ UNCHANGED waiters
  BY <1>1, <1>2, SpawnKeeps DEF Ensure, TypeOK
<1>3. CASE /\ waiters' = [waiters EXCEPT ![role[q]] = Append(@, q)]
           /\ Goto(q, IF holder[role[q]] # NoRequest THEN "coalesced" ELSE "queued")
           /\ UNCHANGED <<holder, job, overlapped, faults>>
  <2>1. Append(waiters[role[q]], q) \in Seq(Requests)
    BY <1>1, AppendProperties
  <2>2. TypeOK'
    BY <1>1, <1>3, <2>1 DEF Ensure, Goto, requestVars, TypeOK
  <2>3. /\ pc[q] # "new" /\ pc'[q] # "trusting"
        /\ \E l \in {"coalesced", "queued"} : pc' = [pc EXCEPT ![q] = l]
    BY <1>1, <1>3 DEF Ensure, Goto, TypeOK
  <2> QED
    BY <1>3, <2>2, <2>3, RouterQuiet DEF Ensure, requestVars
<1> QED
  BY <1>2, <1>3 DEF Ensure

\* The first of the queue leaves it.
LEMMA FirstLeaves ==
  ASSUME TypeOK, NEW q \in Requests, First(q)
  PROVE  /\ holder[role[q]] = NoRequest
         /\ [waiters EXCEPT ![role[q]] = Tail(@)] \in [Roles -> Seq(Requests)]
<1>1. role[q] \in Roles /\ waiters[role[q]] \in Seq(Requests) /\ waiters[role[q]] # <<>>
  BY DEF TypeOK, First
<1>2. Tail(waiters[role[q]]) \in Seq(Requests)
  BY <1>1, HeadTailProperties
<1> QED
  BY <1>1, <1>2 DEF TypeOK, First

\* A request that was coalesced takes the lock without a supervisor of its own.
LEMMA GrantCoalescedKeeps ==
  ASSUME IInv, NEW q \in Requests, GrantCoalesced(q)
  PROVE  IInv'
<1>1. TypeOK
  BY DEF IInv
<1>2. /\ pc[q] = "coalesced" /\ First(q)
      /\ holder' = [holder EXCEPT ![role[q]] = q]
      /\ waiters' = [waiters EXCEPT ![role[q]] = Tail(@)]
      /\ pc' = [pc EXCEPT ![q] = "trusting"]
      /\ UNCHANGED <<role, pin, container, ollama, job, overlapped, faults>>
  BY DEF GrantCoalesced, Goto, requestVars, hostVars
<1>3. /\ holder[role[q]] = NoRequest
      /\ waiters' \in [Roles -> Seq(Requests)]
  BY <1>1, <1>2, FirstLeaves
<1>4. TypeOK'
  BY <1>1, <1>2, <1>3 DEF TypeOK
<1> QED
  BY <1>2, <1>3, <1>4, RouterQuiet

\* One that was only queued starts its supervisor when its turn comes.
LEMMA GrantQueuedKeeps ==
  ASSUME IInv, NEW q \in Requests, GrantQueued(q)
  PROVE  IInv'
<1>1. TypeOK
  BY DEF IInv
<1>2. pc[q] = "queued" /\ First(q) /\ waiters' = [waiters EXCEPT ![role[q]] = Tail(@)]
  BY DEF GrantQueued
<1>3. holder[role[q]] = NoRequest /\ waiters' \in [Roles -> Seq(Requests)]
  BY <1>1, <1>2, FirstLeaves
<1> QED
  BY <1>2, <1>3, SpawnKeeps DEF GrantQueued

\* The cap takes a request out of the queue.
LEMMA LockCapKeeps ==
  ASSUME IInv, NEW q \in Requests, LockCap(q)
  PROVE  IInv'
<1>1. TypeOK /\ role[q] \in Roles /\ waiters[role[q]] \in Seq(Requests)
  BY DEF IInv, TypeOK
<1>2. PICK i \in DOMAIN waiters[role[q]] :
        waiters' = [waiters EXCEPT ![role[q]] = RemoveAt(waiters[role[q]], i)]
  BY DEF LockCap
<1>3. waiters' \in [Roles -> Seq(Requests)]
  BY <1>1, <1>2, RemovedFromQueue DEF TypeOK
<1>4. /\ pc[q] = "coalesced" /\ pc' = [pc EXCEPT ![q] = "fallback"]
      /\ UNCHANGED <<role, pin, container, ollama, holder, job, overlapped, faults>>
  BY DEF LockCap, Goto, requestVars, hostVars
<1>5. TypeOK' /\ pc'[q] # "trusting"
  BY <1>1, <1>3, <1>4 DEF TypeOK
<1> QED
  BY <1>4, <1>5, RouterQuiet

\* The probe of a coalesced request gives the lock up, whatever it says.
LEMMA TrustProbeKeeps ==
  ASSUME IInv, NEW q \in Requests, TrustProbe(q)
  PROVE  IInv'
<1>1. TypeOK /\ holder[role[q]] = q /\ pc[q] = "trusting"
  BY DEF IInv, TrustProbe, LockIsHeld
<1>2. /\ holder' = [holder EXCEPT ![role[q]] = NoRequest]
      /\ \E l \in {"vllm", "fallback"} : pc' = [pc EXCEPT ![q] = l]
      /\ UNCHANGED <<role, pin, container, ollama, waiters, job, overlapped, faults>>
  BY DEF TrustProbe, Goto, requestVars, hostVars
<1>3. TypeOK' /\ pc'[q] # "trusting"
  BY <1>1, <1>2 DEF TypeOK, Ended
<1> QED
  BY <1>1, <1>2, <1>3, RouterQuiet

\* So does the end of the wait, by the supervisor's or by the cap's.
LEMMA AwaitedKeeps ==
  ASSUME IInv, NEW q \in Requests, Awaited(q) \/ Cap(q)
  PROVE  IInv'
<1>1. TypeOK /\ holder[role[q]] = q /\ pc[q] = "awaiting"
  BY DEF IInv, Awaited, Cap, LockIsHeld
<1>2. /\ holder' = [holder EXCEPT ![role[q]] = NoRequest]
      /\ \E l \in {"vllm", "fallback"} : pc' = [pc EXCEPT ![q] = l]
      /\ job' = job \/ job' = [job EXCEPT ![q] = "none"]
      /\ UNCHANGED <<role, pin, container, ollama, waiters, overlapped, faults>>
  BY DEF Awaited, Cap, Goto, requestVars, hostVars
<1>3. TypeOK' /\ pc'[q] # "trusting"
  BY <1>1, <1>2 DEF TypeOK, Ended
<1> QED
  BY <1>1, <1>2, <1>3, RouterQuiet

\* The fallback keeps the lock out of it.
LEMMA FallbackKeeps ==
  ASSUME IInv, NEW q \in Requests, Fallback(q)
  PROVE  IInv'
<1>1. TypeOK
  BY DEF IInv
<1>2. /\ pc[q] = "fallback"
      /\ \E l \in {"ollama", "refused"} : pc' = [pc EXCEPT ![q] = l]
      /\ UNCHANGED <<role, pin, container, ollama, holder, waiters, job, overlapped, faults>>
  BY DEF Fallback, Goto, requestVars, lockVars, hostVars
<1>3. TypeOK' /\ pc'[q] # "trusting"
  BY <1>1, <1>2 DEF TypeOK, Ended
<1> QED
  BY <1>2, <1>3, RouterQuiet

-----------------------------------------------------------------------------
(* The supervisors and the engines.                                        *)

\* Where a supervisor goes, and what that means to the facts about the others.
LEMMA JobMoves ==
  ASSUME TypeOK, NEW q \in Requests, Running(q),
         NEW l \in {"ok", "failed", "clear", "vram", "launch", "wait"}, JobGoto(q, l)
  PROVE  /\ job' \in [Requests ->
                        {"none", "check", "clear", "vram", "launch", "wait"} \cup JobEnded]
         /\ \A p \in Requests : p # q => job'[p] = job[p]
         /\ PastClear(q)' => l \in {"vram", "launch", "wait"}
         /\ \A p \in Requests : Running(p)' => Running(p)
         /\ \A p \in Requests : p # q => (PastClear(p)' <=> PastClear(p))
<1>1. \E m \in {"none", l} : job' = [job EXCEPT ![q] = m]
  BY DEF JobGoto
<1>2. /\ job' \in [Requests -> {"none", "check", "clear", "vram", "launch", "wait"} \cup JobEnded]
      /\ \A p \in Requests : p # q => job'[p] = job[p]
      /\ job'[q] \in {"none", l}
  BY <1>1 DEF TypeOK, JobEnded
<1> QED
  BY <1>2 DEF PastClear, Running

\* What a step of a supervisor is: it moves on, counts its faults, and clears the card or
\* changes the container of its own role, once it is past clearing.
LEMMA SuperviseIs ==
  ASSUME IInv, NEW q \in Requests, Supervise(q)
  PROVE  /\ Running(q)
         /\ \E l \in {"ok", "failed", "clear", "vram", "launch", "wait"} :
              /\ JobGoto(q, l)
              /\ l \in {"vram", "launch", "wait"} =>
                   PastClear(q) \/ (\A r \in Roles : container'[r] = "absent")
         /\ container' \in [Roles -> {"absent", "loading", "serving"}]
         /\ \/ \A r \in Roles : container[r] = "absent" => container'[r] = "absent"
            \/ PastClear(q) /\ container'[Other(role[q])] = container[Other(role[q])]
         /\ ollama' \in BOOLEAN /\ faults' \in 0..MaxFaults
         /\ UNCHANGED <<role, pin, pc, holder, waiters, overlapped>>
<1>1. TypeOK /\ MaxFaults \in Nat /\ role[q] \in Roles
  BY BoundsAssumption DEF IInv, TypeOK
<1>2. UNCHANGED <<role, pin, pc, holder, waiters, overlapped>>
  BY DEF Supervise, requestVars, lockVars
<1>3. CASE Check(q)
  <2>1. Running(q) /\ UNCHANGED <<container, ollama, faults>>
    BY <1>3 DEF Check, Running, JobEnded
  <2>2. \E l \in {"ok", "clear"} : JobGoto(q, l)
    BY <1>3 DEF Check
  <2> QED
    BY <1>1, <1>2, <2>1, <2>2 DEF TypeOK
<1>4. CASE ClearCard(q)
  <2>1. Running(q) /\ container' = [r \in Roles |-> "absent"] /\ ollama' = FALSE /\ faults' = faults
    BY <1>4 DEF ClearCard, Running, JobEnded
  <2>2. JobGoto(q, "vram")
    BY <1>4 DEF ClearCard
  <2> QED
    BY <1>1, <1>2, <2>1, <2>2 DEF TypeOK
<1>5. CASE PollVram(q)
  <2>1. /\ Running(q) /\ PastClear(q) /\ UNCHANGED <<container, ollama>>
        /\ \E l \in {"launch", "failed"} : JobGoto(q, l)
    BY <1>5 DEF PollVram, Running, PastClear, JobEnded
  <2>2. faults' \in 0..MaxFaults
    BY <1>1, <1>5 DEF PollVram, TypeOK
  <2> QED
    BY <1>1, <1>2, <2>1, <2>2 DEF TypeOK
<1>6. CASE Launch(q)
  <2>1. /\ Running(q) /\ PastClear(q) /\ UNCHANGED ollama
        /\ \E l \in {"wait", "failed"} : JobGoto(q, l)
        /\ \E c \in {"loading", "absent"} : container' = [container EXCEPT ![role[q]] = c]
    BY <1>6 DEF Launch, Running, PastClear, JobEnded
  <2>2. faults' \in 0..MaxFaults
    BY <1>1, <1>6 DEF Launch, TypeOK
  <2>3. container' \in [Roles -> {"absent", "loading", "serving"}]
    BY <1>1, <2>1 DEF TypeOK
  <2>4. container'[Other(role[q])] = container[Other(role[q])]
    BY <1>1, <2>1, TheOther DEF TypeOK
  <2> QED
    BY <1>1, <1>2, <2>1, <2>2, <2>3, <2>4 DEF TypeOK
<1>7. CASE WaitReady(q)
  <2>1. /\ Running(q) /\ UNCHANGED <<container, ollama, faults>>
        /\ \E l \in {"ok", "failed"} : JobGoto(q, l)
    BY <1>7 DEF WaitReady, Running, JobEnded
  <2> QED
    BY <1>1, <1>2, <2>1 DEF TypeOK
<1> QED
  BY <1>3, <1>4, <1>5, <1>6, <1>7 DEF Supervise

\* A supervisor brings its own role up only with the other one cleared, and until the roles
\* overlap every other supervisor agrees on which is the other.
LEMMA SuperviseKeeps ==
  ASSUME IInv, NEW q \in Requests, Supervise(q)
  PROVE  IInv'
<1>1. TypeOK /\ LockIsHeld /\ CardInv
  BY DEF IInv
<1>2. /\ Running(q) /\ UNCHANGED <<role, pin, pc, holder, waiters, overlapped>>
      /\ container' \in [Roles -> {"absent", "loading", "serving"}]
      /\ ollama' \in BOOLEAN /\ faults' \in 0..MaxFaults
  BY SuperviseIs
<1>3. PICK l \in {"ok", "failed", "clear", "vram", "launch", "wait"} :
        /\ JobGoto(q, l)
        /\ l \in {"vram", "launch", "wait"} =>
             PastClear(q) \/ (\A r \in Roles : container'[r] = "absent")
  BY SuperviseIs
<1>4. /\ job' \in [Requests -> {"none", "check", "clear", "vram", "launch", "wait"} \cup JobEnded]
      /\ PastClear(q)' => l \in {"vram", "launch", "wait"}
      /\ \A p \in Requests : Running(p)' => Running(p)
      /\ \A p \in Requests : p # q => (PastClear(p)' <=> PastClear(p))
  BY <1>1, <1>2, <1>3, JobMoves
<1>5. TypeOK'
  BY <1>1, <1>2, <1>4 DEF TypeOK
<1>6. LockIsHeld'
  BY <1>1, <1>2 DEF LockIsHeld
<1>7. NewHasNoJob' /\ OneRoleSupervised'
  BY <1>1, <1>2, <1>4 DEF CardInv, NewHasNoJob, OneRoleSupervised
<1>8. OtherIsCleared' /\ OneRoleResident'
  <2>1. \A p \in Requests : role[p] \in Roles /\ Other(role[p]) \in Roles
    BY <1>1, TheOther DEF TypeOK
  <2>2. CASE overlapped
    BY <1>2, <2>2 DEF OtherIsCleared, OneRoleResident
  <2>3. CASE ~overlapped /\ \A r \in Roles : container[r] = "absent" => container'[r] = "absent"
    <3>1. \A p \in Requests :
            PastClear(p)' => PastClear(p) \/ \A r \in Roles : container'[r] = "absent"
      BY <1>3, <1>4
    <3>2. OtherIsCleared'
      BY <1>1, <1>2, <2>1, <2>3, <3>1 DEF CardInv, OtherIsCleared
    <3>3. OneRoleResident'
      BY <1>1, <1>2, <2>3 DEF CardInv, OneRoleResident
    <3> QED
      BY <3>2, <3>3
  <2>4. CASE ~overlapped /\ PastClear(q) /\ container'[Other(role[q])] = container[Other(role[q])]
    <3>1. container'[Other(role[q])] = "absent"
      BY <1>1, <2>4 DEF CardInv, OtherIsCleared
    <3>2. \A p \in Requests : PastClear(p)' => role[p] = role[q]
      BY <1>1, <1>2, <1>4, <2>4, PastClearRuns DEF CardInv, OneRoleSupervised
    <3> QED
      BY <1>2, <2>1, <3>1, <3>2 DEF OtherIsCleared, OneRoleResident
  <2> QED
    BY <2>2, <2>3, <2>4, SuperviseIs
<1> QED
  BY <1>5, <1>6, <1>7, <1>8 DEF IInv, CardInv

\* An engine comes up only where a container was.
LEMMA EngineKeeps ==
  ASSUME IInv, NEW r \in Roles, EngineStep(Engine(r)) \/ EngineStep(Crash(r))
  PROVE  IInv'
<1>1. TypeOK /\ LockIsHeld /\ CardInv /\ MaxFaults \in Nat
  BY BoundsAssumption DEF IInv
<1>2. /\ UNCHANGED <<role, pin, pc, holder, waiters, job, overlapped, ollama>>
      /\ container[r] # "absent"
      /\ \E c \in {"absent", "serving"} : container' = [container EXCEPT ![r] = c]
  BY DEF EngineStep, Engine, Loaded, Refused, Crash, requestVars, lockVars
<1>3. faults' \in 0..MaxFaults
  BY <1>1 DEF EngineStep, Engine, Loaded, Refused, Crash, TypeOK
<1>4. /\ container' \in [Roles -> {"absent", "loading", "serving"}]
      /\ \A s \in Roles : container[s] = "absent" => container'[s] = "absent"
  BY <1>1, <1>2 DEF TypeOK
<1>5. TypeOK'
  BY <1>1, <1>2, <1>3, <1>4 DEF TypeOK
<1>6. LockIsHeld'
  BY <1>1, <1>2 DEF LockIsHeld
<1>7. CardInv'
  BY <1>1, <1>2, <1>4, CardQuiet DEF Running, PastClear, CardInv, NewHasNoJob
<1> QED
  BY <1>5, <1>6, <1>7 DEF IInv

\* Every step keeps it.
LEMMA InvariantIsKept == IInv /\ [Next]_vars => IInv'
<1> SUFFICES ASSUME IInv, [Next]_vars PROVE IInv'
  OBVIOUS
<1>1. CASE UNCHANGED vars
  BY <1>1 DEF vars, IInv, TypeOK, LockIsHeld, CardInv, NewHasNoJob, OneRoleSupervised,
              OtherIsCleared, OneRoleResident, Running, PastClear
<1>2. ASSUME NEW q \in Requests, Arrive(q) PROVE IInv'
  BY <1>2, ArriveKeeps
<1>3. ASSUME NEW q \in Requests, RouterStep(q) PROVE IInv'
  BY <1>3, FallbackKeeps, EnsureKeeps, GrantCoalescedKeeps, GrantQueuedKeeps, LockCapKeeps,
     TrustProbeKeeps, AwaitedKeeps DEF RouterStep
<1>4. ASSUME NEW q \in Requests, Supervise(q) PROVE IInv'
  BY <1>4, SuperviseKeeps
<1>5. ASSUME NEW r \in Roles, EngineStep(Engine(r)) \/ EngineStep(Crash(r)) PROVE IInv'
  BY <1>5, EngineKeeps
<1> QED
  BY <1>1, <1>2, <1>3, <1>4, <1>5 DEF Next, Progress

-----------------------------------------------------------------------------
(***************************************************************************)
(* The theorem.                                                            *)
(***************************************************************************)

\* _supervisor_ensure's lock lets two supervisors of a role run at once only if the wait of
\* one was cut by the cap, and cmd_up keeps the card to one role until supervisors of both
\* have overlapped, whatever is asked, cut, refused or crashes.
THEOREM SwapsAreSafe == Spec => []SwapsHold
<1>1. IInv => SwapsHold
  BY LockCoalesces DEF IInv, CardInv, SwapsHold
<1> QED
  BY <1>1, InvariantAtStart, InvariantIsKept, PTL DEF Spec
=============================================================================
