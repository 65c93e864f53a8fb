--------------------------- MODULE Records_proofs ---------------------------
(***************************************************************************)
(* Proofs about the components that keep records at the BFF or beside it:  *)
(* the sidecar file and its lock, the self-evaluation harness, the         *)
(* presets and settings that threads share, the registries of the agent-   *)
(* server, RepoGraph, the sessions of the benchmarks and the fetch of the  *)
(* dashboard. They share no state and are proved one after the other, each *)
(* for every value of its constants.                                       *)
(***************************************************************************)
EXTENDS SidecarFile, SelfEval, BffState, RepoGraph, BenchSessions, DashboardMetrics,
        SequenceTheorems, FiniteSetTheorems, NaturalsInduction, WellFoundedInduction, TLAPS

(* Every set of natural numbers that is not empty has a least element.     *)
LEMMA LeastNatural ==
  ASSUME NEW D \in SUBSET Nat, D # {}
  PROVE  \E m \in D : \A k \in D : m <= k
<1>1. PICK m \in D : \A k \in D : <<k, m>> \notin OpToRel(<, Nat)
  BY NatLessThanWellFounded, WFMin
<1>2. \A k \in D : k \in Nat /\ m \in Nat /\ ~ (k < m)
  BY <1>1 DEF OpToRel
<1> QED
  BY <1>2

-----------------------------------------------------------------------------
(***************************************************************************)
(* SidecarFile: the state has its type, and no change is lost.             *)
(***************************************************************************)

WriterPcs  == {"idle", "wait", "read", "merge", "replace", "unlock"}
Docs == [Sessions -> [SlotFields -> Values]]
WriterStates ==
  [pc : WriterPcs, inode : Inodes, change : Changes \cup {[kind |-> "none"]}, payload : Docs,
   fresh : BOOLEAN]

SidecarTypes ==
  /\ sidecar \in Docs /\ lockFile \in Inodes /\ writes \in 0..MaxWrites
  /\ lockOwner \in [Inodes -> Writers \cup {"free"}]
  /\ writer \in [Writers -> WriterStates]
  /\ tmpFiles \subseteq Writers /\ sidecarFaults \in 0..MaxSidecarFaults

Locked == {"read", "merge", "replace", "unlock"}

\* Whoever is at work has opened the one lock file there is, for a change.
OneLockFile ==
  \A w \in Writers : writer[w].pc # "idle" =>
    /\ writer[w].inode = lockFile /\ lockFile # 0 /\ writer[w].change \in Changes

\* Between the flock and its release the lock is the writer's own.
HoldsItsLock ==
  \A w \in Writers : writer[w].pc \in Locked => lockOwner[writer[w].inode] = w

\* What a writer is about to write is its change made to the file as it is now.
FileNow(w) == IF writer[w].fresh THEN EmptyFile ELSE sidecar
PayloadIsCurrent ==
  \A w \in Writers : writer[w].pc \in {"merge", "replace"} =>
    writer[w].payload = Applied(writer[w].change, FileNow(w))

SidecarInv == SidecarTypes /\ OneLockFile /\ HoldsItsLock /\ PayloadIsCurrent /\ NoLostChange

-------------------------------------------------------------------------------
(***************************************************************************)
(* The file.                                                               *)
(***************************************************************************)

\* The empty file is a file.
LEMMA EmptyFileType == EmptyFile \in Docs
  BY DEF EmptyFile, EmptySlot, Docs, SlotFields, Values

\* A writer at rest is a writer.
LEMMA IdleType == IdleWriter \in WriterStates /\ IdleWriter.pc = "idle"
<1>1. 0 \in Inodes
  BY WritersAndBounds DEF Inodes
<1> QED
  BY <1>1, EmptyFileType DEF IdleWriter, WriterStates, WriterPcs

\* A change makes a file of a file (_merge under seed_sidecar and update_sidecar).
LEMMA AppliedType ==
  ASSUME NEW change \in Changes, NEW payload \in Docs
  PROVE  Applied(change, payload) \in Docs
<1>1. CASE change \in [kind : {"seed"}, session : Sessions]
  <2>1. change.kind = "seed" /\ change.session \in Sessions
    BY <1>1
  <2>2. payload[change.session] \in [SlotFields -> Values]
    BY <2>1 DEF Docs
  <2>3. [payload[change.session] EXCEPT !.task = IF @ = "" THEN "prompt" ELSE @]
          \in [SlotFields -> Values]
    BY <2>2 DEF SlotFields, Values
  <2> QED
    BY <2>1, <2>3 DEF Applied, Docs
<1>2. CASE change \in [kind : {"update"}, session : Sessions, field : SlotFields,
                       value : {"", "produced"}]
  <2>1. /\ change.kind # "seed" /\ change.session \in Sessions
        /\ change.field \in SlotFields /\ change.value \in Values
    BY <1>2 DEF Values
  <2>2. payload[change.session] \in [SlotFields -> Values]
    BY <2>1 DEF Docs
  <2>3. [payload[change.session] EXCEPT ![change.field] = change.value]
          \in [SlotFields -> Values]
    BY <2>1, <2>2
  <2> QED
    BY <2>1, <2>3 DEF Applied, Docs
<1> QED
  BY <1>1, <1>2 DEF Changes

\* Two writers never hold the lock: they have opened the same file.
LEMMA Exclusion ==
  ASSUME SidecarInv, NEW w \in Writers, NEW v \in Writers,
         writer[w].pc \in Locked, writer[v].pc \in Locked
  PROVE  v = w
<1>1. writer[w].inode = lockFile /\ writer[v].inode = lockFile
  BY DEF SidecarInv, OneLockFile, Locked
<1> QED
  BY <1>1 DEF SidecarInv, HoldsItsLock

-------------------------------------------------------------------------------
(***************************************************************************)
(* The invariant.                                                          *)
(***************************************************************************)

\* It holds at the start.
LEMMA SidecarStarts == SidecarInit => SidecarInv
<1> SUFFICES ASSUME SidecarInit PROVE SidecarInv
  OBVIOUS
<1>2. \A w \in Writers : writer[w].pc = "idle"
  BY IdleType DEF SidecarInit
<1>3. SidecarTypes
  BY IdleType, EmptyFileType, WritersAndBounds DEF SidecarInit, SidecarTypes, Inodes
<1> QED
  BY <1>2, <1>3 DEF SidecarInv, OneLockFile, HoldsItsLock, PayloadIsCurrent, NoLostChange, Locked,
                    SidecarInit

\* Opening the lock file disturbs nobody: when it is made, all the others are idle.
LEMMA OpensLockKeeps ==
  ASSUME SidecarInv, NEW w \in Writers, NEW change \in Changes, OpensLock(w, change)
  PROVE  SidecarInv'
<1> USE DEF SidecarInv
<1>1. lockFile' \in Inodes /\ lockFile' # 0 /\ writes' \in 0..MaxWrites
  BY WritersAndBounds DEF OpensLock, SidecarTypes, Inodes
<1>2. \A v \in Writers : v # w /\ writer[v].pc # "idle" => lockFile' = lockFile
  BY DEF OpensLock, OneLockFile
<1> DEFINE opened == [IdleWriter EXCEPT !.pc = "wait", !.inode = lockFile', !.change = change]
<1>3. /\ opened \in WriterStates
      /\ opened.pc = "wait" /\ opened.inode = lockFile' /\ opened.change = change
  BY <1>1, IdleType DEF WriterStates, WriterPcs
<1>3a. /\ writer' = [writer EXCEPT ![w] = opened]
       /\ UNCHANGED <<sidecar, lockOwner, tmpFiles, merged, sidecarFaults>>
  BY DEF OpensLock
<1> HIDE DEF opened
<1>4. SidecarTypes'
  BY <1>1, <1>3, <1>3a DEF SidecarTypes
<1>5. /\ writer'[w].pc = "wait" /\ writer'[w].inode = lockFile' /\ writer'[w].change = change
      /\ \A v \in Writers : v # w => writer'[v] = writer[v]
  BY <1>3, <1>3a DEF SidecarTypes
<1>6. OneLockFile'
  BY <1>1, <1>2, <1>5 DEF OneLockFile
<1>7. HoldsItsLock'
  BY <1>3a, <1>5 DEF HoldsItsLock, Locked
<1>8. PayloadIsCurrent'
  BY <1>3a, <1>5 DEF PayloadIsCurrent, FileNow
<1>9. NoLostChange'
  BY <1>3a DEF NoLostChange
<1> QED
  BY <1>4, <1>6, <1>7, <1>8, <1>9

\* Whoever gets the lock finds it free, so nobody holds it.
LEMMA LocksKeeps ==
  ASSUME SidecarInv, NEW w \in Writers, Locks(w)
  PROVE  SidecarInv'
<1> USE DEF SidecarInv
<1>1. /\ writer[w] \in WriterStates /\ writer[w].inode = lockFile /\ lockFile \in Inodes
      /\ writer[w].pc = "wait" /\ lockOwner[lockFile] = "free"
  BY DEF Locks, SidecarTypes, OneLockFile
<1>2. \A v \in Writers : writer[v].pc \notin Locked
  BY <1>1, WritersAndBounds DEF HoldsItsLock, OneLockFile, Locked
<1>3. [writer[w] EXCEPT !.pc = "read"] \in WriterStates
  BY <1>1 DEF WriterStates, WriterPcs
<1>4. SidecarTypes'
  BY <1>1, <1>3 DEF Locks, SidecarTypes
<1>5. /\ writer'[w].pc = "read" /\ writer'[w].inode = lockFile
      /\ writer'[w].change = writer[w].change
      /\ \A v \in Writers : v # w => writer'[v] = writer[v]
  BY <1>1 DEF Locks, SidecarTypes, WriterStates
<1>6. OneLockFile'
  BY <1>1, <1>5 DEF OneLockFile, Locks
<1>7. HoldsItsLock'
  <2>1. lockOwner'[lockFile] = w
    BY <1>1 DEF Locks, SidecarTypes
  <2> QED
    BY <1>2, <1>5, <2>1 DEF HoldsItsLock
<1>8. PayloadIsCurrent'
  BY <1>2, <1>5 DEF PayloadIsCurrent, Locked
<1>9. NoLostChange'
  BY DEF NoLostChange, Locks
<1> QED
  BY <1>4, <1>6, <1>7, <1>8, <1>9

\* The payload is made of the file as it is read.
LEMMA ReadsPayloadKeeps ==
  ASSUME SidecarInv, NEW w \in Writers, ReadsPayload(w)
  PROVE  SidecarInv'
<1> USE DEF SidecarInv
<1>1. PICK fresh \in BOOLEAN :
        /\ sidecarFaults' \in 0..MaxSidecarFaults
        /\ writer' = [writer EXCEPT ![w].pc = "merge", ![w].fresh = fresh,
             ![w].payload = Applied(writer[w].change, IF fresh THEN EmptyFile ELSE sidecar)]
  <2>1. SidecarFault \/ UNCHANGED sidecarFaults => sidecarFaults' \in 0..MaxSidecarFaults
    BY WritersAndBounds DEF SidecarFault, SidecarTypes
  <2>2. PICK fresh \in BOOLEAN :
          /\ IF fresh THEN SidecarFault ELSE UNCHANGED sidecarFaults
          /\ writer' = [writer EXCEPT ![w].pc = "merge", ![w].fresh = fresh,
               ![w].payload = Applied(writer[w].change, IF fresh THEN EmptyFile ELSE sidecar)]
    BY DEF ReadsPayload
  <2> QED
    BY <2>1, <2>2
<1>2. /\ writer[w] \in WriterStates /\ writer[w].pc = "read" /\ writer[w].change \in Changes
      /\ UNCHANGED <<sidecar, lockFile, lockOwner, tmpFiles, merged, writes>>
  BY DEF ReadsPayload, SidecarTypes, OneLockFile
<1>3. Applied(writer[w].change, IF fresh THEN EmptyFile ELSE sidecar) \in Docs
  BY <1>2, AppliedType, EmptyFileType DEF SidecarTypes
<1>4. [writer[w] EXCEPT !.pc = "merge", !.fresh = fresh,
         !.payload = Applied(writer[w].change, IF fresh THEN EmptyFile ELSE sidecar)]
        \in WriterStates
  BY <1>2, <1>3 DEF WriterStates, WriterPcs
<1>5. SidecarTypes'
  BY <1>1, <1>2, <1>4 DEF SidecarTypes
<1>6. /\ writer'[w].pc = "merge" /\ writer'[w].inode = writer[w].inode
      /\ writer'[w].change = writer[w].change /\ writer'[w].fresh = fresh
      /\ writer'[w].payload =
           Applied(writer[w].change, IF fresh THEN EmptyFile ELSE sidecar)
      /\ \A v \in Writers : v # w => writer'[v] = writer[v]
  BY <1>1, <1>2 DEF SidecarTypes, WriterStates
<1>7. OneLockFile'
  BY <1>2, <1>6 DEF OneLockFile
<1>8. HoldsItsLock'
  BY <1>2, <1>6 DEF HoldsItsLock, Locked
<1>9. PayloadIsCurrent'
  BY <1>2, <1>6 DEF PayloadIsCurrent, FileNow
<1>10. NoLostChange'
  BY <1>2 DEF NoLostChange
<1> QED
  BY <1>5, <1>7, <1>8, <1>9, <1>10

\* Writing the temporary file leaves the file and the lock alone.
LEMMA WritesTmpKeeps ==
  ASSUME SidecarInv, NEW w \in Writers, WritesTmp(w)
  PROVE  SidecarInv'
<1> USE DEF SidecarInv
<1>1. PICK pc \in {"replace", "unlock"} :
        writer' = [writer EXCEPT ![w].pc = pc]
  BY DEF WritesTmp
<1>2. /\ writer[w] \in WriterStates /\ writer[w].pc = "merge"
      /\ UNCHANGED <<sidecar, lockFile, lockOwner, merged, writes>>
  BY DEF WritesTmp, SidecarTypes
<1>3. sidecarFaults' \in 0..MaxSidecarFaults
  BY WritersAndBounds DEF WritesTmp, SidecarFault, SidecarTypes
<1>4. tmpFiles' \subseteq Writers
  BY DEF WritesTmp, SidecarTypes
<1>5. [writer[w] EXCEPT !.pc = pc] \in WriterStates
  BY <1>2 DEF WriterStates, WriterPcs
<1>6. SidecarTypes'
  BY <1>1, <1>2, <1>3, <1>4, <1>5 DEF SidecarTypes
<1>7. /\ writer'[w].pc = pc /\ writer'[w].inode = writer[w].inode
      /\ writer'[w].change = writer[w].change /\ writer'[w].fresh = writer[w].fresh
      /\ writer'[w].payload = writer[w].payload
      /\ \A v \in Writers : v # w => writer'[v] = writer[v]
  BY <1>1, <1>2 DEF SidecarTypes, WriterStates
<1>8. OneLockFile'
  BY <1>2, <1>7 DEF OneLockFile
<1>9. HoldsItsLock'
  BY <1>2, <1>7 DEF HoldsItsLock, Locked
<1>10. PayloadIsCurrent'
  BY <1>2, <1>7 DEF PayloadIsCurrent, FileNow
<1>11. NoLostChange'
  BY <1>2 DEF NoLostChange
<1> QED
  BY <1>6, <1>8, <1>9, <1>10, <1>11

\* The rename puts the change on top of the file as it is: nobody else has held the lock
\* since it was read, and nobody else has a payload that has become stale by it.
LEMMA ReplacesKeeps ==
  ASSUME SidecarInv, NEW w \in Writers, Replaces(w)
  PROVE  SidecarInv'
<1> USE DEF SidecarInv
<1>1. /\ writer[w] \in WriterStates /\ writer[w].pc = "replace"
      /\ sidecar' = writer[w].payload
      /\ merged' = Applied(writer[w].change, IF writer[w].fresh THEN EmptyFile ELSE merged)
      /\ writer' = [writer EXCEPT ![w].pc = "unlock"]
      /\ UNCHANGED <<lockFile, lockOwner, writes, sidecarFaults>>
  BY DEF Replaces, SidecarTypes
<1>2. [writer[w] EXCEPT !.pc = "unlock"] \in WriterStates
  BY <1>1 DEF WriterStates, WriterPcs
<1>3. sidecar' \in Docs /\ tmpFiles' \subseteq Writers
  BY <1>1 DEF WriterStates, Replaces, SidecarTypes
<1>4. SidecarTypes'
  BY <1>1, <1>2, <1>3 DEF SidecarTypes
<1>5. /\ writer'[w].pc = "unlock" /\ writer'[w].inode = writer[w].inode
      /\ writer'[w].change = writer[w].change
      /\ \A v \in Writers : v # w => writer'[v] = writer[v]
  BY <1>1 DEF SidecarTypes, WriterStates
<1>6. OneLockFile'
  BY <1>1, <1>5 DEF OneLockFile
<1>7. HoldsItsLock'
  BY <1>1, <1>5 DEF HoldsItsLock, Locked
<1>8. PayloadIsCurrent'
  <2>1. \A v \in Writers : writer[v].pc \in Locked => v = w
    BY <1>1, Exclusion DEF Locked
  <2> QED
    BY <1>5, <2>1 DEF PayloadIsCurrent, Locked
<1>9. NoLostChange'
  BY <1>1 DEF NoLostChange, PayloadIsCurrent, FileNow
<1> QED
  BY <1>4, <1>6, <1>7, <1>8, <1>9

\* A writer that lets go of the lock lets go of its own.
LEMMA UnlocksKeeps ==
  ASSUME SidecarInv, NEW w \in Writers, Unlocks(w)
  PROVE  SidecarInv'
<1> USE DEF SidecarInv
<1>1. /\ writer[w] \in WriterStates /\ writer[w].pc = "unlock"
      /\ lockOwner' = [lockOwner EXCEPT ![writer[w].inode] = "free"]
      /\ writer' = [writer EXCEPT ![w] = IdleWriter]
      /\ UNCHANGED <<sidecar, lockFile, tmpFiles, merged, writes, sidecarFaults>>
  BY DEF Unlocks, SidecarTypes
<1>2. SidecarTypes'
  BY <1>1, IdleType DEF SidecarTypes
<1>3. writer'[w].pc = "idle" /\ \A v \in Writers : v # w => writer'[v] = writer[v]
  BY <1>1, IdleType DEF SidecarTypes
<1>4. OneLockFile'
  BY <1>1, <1>3 DEF OneLockFile
<1>5. HoldsItsLock'
  <2>1. \A v \in Writers : writer[v].pc \in Locked => v = w
    BY <1>1, Exclusion DEF Locked
  <2> QED
    BY <1>3, <2>1 DEF HoldsItsLock, Locked
<1>6. PayloadIsCurrent'
  BY <1>1, <1>3 DEF PayloadIsCurrent, FileNow
<1>7. NoLostChange'
  BY <1>1 DEF NoLostChange
<1> QED
  BY <1>2, <1>4, <1>5, <1>6, <1>7

\* A writer that dies takes no lock with it that is not its own.
LEMMA WriterDiesKeeps ==
  ASSUME SidecarInv, NEW w \in Writers, WriterDies(w)
  PROVE  SidecarInv'
<1> USE DEF SidecarInv
<1>1. /\ lockOwner' = [i \in Inodes |-> IF lockOwner[i] = w THEN "free" ELSE lockOwner[i]]
      /\ writer' = [writer EXCEPT ![w] = IdleWriter]
      /\ UNCHANGED <<sidecar, lockFile, tmpFiles, merged, writes>>
  BY DEF WriterDies
<1>2. sidecarFaults' \in 0..MaxSidecarFaults
  BY WritersAndBounds DEF WriterDies, SidecarFault, SidecarTypes
<1>3. SidecarTypes'
  BY <1>1, <1>2, IdleType DEF SidecarTypes
<1>4. writer'[w].pc = "idle" /\ \A v \in Writers : v # w => writer'[v] = writer[v]
  BY <1>1, IdleType DEF SidecarTypes
<1>5. OneLockFile'
  BY <1>1, <1>4 DEF OneLockFile
<1>6. HoldsItsLock'
  <2> SUFFICES ASSUME NEW v \in Writers, v # w, writer[v].pc \in Locked
              PROVE  lockOwner'[writer[v].inode] = v
    BY <1>4 DEF HoldsItsLock, Locked
  <2>1. lockOwner[writer[v].inode] = v
    BY DEF HoldsItsLock
  <2>2. writer[v].inode \in Inodes
    BY DEF SidecarTypes, OneLockFile, Locked
  <2> QED
    BY <1>1, <2>1, <2>2
<1>7. PayloadIsCurrent'
  BY <1>1, <1>4 DEF PayloadIsCurrent, FileNow
<1>8. NoLostChange'
  BY <1>1 DEF NoLostChange
<1> QED
  BY <1>3, <1>5, <1>6, <1>7, <1>8

\* Every step keeps it.
LEMMA SidecarStays == SidecarInv /\ [SidecarNext]_sidecarVars => SidecarInv'
<1> SUFFICES ASSUME SidecarInv, [SidecarNext]_sidecarVars PROVE SidecarInv'
  OBVIOUS
<1>1. CASE UNCHANGED sidecarVars
  BY <1>1 DEF sidecarVars, SidecarInv, SidecarTypes, OneLockFile, HoldsItsLock,
              PayloadIsCurrent, FileNow, NoLostChange
<1>2. ASSUME NEW w \in Writers, NEW change \in Changes, OpensLock(w, change) PROVE SidecarInv'
  BY <1>2, OpensLockKeeps
<1>3. ASSUME NEW w \in Writers, Locks(w) PROVE SidecarInv'
  BY <1>3, LocksKeeps
<1>4. ASSUME NEW w \in Writers, ReadsPayload(w) PROVE SidecarInv'
  BY <1>4, ReadsPayloadKeeps
<1>5. ASSUME NEW w \in Writers, WritesTmp(w) PROVE SidecarInv'
  BY <1>5, WritesTmpKeeps
<1>6. ASSUME NEW w \in Writers, Replaces(w) PROVE SidecarInv'
  BY <1>6, ReplacesKeeps
<1>7. ASSUME NEW w \in Writers, Unlocks(w) PROVE SidecarInv'
  BY <1>7, UnlocksKeeps
<1>8. ASSUME NEW w \in Writers, WriterDies(w) PROVE SidecarInv'
  BY <1>8, WriterDiesKeeps
<1> QED
  BY <1>1, <1>2, <1>3, <1>4, <1>5, <1>6, <1>7, <1>8 DEF SidecarNext

-------------------------------------------------------------------------------
(***************************************************************************)
(* The theorems.                                                           *)
(***************************************************************************)

\* The invariant of every behaviour.
LEMMA SidecarKeepsInv == SidecarSpec => []SidecarInv
  BY SidecarStarts, SidecarStays, PTL DEF SidecarSpec

\* Every state of the sidecar file, its lock and its writers has its type.
THEOREM SidecarTypeCorrect == SidecarSpec => []SidecarTypeOK
<1>1. SidecarInv => SidecarTypeOK
  BY DEF SidecarInv, SidecarTypes, SidecarTypeOK, Docs
<1> QED
  BY <1>1, SidecarKeepsInv, PTL

\* No update of a workspace's sidecar.json is lost to another thread or process: whatever
\* dies, and whatever disk fills up, the file is what the changes that have reached it make
\* one after the other (_rmw under its flock and atomic rename).
THEOREM NoChangeIsLost == SidecarSpec => []NoLostChange
<1>1. SidecarInv => NoLostChange
  BY DEF SidecarInv
<1> QED
  BY <1>1, SidecarKeepsInv, PTL

\* A change to one session leaves the slots of every other session as they are, unless it met
\* a file it could not read ("starting fresh").
THEOREM OtherSessionsAreKept == SidecarSpec => OthersAreKept
<1>1. ASSUME SidecarInv, NEW w \in Writers, NEW s \in Sessions,
             Replaces(w), ~writer[w].fresh, s # writer[w].change.session
      PROVE  sidecar'[s] = sidecar[s]
  <2>1. sidecar' = Applied(writer[w].change, sidecar)
    BY <1>1 DEF SidecarInv, PayloadIsCurrent, FileNow, Replaces
  <2> QED
    BY <1>1, <2>1 DEF Applied, SidecarInv, SidecarTypes, Docs
<1>2. SidecarInv /\ [SidecarNext]_sidecarVars =>
        [\A w \in Writers, s \in Sessions :
           /\ Replaces(w) /\ ~writer[w].fresh /\ s # writer[w].change.session
           => sidecar'[s] = sidecar[s]]_sidecarVars
  BY <1>1
<1> QED
  BY <1>2, SidecarKeepsInv, PTL DEF SidecarSpec, OthersAreKept

-----------------------------------------------------------------------------
(***************************************************************************)
(* SelfEval: summaries are honest, and proposals stay. A task that was     *)
(* selected once is counted once, because the lists of the harness say no  *)
(* task and no run twice and the files of proposals have names nobody has  *)
(* used.                                                                   *)
(***************************************************************************)

SuiteTasks  == Range(Manifest)
RunStatuses == {"running", "succeeded", "failed"}
Verdicts    == {"passed", "failed", "timeout", "error"}
EvalOutcome == [task : SuiteTasks, run : Nat, verdict : Verdicts]

\* A list of outcomes that says of no task and of no run anything twice, and calls passed only
\* what has succeeded.
HonestList(s, rs) ==
  \A i \in 1 .. Len(s) :
    /\ s[i].run \in 0 .. Len(rs)
    /\ s[i].verdict = "passed" => s[i].run # 0 /\ rs[s[i].run] = "succeeded"
    /\ \A j \in 1 .. Len(s) :
         i # j => s[i].task # s[j].task /\ (s[i].run = s[j].run => s[i].run = 0)

\* The harness is where its lists say.
HarnessIsInStep ==
  /\ unit # "activating" => harness = "off"
  /\ harness \in {"off", "select", "resolve"} => outcomes = <<>>
  /\ harness \in {"resolve", "create", "poll", "score"} => Len(outcomes) < Len(selected)
  /\ harness \in {"poll", "score"} =>
       run # 0 /\ \A i \in 1 .. Len(outcomes) : outcomes[i].run # run
  /\ harness = "score" => ended = "timeout" \/ ended = runStatus[run]
  /\ harness \in {"summary", "propose"} => Len(outcomes) = Len(selected)
  /\ harness = "propose" => summary = outcomes

HarnessTypes ==
  /\ harness \in {"off", "select", "resolve", "create", "poll", "score", "summary", "propose"}
  /\ runStatus \in Seq(RunStatuses) /\ run \in 0 .. Len(runStatus)
  /\ selected \in Seq(SuiteTasks) /\ outcomes \in Seq(EvalOutcome) /\ summary \in Seq(EvalOutcome)

EvalInv ==
  /\ HarnessTypes
  /\ \A i, j \in 1 .. Len(selected) : selected[i] = selected[j] => i = j
  /\ Len(outcomes) <= Len(selected)
  /\ \A i \in 1 .. Len(outcomes) : outcomes[i].task = selected[i]
  /\ HonestList(outcomes, runStatus) /\ HonestList(summary, runStatus)
  /\ HarnessIsInStep
  /\ IsFiniteSet(ProposalNames)

(* The sequence of a finite set's elements in any order, and any part of   *)
(* it, name no task twice: whatever the strategy, the harness is given     *)
(* every task at most once.                                                *)
LEMMA SelectionsRepeatNothing ==
  ASSUME NEW st \in Strategies, NEW s \in SelectTasks(st)
  PROVE  /\ s \in Seq(SuiteTasks)
         /\ \A i, j \in 1 .. Len(s) : s[i] = s[j] => i = j
<1> DEFINE Fine(c) == c \in Seq(SuiteTasks) /\ \A i, j \in 1 .. Len(c) : c[i] = c[j] => i = j
<1>1. Manifest \in Seq(SuiteTasks) /\ DOMAIN Manifest = 1 .. Len(Manifest) /\ Len(Manifest) \in Nat
  BY EvalConstants, LenProperties DEF SuiteTasks
<1>2. Fine(Manifest)
  BY <1>1, EvalConstants DEF IsInjective
<1>3. IsFiniteSet(SuiteTasks)
  <2>1. Manifest \in Surjection(1 .. Len(Manifest), SuiteTasks)
    BY <1>1 DEF Surjection, SuiteTasks, Range
  <2>2. IsFiniteSet(1 .. Len(Manifest))
    BY <1>1, FS_Interval
  <2> QED
    BY <2>1, <2>2, FS_Surjection
<1>4. ASSUME NEW S \in SUBSET SuiteTasks, NEW c \in SetToSeqs(S)
      PROVE  Fine(c)
  <2>1. IsFiniteSet(S) /\ Cardinality(S) \in Nat
    BY <1>3, FS_Subset, FS_CardinalityType
  <2>2. c \in [1 .. Cardinality(S) -> S]
    BY DEF SetToSeqs
  <2>3. \A i, j \in 1 .. Cardinality(S) : i # j => c[i] # c[j]
    BY DEF SetToSeqs
  <2>4. c \in Seq(SuiteTasks) /\ Len(c) = Cardinality(S)
    BY <2>1, <2>2, SeqDef, LenProperties
  <2> QED
    BY <2>3, <2>4
<1>5. PICK c : Fine(c) /\ s = SubSeq(c, 1, IF Len(c) < Limit THEN Len(c) ELSE Limit)
  <2>1. CASE st = "head"
    BY <1>2, <2>1 DEF SelectTasks
  <2>2. CASE st = "random"
    BY <1>4, <2>2 DEF SelectTasks, SuiteTasks
  <2>3. CASE st = "tag"
    <3>1. Tagged \in SUBSET SuiteTasks
      BY EvalConstants DEF SuiteTasks
    <3> QED
      BY <1>4, <2>3, <3>1 DEF SelectTasks
  <2> QED
    BY <2>1, <2>2, <2>3, EvalConstants
<1> DEFINE n == IF Len(c) < Limit THEN Len(c) ELSE Limit
<1>6. c \in Seq(SuiteTasks) /\ Len(c) \in Nat /\ n \in Int /\ 0 <= n /\ n <= Len(c)
  BY <1>5, LenProperties, EvalConstants
<1>7. \A i \in 1 .. n : c[i] \in SuiteTasks
  BY <1>6, ElementOfSeq
<1> HIDE DEF n
<1>8. /\ SubSeq(c, 1, n) \in Seq(SuiteTasks)
      /\ Len(SubSeq(c, 1, n)) = IF 1 <= n THEN n - 1 + 1 ELSE 0
      /\ \A i \in 1 .. n - 1 + 1 : SubSeq(c, 1, n)[i] = c[1 + i - 1]
  BY <1>6, <1>7, SubSeqProperties
<1>9. /\ Len(s) = n /\ s \in Seq(SuiteTasks)
      /\ \A i \in 1 .. n : s[i] = c[i]
  <2>1. s = SubSeq(c, 1, n)
    BY <1>5 DEF n
  <2>2. \A i \in 1 .. n : i \in 1 .. n - 1 + 1 /\ 1 + i - 1 = i
    BY <1>6
  <2> HIDE <1>5
  <2> QED
    BY <1>6, <1>8, <2>1, <2>2
<1> QED
  BY <1>5, <1>6, <1>9

(* Some number is free for every name, and the first free one is taken.    *)
LEMMA FreshNameIsFresh ==
  ASSUME NEW o, IsFiniteSet(ProposalNames)
  PROVE  FreshName(o) \notin ProposalNames
<1> DEFINE n == Cardinality(ProposalNames)
           name(v) == <<o.task, o.run, v>>
           Free == {v \in 1 .. n + 1 : name(v) \notin ProposalNames}
           f == [v \in 1 .. n + 1 |-> name(v)]
<1>1. n \in Nat
  BY FS_CardinalityType
<1>2. Free # {}
  <2> SUFFICES ASSUME \A v \in 1 .. n + 1 : name(v) \in ProposalNames
               PROVE  FALSE
    OBVIOUS
  <2>1. f \in [1 .. n + 1 -> ProposalNames]
    OBVIOUS
  <2>2. IsFiniteSet(1 .. n + 1) /\ Cardinality(1 .. n + 1) = n + 1
    <3>1. 1 \in Int /\ n + 1 \in Int /\ ~(1 > n + 1) /\ n + 1 - 1 + 1 = n + 1
      BY <1>1
    <3> HIDE DEF n
    <3> QED
      BY <3>1, FS_Interval
  <2>3. Cardinality(ProposalNames) < Cardinality(1 .. n + 1)
    BY <1>1, <2>2
  <2>4. PICK x, y \in 1 .. n + 1 : x # y /\ f[x] = f[y]
    <3> HIDE DEF f, n
    <3> QED
      BY <2>1, <2>2, <2>3, FS_PigeonHole
  <2> QED
    BY <2>4
<1>3. PICK m \in Free : \A k \in Free : m <= k
  <2>1. Free \in SUBSET Nat
    BY <1>1
  <2> HIDE DEF Free
  <2> QED
    BY <1>2, <2>1, LeastNatural
<1>4. m \in 1 .. n + 1 /\ name(m) \notin ProposalNames
  BY <1>3
<1>5. \A w \in 1 .. m - 1 : name(w) \in ProposalNames
  <2> TAKE w \in 1 .. m - 1
  <2>1. w \in 1 .. n + 1 /\ ~ (m <= w)
    BY <1>1, <1>4
  <2> QED
    BY <1>3, <2>1
<1>6. FreshName(o) = name(CHOOSE v \in 1 .. n + 1 :
        name(v) \notin ProposalNames /\ \A w \in 1 .. v - 1 : name(w) \in ProposalNames)
  BY DEF FreshName
<1> HIDE DEF n
<1> QED
  BY <1>4, <1>5, <1>6

(* An honest list stays honest while runs are added and no success is      *)
(* taken back.                                                             *)
LEMMA HonestListsStay ==
  ASSUME NEW s, NEW rs, NEW rt, HonestList(s, rs),
         Len(rs) \in Nat, Len(rt) \in Nat, Len(rs) <= Len(rt),
         \A k \in 1 .. Len(rs) : rs[k] = "succeeded" => rt[k] = "succeeded"
  PROVE  HonestList(s, rt)
<1> SUFFICES ASSUME NEW i \in 1 .. Len(s)
             PROVE  /\ s[i].run \in 0 .. Len(rt)
                    /\ s[i].verdict = "passed" => s[i].run # 0 /\ rt[s[i].run] = "succeeded"
  BY DEF HonestList
<1>1. /\ s[i].run \in 0 .. Len(rs)
      /\ s[i].verdict = "passed" => s[i].run # 0 /\ rs[s[i].run] = "succeeded"
  BY DEF HonestList
<1>2. s[i].run # 0 => s[i].run \in 1 .. Len(rs)
  BY <1>1
<1> QED
  BY <1>1, <1>2

(* An honest list takes an outcome of a task and of a run of its own.      *)
LEMMA HonestListsGrow ==
  ASSUME NEW s \in Seq(EvalOutcome), NEW rs, NEW o \in EvalOutcome, HonestList(s, rs),
         o.run \in 0 .. Len(rs),
         o.verdict = "passed" => o.run # 0 /\ rs[o.run] = "succeeded",
         \A i \in 1 .. Len(s) : s[i].task # o.task /\ (s[i].run = o.run => o.run = 0)
  PROVE  HonestList(Append(s, o), rs)
<1> DEFINE t == Append(s, o)
<1>1. /\ Len(s) \in Nat /\ Len(t) = Len(s) + 1 /\ t[Len(s) + 1] = o
      /\ \A i \in 1 .. Len(s) : t[i] = s[i]
  BY AppendProperties, LenProperties
<1> HIDE DEF t
<1>2. \A i \in 1 .. Len(t) : i \in 1 .. Len(s) \/ i = Len(s) + 1
  BY <1>1
<1> SUFFICES ASSUME NEW i \in 1 .. Len(t)
             PROVE  /\ t[i].run \in 0 .. Len(rs)
                    /\ t[i].verdict = "passed" => t[i].run # 0 /\ rs[t[i].run] = "succeeded"
                    /\ \A j \in 1 .. Len(t) :
                         i # j => t[i].task # t[j].task /\ (t[i].run = t[j].run => t[i].run = 0)
  BY DEF HonestList, t
<1>3. CASE i \in 1 .. Len(s)
  <2>1. /\ s[i].run \in 0 .. Len(rs)
        /\ s[i].verdict = "passed" => s[i].run # 0 /\ rs[s[i].run] = "succeeded"
        /\ \A j \in 1 .. Len(s) :
             i # j => s[i].task # s[j].task /\ (s[i].run = s[j].run => s[i].run = 0)
    BY <1>3 DEF HonestList
  <2>2. s[i].task # o.task /\ (s[i].run = o.run => s[i].run = 0)
    BY <1>3
  <2> QED
    BY <1>1, <1>2, <1>3, <2>1, <2>2
<1>4. CASE i = Len(s) + 1
  <2>1. \A j \in 1 .. Len(t) : i # j => j \in 1 .. Len(s)
    BY <1>2, <1>4
  <2> QED
    BY <1>1, <1>4, <2>1
<1> QED
  BY <1>2, <1>3, <1>4

(* At first there is nothing but, perhaps, one proposal of an earlier day. *)
LEMMA EvalStartsRight ==
  EvalInit => EvalInv
<1> SUFFICES ASSUME EvalInit PROVE EvalInv
  OBVIOUS
<1>1. /\ <<>> \in Seq(SuiteTasks) /\ <<>> \in Seq(EvalOutcome) /\ <<>> \in Seq(RunStatuses)
      /\ Len(<<>>) = 0
  OBVIOUS
<1>2. IsFiniteSet(ProposalNames)
  <2>1. CASE proposals = <<>>
    <3>1. DOMAIN <<>> = {}
      OBVIOUS
    <3> QED
      BY <2>1, <3>1, FS_EmptySet DEF ProposalNames
  <2>2. CASE \E t \in Range(Manifest) : proposals = [n \in {<<t, 0, 1>>} |-> 0]
    <3>1. PICK t \in Range(Manifest) : proposals = [n \in {<<t, 0, 1>>} |-> 0]
      BY <2>2
    <3>2. ProposalNames = {<<t, 0, 1>>}
      BY <3>1 DEF ProposalNames
    <3> QED
      BY <3>2, FS_Singleton
  <2> QED
    BY <2>1, <2>2 DEF EvalInit
<1>3. /\ harness = "off" /\ selected = <<>> /\ run = 0 /\ outcomes = <<>> /\ summary = <<>>
      /\ runStatus = <<>>
  BY DEF EvalInit
<1>4. HonestList(<<>>, <<>>) /\ HarnessTypes /\ HarnessIsInStep
  BY <1>1, <1>3 DEF HarnessTypes, HarnessIsInStep, HonestList
<1> QED
  BY <1>1, <1>2, <1>3, <1>4 DEF EvalInv

(* The BFF and the queue of the unit do not touch the harness.             *)
LEMMA BffMovesAreRight ==
  ASSUME EvalInv, UNCHANGED <<unit, harnessPart, diskPart, runStatus>>
  PROVE  EvalInv'
BY DEF EvalInv, HarnessTypes, HarnessIsInStep, HonestList, harnessPart, diskPart, ProposalNames

(* What is left of a harness that is gone is its files.                    *)
LEMMA ForgettingIsRight ==
  ASSUME EvalInv, Forgets, UNCHANGED <<diskPart, runStatus>>
  PROVE  EvalInv'
<1>1. /\ <<>> \in Seq(SuiteTasks) /\ <<>> \in Seq(EvalOutcome) /\ Len(<<>>) = 0
  OBVIOUS
<1>2. Len(runStatus) \in Nat
  BY LenProperties DEF EvalInv, HarnessTypes
<1>3. /\ harness' = "off" /\ selected' = <<>> /\ run' = 0 /\ outcomes' = <<>>
      /\ summary' = summary /\ proposals' = proposals /\ runStatus' = runStatus
  BY DEF Forgets, diskPart
<1> QED
  BY <1>1, <1>2, <1>3 DEF EvalInv, HarnessTypes, HarnessIsInStep, HonestList, ProposalNames

(* A unit that starts finds no harness.                                    *)
LEMMA UnitStartsIsRight ==
  ASSUME EvalInv, UnitStarts
  PROVE  EvalInv'
<1>1. CASE unit = "activating" \/ evalCount.cycles = MaxCycles
  BY <1>1, BffMovesAreRight DEF UnitStarts
<1>2. CASE ~(unit = "activating" \/ evalCount.cycles = MaxCycles)
  <2>1. /\ unit' = "activating" /\ harness' = "select"
        /\ UNCHANGED <<selected, run, ended, outcomes, proposed, summary, proposals, runStatus>>
    BY <1>2 DEF UnitStarts, diskPart
  <2>2. outcomes = <<>>
    BY <1>2 DEF EvalInv, HarnessIsInStep
  <2> QED
    BY <2>1, <2>2 DEF EvalInv, HarnessTypes, HarnessIsInStep, HonestList, ProposalNames
<1> QED
  BY <1>1, <1>2

(* The selection is a list of tasks without repetition.                    *)
LEMMA HarnessSelectsIsRight ==
  ASSUME EvalInv, HarnessSelects
  PROVE  EvalInv'
<1>1. PICK s \in UNION {SelectTasks(st) : st \in Strategies} :
        IF s = <<>> THEN Exits(0)
        ELSE /\ selected' = s /\ harness' = "resolve"
             /\ UNCHANGED <<unit, run, ended, outcomes, proposed>>
  BY DEF HarnessSelects
<1>2. UNCHANGED <<diskPart, runStatus>>
  BY DEF HarnessSelects
<1>3. CASE s = <<>>
  BY <1>1, <1>2, <1>3, ForgettingIsRight DEF Exits
<1>4. CASE s # <<>>
  <2>1. /\ selected' = s /\ harness' = "resolve"
        /\ UNCHANGED <<unit, run, ended, outcomes, proposed, summary, proposals, runStatus>>
    BY <1>1, <1>2, <1>4 DEF diskPart
  <2>2. outcomes = <<>> /\ harness = "select" /\ unit = "activating"
    BY DEF HarnessSelects, EvalInv, HarnessIsInStep
  <2>3. s \in Seq(SuiteTasks) /\ \A i, j \in 1 .. Len(s) : s[i] = s[j] => i = j
    BY SelectionsRepeatNothing
  <2>4. Len(s) \in Nat /\ Len(s) > 0 /\ Len(<<>>) = 0
    BY <1>4, <2>3, EmptySeq, LenProperties
  <2> QED
    BY <2>1, <2>2, <2>3, <2>4
    DEF EvalInv, HarnessTypes, HarnessIsInStep, HonestList, ProposalNames
<1> QED
  BY <1>3, <1>4

(* The preset is resolved.                                                 *)
LEMMA HarnessResolvesIsRight ==
  ASSUME EvalInv, HarnessResolves
  PROVE  EvalInv'
<1>1. /\ harness = "resolve" /\ harness' = "create"
      /\ UNCHANGED <<unit, selected, run, ended, outcomes, summary, proposals, runStatus>>
  BY DEF HarnessResolves, diskPart
<1> QED
  BY <1>1 DEF EvalInv, HarnessTypes, HarnessIsInStep, HonestList, ProposalNames

(* A run that is created is none of those that were.                       *)
LEMMA CreateSucceedsIsRight ==
  ASSUME EvalInv, CreateSucceeds
  PROVE  EvalInv'
<1>1. /\ harness = "create" /\ harness' = "poll" /\ run' = Len(runStatus) + 1
      /\ runStatus' = Append(runStatus, "running")
      /\ UNCHANGED <<unit, selected, ended, outcomes, summary, proposals>>
  BY DEF CreateSucceeds, diskPart
<1>2. /\ runStatus \in Seq(RunStatuses) /\ Len(runStatus) \in Nat /\ "running" \in RunStatuses
  BY LenProperties DEF EvalInv, HarnessTypes, RunStatuses
<1>3. /\ runStatus' \in Seq(RunStatuses) /\ Len(runStatus') = Len(runStatus) + 1
      /\ \A k \in 1 .. Len(runStatus) : runStatus'[k] = runStatus[k]
  BY <1>1, <1>2, AppendProperties
<1>4. HonestList(outcomes, runStatus') /\ HonestList(summary, runStatus')
  <2>1. HonestList(outcomes, runStatus) /\ HonestList(summary, runStatus)
    BY DEF EvalInv
  <2>2. Len(runStatus') \in Nat /\ Len(runStatus) <= Len(runStatus')
    BY <1>2, <1>3
  <2>3. \A k \in 1 .. Len(runStatus) : runStatus[k] = "succeeded" => runStatus'[k] = "succeeded"
    BY <1>3
  <2> QED
    BY <1>2, <2>1, <2>2, <2>3, HonestListsStay
<1>5. \A i \in 1 .. Len(outcomes) : outcomes[i].run \in 0 .. Len(runStatus)
  BY DEF EvalInv, HonestList
<1>6. HarnessIsInStep'
  BY <1>1, <1>2, <1>5 DEF EvalInv, HarnessIsInStep
<1>7. HarnessTypes'
  BY <1>1, <1>2, <1>3 DEF EvalInv, HarnessTypes
<1> QED
  BY <1>1, <1>4, <1>6, <1>7 DEF EvalInv, ProposalNames

(* An outcome is of the task at hand.                                      *)
LEMMA RecordIsRight ==
  ASSUME EvalInv, harness \in {"create", "score"}, NEW r, NEW v \in Verdicts, Record(r, v),
         runStatus' \in Seq(RunStatuses), Len(runStatus) <= Len(runStatus'),
         \A k \in 1 .. Len(runStatus) : runStatus'[k] = runStatus[k],
         r \in 0 .. Len(runStatus), v = "passed" => r # 0 /\ runStatus[r] = "succeeded",
         \A i \in 1 .. Len(outcomes) : outcomes[i].run = r => r = 0,
         UNCHANGED <<unit, selected, summary, proposals>>
  PROVE  EvalInv'
<1> DEFINE o == [task |-> Current, run |-> r, verdict |-> v]
<1>1. /\ outcomes' = Append(outcomes, o) /\ run' = 0
      /\ harness' = IF Len(outcomes) + 1 = Len(selected) THEN "summary" ELSE "create"
  BY DEF Record
<1>2. /\ Len(outcomes) \in Nat /\ Len(selected) \in Nat /\ Len(outcomes) < Len(selected)
      /\ Len(runStatus) \in Nat /\ Len(runStatus') \in Nat
      /\ outcomes \in Seq(EvalOutcome) /\ selected \in Seq(SuiteTasks)
  BY LenProperties DEF EvalInv, HarnessTypes, HarnessIsInStep
<1>3. Len(outcomes) + 1 \in 1 .. Len(selected)
  BY <1>2
<1>4. Current \in SuiteTasks /\ Current = selected[Len(outcomes) + 1]
  BY <1>2, <1>3, ElementOfSeq DEF Current
<1>5. o \in EvalOutcome /\ o.task = Current /\ o.run = r /\ o.verdict = v
  BY <1>2, <1>4 DEF EvalOutcome
<1> HIDE DEF o
<1>6. /\ outcomes' \in Seq(EvalOutcome) /\ Len(outcomes') = Len(outcomes) + 1
      /\ outcomes'[Len(outcomes) + 1] = o
      /\ \A i \in 1 .. Len(outcomes) : outcomes'[i] = outcomes[i]
  BY <1>1, <1>2, <1>5, AppendProperties
<1>7. \A i \in 1 .. Len(outcomes) : outcomes[i].task # o.task
  <2> TAKE i \in 1 .. Len(outcomes)
  <2>1. outcomes[i].task = selected[i]
    BY DEF EvalInv
  <2>2. i \in 1 .. Len(selected) /\ i # Len(outcomes) + 1
    BY <1>2
  <2>3. selected[i] # selected[Len(outcomes) + 1]
    BY <1>3, <2>2 DEF EvalInv
  <2> QED
    BY <1>4, <1>5, <2>1, <2>3
<1>8. HonestList(outcomes', runStatus') /\ HonestList(summary, runStatus')
  <2>1. HonestList(outcomes, runStatus) /\ HonestList(summary, runStatus)
    BY DEF EvalInv
  <2>2. HonestList(outcomes', runStatus)
    BY <1>1, <1>2, <1>5, <1>7, <2>1, HonestListsGrow
  <2>3. \A k \in 1 .. Len(runStatus) : runStatus[k] = "succeeded" => runStatus'[k] = "succeeded"
    OBVIOUS
  <2> QED
    BY <1>2, <2>1, <2>2, <2>3, HonestListsStay
<1>9. \A i \in 1 .. Len(outcomes') : outcomes'[i].task = selected[i]
  <2> TAKE i \in 1 .. Len(outcomes')
  <2>1. CASE i \in 1 .. Len(outcomes)
    BY <1>6, <2>1 DEF EvalInv
  <2>2. CASE i = Len(outcomes) + 1
    BY <1>4, <1>5, <1>6, <2>2
  <2> QED
    BY <1>2, <1>6, <2>1, <2>2
<1>10. HarnessIsInStep'
  BY <1>1, <1>2, <1>6 DEF EvalInv, HarnessIsInStep
<1>11. HarnessTypes'
  BY <1>1, <1>2, <1>6 DEF EvalInv, HarnessTypes
<1> QED
  BY <1>2, <1>6, <1>8, <1>9, <1>10, <1>11 DEF EvalInv, ProposalNames

(* A creation that failed is an outcome of no run, even if a run was made. *)
LEMMA CreateFailsIsRight ==
  ASSUME EvalInv, CreateFails
  PROVE  EvalInv'
<1>1. /\ harness = "create" /\ Record(0, "error")
      /\ UNCHANGED <<unit, selected, summary, proposals>>
      /\ runStatus' \in {runStatus, Append(runStatus, "running")}
  BY DEF CreateFails, diskPart
<1>2. runStatus \in Seq(RunStatuses) /\ Len(runStatus) \in Nat /\ "running" \in RunStatuses
  BY LenProperties DEF EvalInv, HarnessTypes, RunStatuses
<1>3. /\ Append(runStatus, "running") \in Seq(RunStatuses)
      /\ Len(Append(runStatus, "running")) = Len(runStatus) + 1
      /\ \A k \in 1 .. Len(runStatus) : Append(runStatus, "running")[k] = runStatus[k]
  BY <1>2, AppendProperties
<1>4. /\ runStatus' \in Seq(RunStatuses) /\ Len(runStatus) <= Len(runStatus')
      /\ \A k \in 1 .. Len(runStatus) : runStatus'[k] = runStatus[k]
  BY <1>1, <1>2, <1>3
<1>5. "error" \in Verdicts /\ 0 \in 0 .. Len(runStatus)
  BY <1>2 DEF Verdicts
<1> QED
  BY <1>1, <1>4, <1>5, RecordIsRight

(* The polling of a run ends with its status or with the patience.         *)
LEMMA PollEndsIsRight ==
  ASSUME EvalInv, PollEnds
  PROVE  EvalInv'
<1>1. /\ harness = "poll" /\ harness' = "score" /\ (ended' = "timeout" \/ ended' = runStatus[run])
      /\ UNCHANGED <<unit, selected, run, outcomes, summary, proposals, runStatus>>
  BY DEF PollEnds, diskPart
<1>2. HarnessTypes' /\ HarnessIsInStep'
  BY <1>1 DEF EvalInv, HarnessTypes, HarnessIsInStep
<1>3. HonestList(outcomes, runStatus)' /\ HonestList(summary, runStatus)'
  BY <1>1 DEF EvalInv, HonestList
<1>4. ProposalNames' = ProposalNames
  BY <1>1 DEF ProposalNames
<1> QED
  BY <1>1, <1>2, <1>3, <1>4 DEF EvalInv

(* Only the run that has succeeded passes, whatever record is found.       *)
LEMMA HarnessScoresIsRight ==
  ASSUME EvalInv, HarnessScores
  PROVE  EvalInv'
<1>1. PICK trajectory \in {"none", "completed", "verified_failure"},
           verify \in {"none", "pass", "fail"} : Record(run, Score(ended, trajectory, verify))
  BY DEF HarnessScores
<1> DEFINE v == Score(ended, trajectory, verify)
<1>2. v \in Verdicts /\ (v = "passed" => ended = "succeeded")
  BY DEF Score, Verdicts
<1> HIDE DEF v
<1>3. /\ harness = "score" /\ UNCHANGED <<unit, selected, summary, proposals, runStatus>>
  BY DEF HarnessScores, diskPart
<1>4. /\ runStatus \in Seq(RunStatuses) /\ Len(runStatus) \in Nat
      /\ run \in 0 .. Len(runStatus) /\ run # 0
      /\ \A i \in 1 .. Len(outcomes) : outcomes[i].run # run
      /\ ended = "timeout" \/ ended = runStatus[run]
  BY <1>3, LenProperties DEF EvalInv, HarnessTypes, HarnessIsInStep
<1>5. v = "passed" => runStatus[run] = "succeeded"
  BY <1>2, <1>4
<1>6. Record(run, v)
  BY <1>1 DEF v
<1> QED
  BY <1>2, <1>3, <1>4, <1>5, <1>6, RecordIsRight

(* The summary holds the outcomes of this cycle, whatever cycle was there. *)
LEMMA HarnessDumpsIsRight ==
  ASSUME EvalInv, HarnessDumps
  PROVE  EvalInv'
<1>1. /\ harness = "summary" /\ harness' = "propose" /\ summary' = outcomes
      /\ UNCHANGED <<unit, selected, run, ended, outcomes, proposals, runStatus>>
  BY DEF HarnessDumps
<1>2. HarnessTypes' /\ HarnessIsInStep'
  BY <1>1 DEF EvalInv, HarnessTypes, HarnessIsInStep
<1>3. HonestList(outcomes, runStatus)' /\ HonestList(summary, runStatus)'
  BY <1>1 DEF EvalInv, HonestList
<1>4. ProposalNames' = ProposalNames
  BY <1>1 DEF ProposalNames
<1> QED
  BY <1>1, <1>2, <1>3, <1>4 DEF EvalInv

(* One more proposal leaves the others as they are.                        *)
LEMMA HarnessProposesIsRight ==
  ASSUME EvalInv, HarnessProposes
  PROVE  EvalInv'
<1>1. harness = "propose" /\ UNCHANGED <<summary, runStatus>>
  BY DEF HarnessProposes
<1>2. CASE proposed = Len(outcomes)
  <2>1. Forgets /\ proposals' = proposals
    BY <1>2 DEF HarnessProposes, Exits
  <2> QED
    BY <1>1, <2>1, ForgettingIsRight DEF diskPart
<1>3. CASE proposed # Len(outcomes)
  <2>1. UNCHANGED <<unit, harness, selected, run, ended, outcomes>>
    BY <1>3 DEF HarnessProposes
  <2>2. IsFiniteSet(ProposalNames')
    <3>1. \/ proposals' = proposals
          \/ \E n : ProposalNames' = ProposalNames \cup {n}
      BY <1>3 DEF HarnessProposes, ProposalNames
    <3>2. IsFiniteSet(ProposalNames)
      BY DEF EvalInv
    <3> QED
      BY <3>1, <3>2, FS_AddElement DEF ProposalNames
  <2> QED
    BY <1>1, <2>1, <2>2 DEF EvalInv, HarnessTypes, HarnessIsInStep, HonestList
<1> QED
  BY <1>2, <1>3

(* A run that ends was running: nothing has passed because of it.          *)
LEMMA RunEndsIsRight ==
  ASSUME EvalInv, RunEnds
  PROVE  EvalInv'
<1>1. PICK s \in {"succeeded", "failed"} : runStatus' = [runStatus EXCEPT ![run] = s]
  BY DEF RunEnds
<1>2. /\ harness = "poll" /\ runStatus[run] = "running"
      /\ UNCHANGED <<unit, harness, selected, run, ended, outcomes, summary, proposals>>
  BY DEF RunEnds, harnessPart, diskPart
<1>3. /\ runStatus \in Seq(RunStatuses) /\ Len(runStatus) \in Nat
      /\ run \in 1 .. Len(runStatus) /\ s \in RunStatuses
  BY <1>2, LenProperties DEF EvalInv, HarnessTypes, HarnessIsInStep, RunStatuses
<1>4. /\ runStatus' \in Seq(RunStatuses) /\ Len(runStatus') = Len(runStatus)
      /\ \A k \in 1 .. Len(runStatus) : k # run => runStatus'[k] = runStatus[k]
  BY <1>1, <1>3, ExceptSeq
<1>5. \A k \in 1 .. Len(runStatus) : runStatus[k] = "succeeded" => runStatus'[k] = "succeeded"
  BY <1>2, <1>4
<1>6. HonestList(outcomes, runStatus') /\ HonestList(summary, runStatus')
  <2>1. HonestList(outcomes, runStatus) /\ HonestList(summary, runStatus)
    BY DEF EvalInv
  <2>2. Len(runStatus') \in Nat /\ Len(runStatus) <= Len(runStatus')
    BY <1>3, <1>4
  <2> QED
    BY <1>3, <1>5, <2>1, <2>2, HonestListsStay
<1>7. HarnessIsInStep'
  BY <1>2 DEF EvalInv, HarnessIsInStep
<1>8. HarnessTypes'
  BY <1>2, <1>3, <1>4 DEF EvalInv, HarnessTypes
<1> QED
  BY <1>2, <1>6, <1>7, <1>8 DEF EvalInv, ProposalNames

(* Every step of the cycle keeps its books.                                *)
LEMMA EvalStaysRight ==
  EvalInv /\ [EvalNext]_evalVars => EvalInv'
<1>1. ASSUME EvalInv,
             \/ PostRun \/ LaunchSucceeds \/ LaunchRefused \/ LaunchRaises \/ ReaperEnds
             \/ ReaperRaises \/ BffRestarts \/ TerminalStarts \/ UNCHANGED evalVars
      PROVE  EvalInv'
  <2>1. UNCHANGED <<unit, harnessPart, diskPart, runStatus>>
    BY <1>1 DEF PostRun, LaunchSucceeds, LaunchRefused, LaunchRaises, ReaperEnds, ReaperRaises,
         BffRestarts, TerminalStarts, evalVars
  <2> QED
    BY <1>1, <2>1, BffMovesAreRight
<1>2. ASSUME EvalInv, UnitIsKilled \/ ManifestFails \/ ResolveFails
      PROVE  EvalInv'
  <2>1. Forgets /\ UNCHANGED <<diskPart, runStatus>>
    BY <1>2 DEF UnitIsKilled, ManifestFails, ResolveFails, Exits
  <2> QED
    BY <1>2, <2>1, ForgettingIsRight
<1>3. ASSUME EvalInv, HarnessStep \/ UnitStarts \/ CreateFails \/ RunEnds
      PROVE  EvalInv'
  BY <1>3, HarnessSelectsIsRight, HarnessResolvesIsRight, CreateSucceedsIsRight, PollEndsIsRight,
     HarnessScoresIsRight, HarnessDumpsIsRight, HarnessProposesIsRight, UnitStartsIsRight,
     CreateFailsIsRight, RunEndsIsRight DEF HarnessStep
<1> QED
  BY <1>1, <1>2, <1>3 DEF EvalNext

(* For every manifest, strategy and limit, and however calls fail and late *)
(* statuses come: the summary on disk has one outcome per task of its      *)
(* cycle, each of a run of its own, and what it calls passed has succeeded.*)
THEOREM SummariesAreHonest ==
  EvalSpec => []SummaryIsHonest
<1>1. ASSUME EvalInv PROVE SummaryIsHonest
  <2>1. /\ DOMAIN outcomes = 1 .. Len(outcomes) /\ DOMAIN summary = 1 .. Len(summary)
        /\ HonestList(outcomes, runStatus) /\ HonestList(summary, runStatus)
    BY <1>1, LenProperties DEF EvalInv, HarnessTypes
  <2>2. harness = "propose" => summary = outcomes /\ Len(outcomes) = Len(selected)
    BY <1>1 DEF EvalInv, HarnessIsInStep
  <2>3. ASSUME NEW s \in {summary, outcomes}, NEW i \in DOMAIN s
        PROVE  /\ s[i].verdict = "passed" => s[i].run # 0 /\ runStatus[s[i].run] = "succeeded"
               /\ \A j \in DOMAIN s : i # j => /\ s[i].task # s[j].task
                                               /\ (s[i].run = s[j].run => s[i].run = 0)
    BY <2>1, <2>3, SMTT(40) DEF HonestList
  <2> QED
    BY <2>2, <2>3 DEF SummaryIsHonest
<1> QED
  BY <1>1, EvalStartsRight, EvalStaysRight, PTL DEF EvalSpec

(* The rest of the cycle's types: the counter of proposals keeps to the    *)
(* outcomes, and the unit is active exactly while there is a harness.      *)
LEMMA EvalTypesStay ==
  ASSUME EvalInv, EvalInv', EvalTypeOK, [EvalNext]_evalVars
  PROVE  EvalTypeOK'
<1>1. /\ Len(outcomes) \in Nat /\ proposed \in 0 .. Len(outcomes) /\ Len(outcomes') \in Nat
      /\ outcomes \in Seq(EvalOutcome) /\ run' \in 0 .. Len(runStatus') /\ HarnessTypes'
  BY LenProperties DEF EvalInv, HarnessTypes, EvalTypeOK
<1>2. CASE UNCHANGED evalVars
  BY <1>2 DEF EvalTypeOK, evalVars, bffPart, harnessPart
<1>3. /\ flag' \in BOOLEAN /\ queued' \in BOOLEAN /\ lastResult' \in {"none", "ok", "bad"}
      /\ launcher' \in {"idle", "launching", "stuck"} /\ reaper' \in {"off", "polling"}
  BY DEF EvalTypeOK, EvalNext, HarnessStep, PostRun, LaunchSucceeds, LaunchRefused, LaunchRaises,
     ReaperEnds, ReaperRaises, BffRestarts, TerminalStarts, UnitStarts, UnitIsKilled,
     ManifestFails, ResolveFails, CreateFails, RunEnds, HarnessSelects, HarnessResolves,
     CreateSucceeds, PollEnds, HarnessScores, HarnessDumps, HarnessProposes, evalVars, bffPart
<1>4. ASSUME \/ PostRun \/ LaunchSucceeds \/ LaunchRefused \/ LaunchRaises \/ ReaperEnds
             \/ ReaperRaises \/ BffRestarts \/ TerminalStarts \/ RunEnds
      PROVE  UNCHANGED <<unit, harness, outcomes, proposed>>
  BY <1>4 DEF PostRun, LaunchSucceeds, LaunchRefused, LaunchRaises, ReaperEnds, ReaperRaises,
     BffRestarts, TerminalStarts, RunEnds, harnessPart
<1>5. ASSUME UnitIsKilled \/ ManifestFails \/ ResolveFails
      PROVE  unit' \in {"inactive", "failed"} /\ harness' = "off" /\ proposed' = 0
  BY <1>5 DEF UnitIsKilled, ManifestFails, ResolveFails, Exits, Forgets
<1>6. ASSUME UnitStarts
      PROVE  /\ UNCHANGED <<outcomes, proposed>>
             /\ \/ UNCHANGED <<unit, harness>>
                \/ unit' = "activating" /\ harness' # "off"
  BY <1>6 DEF UnitStarts, harnessPart
<1>7. ASSUME HarnessSelects \/ HarnessProposes
      PROVE  \/ unit' = "inactive" /\ harness' = "off" /\ proposed' = 0
             \/ /\ UNCHANGED <<unit, outcomes>> /\ harness # "off" /\ harness' # "off"
                /\ proposed' = proposed \/ (proposed # Len(outcomes) /\ proposed' = proposed + 1)
  BY <1>7 DEF HarnessSelects, HarnessProposes, Exits, Forgets
<1>8. ASSUME \/ HarnessResolves \/ CreateSucceeds \/ PollEnds \/ HarnessScores \/ HarnessDumps
             \/ CreateFails
      PROVE  /\ UNCHANGED <<unit, proposed>> /\ harness # "off" /\ harness' # "off"
             /\ outcomes' = outcomes \/ \E o : outcomes' = Append(outcomes, o)
  BY <1>8 DEF HarnessResolves, CreateSucceeds, PollEnds, HarnessScores, HarnessDumps, CreateFails,
     Record
<1>9. ASSUME NEW o, outcomes' = Append(outcomes, o) PROVE Len(outcomes') = Len(outcomes) + 1
  BY <1>1, <1>9
<1>10. ASSUME EvalNext
       PROVE  /\ unit' \in {"inactive", "activating", "failed"}
              /\ (unit' = "activating") = (harness' # "off")
              /\ proposed' \in 0 .. Len(outcomes')
  <2>1. CASE \/ PostRun \/ LaunchSucceeds \/ LaunchRefused \/ LaunchRaises \/ ReaperEnds
             \/ ReaperRaises \/ BffRestarts \/ TerminalStarts \/ RunEnds
    BY <1>4, <2>1 DEF EvalTypeOK
  <2>2. CASE UnitIsKilled \/ ManifestFails \/ ResolveFails
    BY <1>1, <1>5, <2>2
  <2>3. CASE UnitStarts
    BY <1>6, <2>3 DEF EvalTypeOK
  <2>4. CASE HarnessSelects \/ HarnessProposes
    BY <1>1, <1>7, <2>4 DEF EvalTypeOK
  <2>5. CASE \/ HarnessResolves \/ CreateSucceeds \/ PollEnds \/ HarnessScores \/ HarnessDumps
             \/ CreateFails
    <3>1. proposed' \in 0 .. Len(outcomes')
      BY <1>1, <1>8, <1>9, <2>5
    <3> QED
      BY <1>8, <2>5, <3>1 DEF EvalTypeOK
  <2> QED
    BY <1>10, <2>1, <2>2, <2>3, <2>4, <2>5 DEF EvalNext, HarnessStep
<1> QED
  BY <1>1, <1>2, <1>3, <1>10 DEF EvalTypeOK, HarnessTypes

(* In every run of the cycle: there is a harness exactly while the unit is *)
(* active, whatever is killed or restarted, and the proposer is never past *)
(* the outcomes.                                                           *)
THEOREM EvalTypeCorrect ==
  EvalSpec => []EvalTypeOK
<1>1. ASSUME EvalInit PROVE EvalTypeOK
  <2>1. Len(<<>>) = 0 /\ run = 0 /\ proposed = 0 /\ outcomes = <<>> /\ runStatus = <<>>
    BY <1>1 DEF EvalInit
  <2>2. run \in 0 .. Len(runStatus) /\ proposed \in 0 .. Len(outcomes)
    BY <2>1
  <2>3. (unit = "activating") = (harness # "off")
    BY <1>1 DEF EvalInit
  <2> QED
    BY <1>1, <2>2, <2>3 DEF EvalInit, EvalTypeOK
<1> QED
  BY <1>1, EvalStartsRight, EvalStaysRight, EvalTypesStay, PTL DEF EvalSpec

(* No cycle of the day takes a proposal of another away or writes over it. *)
THEOREM ProposalsStay ==
  EvalSpec => ProposalsArePreserved
<1> DEFINE Safe == \A n \in ProposalNames : n \in DOMAIN proposals' /\ proposals'[n] = proposals[n]
<1>1. ASSUME EvalInv, HarnessProposes PROVE Safe
  <2>1. CASE proposals' = proposals
    BY <2>1 DEF ProposalNames
  <2>2. CASE proposals' # proposals
    <3> DEFINE o == outcomes[proposed + 1]
    <3>1. proposals' = [x \in ProposalNames \cup {FreshName(o)} |->
                          IF x = FreshName(o) THEN evalCount.written + 1 ELSE proposals[x]]
      BY <1>1, <2>2 DEF HarnessProposes
    <3>2. FreshName(o) \notin ProposalNames
      BY <1>1, FreshNameIsFresh DEF EvalInv
    <3> HIDE DEF o
    <3> QED
      BY <3>1, <3>2
  <2> QED
    BY <2>1, <2>2
<1>2. ASSUME EvalNext, ~HarnessProposes PROVE proposals' = proposals
  BY <1>2 DEF EvalNext, HarnessStep, PostRun, LaunchSucceeds, LaunchRefused, LaunchRaises,
     ReaperEnds, ReaperRaises, BffRestarts, TerminalStarts, UnitStarts, UnitIsKilled,
     ManifestFails, ResolveFails, CreateFails, RunEnds, HarnessSelects, HarnessResolves,
     CreateSucceeds, PollEnds, HarnessScores, HarnessDumps, diskPart
<1>3. EvalInv /\ [EvalNext]_evalVars => [Safe]_evalVars
  BY <1>1, <1>2 DEF ProposalNames
<1> QED
  BY <1>3, EvalStartsRight, EvalStaysRight, PTL DEF EvalSpec, ProposalsArePreserved

-----------------------------------------------------------------------------
(***************************************************************************)
(* BffThreads: the presets have one default and the settings hold what     *)
(* was patched, unless the handlers that write them overlapped.            *)
(***************************************************************************)

\* What a sequence holds.
Held(s) == {s[i] : i \in DOMAIN s}
Once(s) == \A i, j \in DOMAIN s : s[i] = s[j] => i = j

(* A sequence that takes an element holds it besides what it held.         *)
LEMMA AppendHolds ==
  ASSUME NEW S, NEW s \in Seq(S), NEW e \in S
  PROVE  Append(s, e) \in Seq(S) /\ Held(Append(s, e)) = Held(s) \cup {e}
<1>1. /\ Append(s, e) \in Seq(S) /\ Len(Append(s, e)) = Len(s) + 1
      /\ \A i \in 1 .. Len(s) : Append(s, e)[i] = s[i]
      /\ Append(s, e)[Len(s) + 1] = e
  BY AppendProperties
<1> DEFINE t == Append(s, e)
<1>2. /\ DOMAIN t = 1 .. Len(s) + 1 /\ DOMAIN s = 1 .. Len(s) /\ Len(s) \in Nat
      /\ t[Len(s) + 1] = e /\ \A i \in 1 .. Len(s) : t[i] = s[i]
  BY <1>1, LenProperties
<1> HIDE DEF t
<1>3. Held(t) = Held(s) \cup {e}
  <2>1. \A i \in 1 .. Len(s) + 1 : i \in 1 .. Len(s) \/ i = Len(s) + 1
    BY <1>2
  <2>2. \A i \in 1 .. Len(s) : i \in 1 .. Len(s) + 1
    BY <1>2
  <2>3. Len(s) + 1 \in 1 .. Len(s) + 1
    BY <1>2
  <2> QED
    BY <1>2, <2>1, <2>2, <2>3 DEF Held
<1> QED
  BY <1>1, <1>3 DEF t

(* Taking the element at an index out of a sequence leaves the others.     *)
LEMMA RemoveAtHolds ==
  ASSUME NEW S, NEW s \in Seq(S), NEW j \in 1 .. Len(s)
  PROVE  /\ RemoveAt(s, j) \in Seq(S)
         /\ Held(RemoveAt(s, j)) \subseteq Held(s)
         /\ \A i \in 1 .. Len(s) : i # j => s[i] \in Held(RemoveAt(s, j))
         /\ Once(s) => Once(RemoveAt(s, j))
<1> DEFINE u == SubSeq(s, 1, j - 1)
           w == SubSeq(s, j + 1, Len(s))
<1>1. /\ Len(s) \in Nat /\ DOMAIN s = 1 .. Len(s) /\ 1 \in Int /\ j \in Int /\ j - 1 \in Int
      /\ j + 1 \in Int /\ Len(s) \in Int
  BY LenProperties
<1>2. /\ \A i \in 1 .. j - 1 : s[i] \in S
      /\ \A i \in j + 1 .. Len(s) : s[i] \in S
  BY <1>1, ElementOfSeq
<1>3. /\ u \in Seq(S) /\ Len(u) = j - 1
      /\ \A i \in 1 .. j - 1 : u[i] = s[i]
  <2>1. /\ u \in Seq(S) /\ Len(u) = IF 1 <= j - 1 THEN j - 1 - 1 + 1 ELSE 0
        /\ \A i \in 1 .. j - 1 - 1 + 1 : u[i] = s[1 + i - 1]
    BY <1>1, <1>2, SubSeqProperties
  <2>2. \A i \in 1 .. j - 1 : i \in 1 .. j - 1 - 1 + 1 /\ 1 + i - 1 = i
    BY <1>1
  <2>3. (IF 1 <= j - 1 THEN j - 1 - 1 + 1 ELSE 0) = j - 1
    BY <1>1
  <2> HIDE DEF u
  <2> QED
    BY <2>1, <2>2, <2>3
<1>4. /\ w \in Seq(S) /\ Len(w) = Len(s) - j
      /\ \A i \in 1 .. Len(s) - j : w[i] = s[j + i]
  <2>1. /\ w \in Seq(S)
        /\ Len(w) = IF j + 1 <= Len(s) THEN Len(s) - (j + 1) + 1 ELSE 0
        /\ \A i \in 1 .. Len(s) - (j + 1) + 1 : w[i] = s[(j + 1) + i - 1]
    BY <1>1, <1>2, SubSeqProperties
  <2>2. \A i \in 1 .. Len(s) - j : i \in 1 .. Len(s) - (j + 1) + 1 /\ (j + 1) + i - 1 = j + i
    BY <1>1, SMTT(40)
  <2>3. (IF j + 1 <= Len(s) THEN Len(s) - (j + 1) + 1 ELSE 0) = Len(s) - j
    <3>1. \A n \in Nat : \A k \in 1 .. n :
            (IF k + 1 <= n THEN n - (k + 1) + 1 ELSE 0) = n - k
      OBVIOUS
    <3> QED
      BY <1>1, <3>1
  <2> HIDE DEF w
  <2> QED
    BY <2>1, <2>2, <2>3
<1>5. RemoveAt(s, j) = u \o w
  BY DEF RemoveAt
<1> HIDE DEF u, w
<1> DEFINE t == u \o w
<1>6. /\ t \in Seq(S) /\ Len(t) = Len(u) + Len(w)
      /\ \A i \in 1 .. Len(u) + Len(w) : t[i] = IF i <= Len(u) THEN u[i] ELSE w[i - Len(u)]
  BY <1>3, <1>4, ConcatProperties
<1>7. DOMAIN t = 1 .. Len(s) - 1
  <2>1. \A n \in Nat : \A k \in 1 .. n : k - 1 + (n - k) = n - 1
    OBVIOUS
  <2>2. Len(u) + Len(w) = Len(s) - 1
    BY <1>1, <1>3, <1>4, <2>1
  <2>3. DOMAIN t = 1 .. Len(t)
    BY <1>6, LenProperties
  <2> HIDE DEF t
  <2> QED
    BY <1>6, <2>2, <2>3
<1> HIDE DEF t
<1>8. \A i \in 1 .. Len(s) - 1 : t[i] = IF i < j THEN s[i] ELSE s[i + 1]
  <2> TAKE i \in 1 .. Len(s) - 1
  <2>1. CASE i < j
    <3>1. i \in 1 .. j - 1 /\ i <= Len(u) /\ i \in 1 .. Len(u) + Len(w)
      BY <1>1, <1>3, <1>4, <2>1
    <3> QED
      BY <1>3, <1>6, <2>1, <3>1
  <2>2. CASE ~ (i < j)
    <3>1. /\ i - (j - 1) \in 1 .. Len(s) - j /\ j + (i - (j - 1)) = i + 1
          /\ ~ (i <= Len(u)) /\ i \in 1 .. Len(u) + Len(w) /\ i - Len(u) = i - (j - 1)
      BY <1>1, <1>3, <1>4, <2>2
    <3>2. t[i] = w[i - (j - 1)]
      BY <1>6, <3>1
    <3>3. w[i - (j - 1)] = s[j + (i - (j - 1))]
      BY <1>4, <3>1
    <3> QED
      BY <2>2, <3>1, <3>2, <3>3
  <2> QED
    BY <2>1, <2>2
<1>9. Held(t) \subseteq Held(s)
  <2>1. \A i \in 1 .. Len(s) - 1 : i \in 1 .. Len(s) /\ i + 1 \in 1 .. Len(s)
    BY <1>1
  <2> QED
    BY <1>1, <1>7, <1>8, <2>1 DEF Held
<1>10. ASSUME NEW i \in 1 .. Len(s), i # j PROVE s[i] \in Held(t)
  <2>1. CASE i < j
    <3>1. i \in 1 .. Len(s) - 1
      BY <1>1, <2>1
    <3> QED
      BY <1>7, <1>8, <2>1, <3>1 DEF Held
  <2>2. CASE ~ (i < j)
    <3>1. i - 1 \in 1 .. Len(s) - 1 /\ ~ (i - 1 < j) /\ i - 1 + 1 = i
      BY <1>1, <1>10, <2>2
    <3>2. t[i - 1] = s[i]
      BY <1>8, <3>1
    <3> QED
      BY <1>7, <3>1, <3>2 DEF Held
  <2> QED
    BY <2>1, <2>2
<1>11. Once(s) => Once(t)
  <2> SUFFICES ASSUME Once(s), NEW i \in 1 .. Len(s) - 1, NEW k \in 1 .. Len(s) - 1, t[i] = t[k]
               PROVE  i = k
    BY <1>7 DEF Once
  <2>1. PICK a \in 1 .. Len(s) : t[i] = s[a] /\ a = IF i < j THEN i ELSE i + 1
    BY <1>1, <1>8
  <2>2. PICK b \in 1 .. Len(s) : t[k] = s[b] /\ b = IF k < j THEN k ELSE k + 1
    BY <1>1, <1>8
  <2>3. a = b
    BY <1>1, <2>1, <2>2 DEF Once
  <2> QED
    BY <1>1, <2>1, <2>2, <2>3
<1> QED
  BY <1>5, <1>6, <1>9, <1>10, <1>11 DEF t

(* RemoveFirst takes away one occurrence of an element and nothing else.   *)
LEMMA RemoveFirstHolds ==
  ASSUME NEW S, NEW s \in Seq(S), NEW e
  PROVE  /\ RemoveFirst(s, e) \in Seq(S)
         /\ Held(RemoveFirst(s, e)) \subseteq Held(s)
         /\ \A x \in Held(s) : x # e => x \in Held(RemoveFirst(s, e))
         /\ Once(s) => Once(RemoveFirst(s, e))
<1>1. CASE \E i \in 1 .. Len(s) : s[i] = e
  <2> DEFINE I == {i \in 1 .. Len(s) : s[i] = e}
  <2>1. PICK j \in I : \A k \in I : j <= k
    <3>1. I \in SUBSET Nat /\ I # {}
      BY <1>1
    <3> HIDE DEF I
    <3> QED
      BY <3>1, LeastNatural
  <2>2. SelectInSeq(s, LAMBDA v : v = e) = Min(I)
    BY <1>1 DEF SelectInSeq
  <2>3. Min(I) \in I
    <3> HIDE DEF I
    <3> QED
      BY <2>1 DEF Min
  <2>4. RemoveFirst(s, e) = RemoveAt(s, Min(I))
    BY <1>1, <2>2 DEF RemoveFirst
  <2>5. Min(I) \in 1 .. Len(s) /\ s[Min(I)] = e
    BY <2>3
  <2> HIDE DEF I
  <2>6. DOMAIN s = 1 .. Len(s)
    BY LenProperties
  <2>7. /\ RemoveAt(s, Min(I)) \in Seq(S)
        /\ Held(RemoveAt(s, Min(I))) \subseteq Held(s)
        /\ \A i \in 1 .. Len(s) : i # Min(I) => s[i] \in Held(RemoveAt(s, Min(I)))
        /\ Once(s) => Once(RemoveAt(s, Min(I)))
    BY <2>5, RemoveAtHolds
  <2>8. ASSUME NEW x \in Held(s), x # e PROVE x \in Held(RemoveAt(s, Min(I)))
    <3>1. PICK i \in 1 .. Len(s) : s[i] = x
      BY <2>6 DEF Held
    <3> QED
      BY <2>5, <2>7, <2>8, <3>1
  <2> QED
    BY <2>4, <2>7, <2>8
<1>2. CASE ~ \E i \in 1 .. Len(s) : s[i] = e
  BY <1>2 DEF RemoveFirst
<1> QED
  BY <1>1, <1>2

-----------------------------------------------------------------------------
Ops     == PresetOps \cup {"none", "settings"}
Handler == [op : Ops, pc : {"idle", "read", "assign"}, num : Nat, id : Nat, at : Nat, size : Nat,
            held : BOOLEAN, data : [SettingFields -> Nat]]

Copies(t)  == thread[t].op = "duplicate"
Setting(t) == thread[t].op = "set-default"
OnPreset(t) == thread[t].op \in PresetOps

\* A key that is in use, or was: no duplicate that is under way will make it.
Used(k) == k \in 1 .. Seeded + ops /\ \A t \in Threads : Copies(t) => k # NewKey(thread[t].num)

ThreadTypes ==
  /\ keys \in Seq(Ids) /\ preset \in [Ids -> BOOLEAN] /\ ops \in 0 .. MaxOps
  /\ crossed \in BOOLEAN /\ mixed \in BOOLEAN
  /\ thread \in [Threads -> Handler]
  /\ settings \in [SettingFields -> Nat] /\ patched \in [SettingFields -> Nat]
  /\ \A t \in Threads : thread[t].pc = "idle" => thread[t].op = "none"

\* Duplicates under way make keys of their own.
KeysAreFresh ==
  /\ \A t \in Threads : Copies(t) => thread[t].num \in 1 .. ops
  /\ \A t, u \in Threads : Copies(t) /\ Copies(u) /\ thread[t].num = thread[u].num => t = u
  /\ \A k \in Held(keys) : Used(k)
  /\ \A t \in Threads : OnPreset(t) => Used(thread[t].id)
  /\ \A t \in Threads : Setting(t) /\ thread[t].pc = "assign" => Used(thread[t].num)

\* d is the one default, and who has read a preset knows whether it is the one.
DefaultIs(d) ==
  /\ d \in Held(keys) /\ d \in Ids
  /\ \A k \in Ids : preset[k] <=> k = d
  /\ \A t \in Threads : /\ thread[t].op = "patch" => (thread[t].held <=> thread[t].id = d)
                        /\ thread[t].op = "delete" => thread[t].id # d

\* The walk of a set-default: behind it the presets are set, before it they are as they were.
Walked(t) == {keys[i] : i \in 1 .. (IF thread[t].pc = "assign" THEN thread[t].at - 1
                                    ELSE thread[t].at)}
WalkIsOn(t) ==
  /\ \A u \in Threads : OnPreset(u) => u = t
  /\ thread[t].id \in Held(keys) /\ thread[t].size = Len(keys) /\ thread[t].at <= Len(keys)
  /\ thread[t].pc = "assign" => thread[t].at > 0 /\ thread[t].num = keys[thread[t].at]
  /\ \E d \in Held(keys) : \A k \in Ids :
       preset[k] <=> IF k \in Walked(t) THEN k = thread[t].id ELSE k = d

DefaultIsOne ==
  ~crossed => /\ \A t \in Threads : Setting(t) => WalkIsOn(t)
              /\ (\A t \in Threads : ~Setting(t)) => \E d \in Ids : DefaultIs(d)

\* Only one writer of the settings is under way, and what it has read is what there is.
SettingsAreRead ==
  ~mixed => /\ settings = patched
            /\ \A t \in Threads : thread[t].op = "settings" =>
                 /\ thread[t].data = settings
                 /\ \A u \in Threads : thread[u].op = "settings" => u = t

ThreadInv == ThreadTypes /\ KeysAreFresh /\ DefaultIsOne /\ SettingsAreRead

(* A step of one thread leaves the others where they are.                  *)
LEMMA OneThreadSteps ==
  ASSUME ThreadTypes, NEW t \in Threads, NEW r \in Handler, Step(t, r)
  PROVE  /\ thread' \in [Threads -> Handler] /\ thread'[t] = r
         /\ \A u \in Threads : u # t => thread'[u] = thread[u]
BY DEF ThreadTypes, Step

(* A thread that has nothing to do.                                        *)
LEMMA IdleThreadIsTyped ==
  /\ IdleThread \in Handler /\ IdleThread.op = "none" /\ IdleThread.pc = "idle"
BY DEF IdleThread, Handler, Ops

(* A step on the presets leaves the settings alone.                        *)
LEMMA SettingsUntouched ==
  ASSUME ThreadInv, UNCHANGED SettingsVars, NEW t \in Threads, thread'[t].op # "settings",
         \A u \in Threads : u # t => thread'[u] = thread[u]
  PROVE  SettingsAreRead'
BY DEF ThreadInv, SettingsAreRead, SettingsVars

(* And the other way round.                                                *)
LEMMA PresetsUntouched ==
  ASSUME ThreadInv, UNCHANGED PresetVars, ops' \in 0 .. MaxOps, ops <= ops',
         NEW t \in Threads, thread[t].op \in {"none", "settings"},
         thread'[t].op \in {"none", "settings"}, \A u \in Threads : u # t => thread'[u] = thread[u]
  PROVE  KeysAreFresh' /\ DefaultIsOne'
<1>1. keys' = keys /\ preset' = preset /\ crossed' = crossed
  BY DEF PresetVars
<1>2. \A u \in Threads : /\ OnPreset(u)' => thread'[u] = thread[u] /\ OnPreset(u)
                         /\ OnPreset(u) => thread'[u] = thread[u] /\ OnPreset(u)'
  BY DEF OnPreset, PresetOps
<1>3. \A u \in Threads : /\ Copies(u)' => Copies(u) /\ thread'[u] = thread[u]
                         /\ Setting(u)' => Setting(u) /\ thread'[u] = thread[u]
                         /\ Setting(u) => Setting(u)' /\ thread'[u] = thread[u]
  BY DEF Copies, Setting
<1>4. ASSUME NEW k, Used(k) PROVE Used(k)'
  <2>1. /\ k \in 1 .. Seeded + ops /\ Seeded \in Nat /\ ops \in Nat /\ ops' \in Nat
        /\ \A u \in Threads : Copies(u) => k # NewKey(thread[u].num)
    BY <1>4, ThreadConstants DEF Used, ThreadInv, ThreadTypes
  <2>2. k \in 1 .. Seeded + ops'
    BY <2>1
  <2> QED
    BY <1>3, <2>1, <2>2 DEF Used, NewKey
<1>5. KeysAreFresh'
  <2>1. \A u \in Threads : Copies(u)' => thread'[u].num \in 1 .. ops'
    BY <1>3 DEF ThreadInv, KeysAreFresh, ThreadTypes
  <2> QED
    BY <1>1, <1>2, <1>3, <1>4, <2>1 DEF ThreadInv, KeysAreFresh
<1>6. ASSUME ~crossed, NEW u \in Threads, Setting(u)'
      PROVE  WalkIsOn(u)'
  <2>1. WalkIsOn(u) /\ thread'[u] = thread[u]
    BY <1>3, <1>6 DEF ThreadInv, DefaultIsOne
  <2> QED
    BY <1>1, <1>2, <2>1 DEF WalkIsOn, Walked
<1>7. ASSUME ~crossed, \A u \in Threads : ~Setting(u)'
      PROVE  \E d \in Ids : DefaultIs(d)'
  <2>1. PICK d \in Ids : DefaultIs(d)
    BY <1>3, <1>7 DEF ThreadInv, DefaultIsOne
  <2>2. \A u \in Threads : thread'[u].op \in {"patch", "delete"} => thread'[u] = thread[u]
    BY <1>2 DEF OnPreset, PresetOps
  <2> QED
    BY <1>1, <2>1, <2>2 DEF DefaultIs
<1> QED
  BY <1>1, <1>5, <1>6, <1>7 DEF DefaultIsOne

(* At first every key is there and nobody is at work.                      *)
LEMMA ThreadsStartRight ==
  ThreadsInit => ThreadInv
<1> SUFFICES ASSUME ThreadsInit PROVE ThreadInv
  OBVIOUS
<1> DEFINE first == [i \in 1 .. Seeded |-> i]
<1>1. /\ keys = first /\ preset = [k \in Ids |-> k = 1] /\ ops = 0 /\ crossed = FALSE
      /\ mixed = FALSE /\ settings = [f \in SettingFields |-> 0]
      /\ patched = [f \in SettingFields |-> 0] /\ thread = [t \in Threads |-> IdleThread]
  BY DEF ThreadsInit
<1>2. /\ Seeded \in Nat /\ Seeded > 0 /\ MaxOps \in Nat /\ Ids = 1 .. Seeded + MaxOps
  BY ThreadConstants DEF Ids
<1>3. first \in Seq(Ids) /\ Held(first) = 1 .. Seeded
  <2>1. first \in [1 .. Seeded -> Ids]
    BY <1>2
  <2> QED
    BY <1>2, <2>1, SeqDef DEF Held
<1>4. \A t \in Threads : thread[t] = IdleThread /\ thread[t].op = "none" /\ thread[t].pc = "idle"
  BY <1>1, IdleThreadIsTyped
<1>5. ThreadTypes
  <2>1. keys \in Seq(Ids) /\ ops \in 0 .. MaxOps
    BY <1>1, <1>2, <1>3
  <2>4. preset \in [Ids -> BOOLEAN] /\ crossed \in BOOLEAN /\ mixed \in BOOLEAN
    BY <1>1
  <2>2. thread \in [Threads -> Handler]
    BY <1>1, IdleThreadIsTyped
  <2>3. settings \in [SettingFields -> Nat] /\ patched \in [SettingFields -> Nat]
    BY <1>1
  <2> QED
    BY <1>4, <2>1, <2>2, <2>3, <2>4 DEF ThreadTypes
<1>6. KeysAreFresh
  <2>1. \A t \in Threads : ~Copies(t) /\ ~OnPreset(t) /\ ~Setting(t)
    BY <1>4 DEF Copies, OnPreset, Setting, PresetOps
  <2> QED
    BY <1>1, <1>2, <1>3, <2>1 DEF KeysAreFresh, Used
<1>7. DefaultIs(1) /\ 1 \in Ids /\ \A t \in Threads : ~Setting(t)
  <2>1. 1 \in Ids /\ 1 \in Held(keys)
    BY <1>1, <1>2, <1>3
  <2> QED
    BY <1>1, <1>4, <2>1 DEF DefaultIs, Setting
<1>8. SettingsAreRead
  BY <1>1, <1>4 DEF SettingsAreRead
<1> QED
  BY <1>5, <1>6, <1>7, <1>8 DEF ThreadInv, DefaultIsOne

(* A fresh key is none that is in use.                                     *)
LEMMA NewKeysAreUnused ==
  ASSUME ThreadInv, NEW k, Used(k)
  PROVE  /\ k # NewKey(ops + 1)
         /\ \A t \in Threads : Copies(t) => k # NewKey(thread[t].num)
<1>1. k \in 1 .. Seeded + ops /\ Seeded \in Nat /\ ops \in Nat
  BY ThreadConstants DEF Used, ThreadInv, ThreadTypes
<1> QED
  BY <1>1 DEF Used, NewKey

(* A preset is created: its key is new, and it is not the default.         *)
LEMMA CreatePresetIsRight ==
  ASSUME ThreadInv, NEW t \in Threads, CreatePreset(t)
  PROVE  ThreadInv'
<1> PICK n : n = NewKey(ops + 1)
  OBVIOUS
<1>1. /\ thread[t].pc = "idle" /\ ops < MaxOps /\ ops' = ops + 1 /\ UNCHANGED SettingsVars
      /\ crossed' = (crossed \/ Busy(t, {"set-default"}))
      /\ keys' = Append(keys, n) /\ preset' = [preset EXCEPT ![n] = FALSE] /\ thread' = thread
  BY DEF CreatePreset, PresetBegins, Begins
<1>2. /\ Seeded \in Nat /\ MaxOps \in Nat /\ ops \in Nat /\ keys \in Seq(Ids)
      /\ preset \in [Ids -> BOOLEAN] /\ crossed \in BOOLEAN
  BY ThreadConstants DEF ThreadInv, ThreadTypes
<1>3. n = Seeded + ops + 1 /\ n \in Ids /\ n \in 1 .. Seeded + ops'
  BY <1>1, <1>2 DEF NewKey, Ids
<1>4. keys' \in Seq(Ids) /\ Held(keys') = Held(keys) \cup {n}
  BY <1>1, <1>2, <1>3, AppendHolds
<1>5. ThreadTypes'
  <2>1. crossed' \in BOOLEAN
    BY <1>1, <1>2 DEF Busy
  <2>2. ops' \in 0 .. MaxOps
    BY <1>1, <1>2
  <2>3. preset' \in [Ids -> BOOLEAN]
    BY <1>1, <1>2
  <2> QED
    BY <1>1, <1>4, <2>1, <2>2, <2>3 DEF ThreadInv, ThreadTypes, SettingsVars
<1>6. KeysAreFresh'
  <2>1. \A u \in Threads : Copies(u) => /\ thread[u].num \in 1 .. ops' /\ n # NewKey(thread[u].num)
    BY <1>1, <1>2, <1>3 DEF ThreadInv, KeysAreFresh, NewKey
  <2>2. ASSUME NEW k, Used(k) PROVE Used(k)'
    BY <1>1, <1>2, <2>2 DEF Used, Copies, NewKey
  <2>3. Used(n)'
    BY <1>1, <1>3, <2>1 DEF Used, Copies, NewKey
  <2> QED
    BY <1>1, <1>4, <2>1, <2>2, <2>3 DEF ThreadInv, KeysAreFresh, Copies, OnPreset, Setting
<1>7. DefaultIsOne'
  <2> SUFFICES ASSUME ~crossed' PROVE /\ \A u \in Threads : ~Setting(u)'
                                      /\ \E d \in Ids : DefaultIs(d)'
    BY DEF DefaultIsOne
  <2>1. \A u \in Threads : ~Setting(u)
    BY <1>1 DEF Busy, Setting, ThreadInv, ThreadTypes
  <2>2. PICK d \in Ids : DefaultIs(d)
    BY <1>1, <2>1 DEF ThreadInv, DefaultIsOne
  <2>3. d # n
    BY <2>2, NewKeysAreUnused DEF ThreadInv, KeysAreFresh, DefaultIs
  <2>4. \A k \in Ids : preset'[k] <=> k = d
    BY <1>1, <1>2, <1>3, <2>2, <2>3 DEF DefaultIs
  <2> QED
    BY <1>1, <1>4, <2>1, <2>2, <2>4 DEF DefaultIs, Setting
<1>8. SettingsAreRead'
  <2>1. thread'[t].op # "settings"
    BY <1>1 DEF ThreadInv, ThreadTypes
  <2> QED
    BY <1>1, <2>1, SettingsUntouched
<1> QED
  BY <1>5, <1>6, <1>7, <1>8 DEF ThreadInv

(* Who begins on a preset has read a key that is in use, and knows whether *)
(* it is the default's.                                                    *)
LEMMA ReadsPresetIsRight ==
  ASSUME ThreadInv, NEW t \in Threads, NEW op \in PresetOps, NEW k \in Ids, ReadsPreset(t, op, k)
  PROVE  ThreadInv'
<1> DEFINE r == [IdleThread EXCEPT !.op = op, !.pc = "read", !.id = k, !.held = preset[k],
                                   !.size = Len(keys), !.num = ops']
<1>1. /\ op # "create" /\ thread[t].pc = "idle" /\ ops < MaxOps /\ ops' = ops + 1
      /\ UNCHANGED SettingsVars /\ keys' = keys /\ preset' = preset
      /\ crossed' = (crossed \/ Busy(t, {"set-default"})
                             \/ (op = "set-default" /\ Busy(t, PresetOps)))
  BY DEF ReadsPreset, PresetBegins, Begins
<1>2. /\ Seeded \in Nat /\ MaxOps \in Nat /\ ops \in Nat /\ keys \in Seq(Ids) /\ Len(keys) \in Nat
      /\ preset \in [Ids -> BOOLEAN] /\ crossed \in BOOLEAN /\ DOMAIN keys = 1 .. Len(keys)
      /\ ops' \in 0 .. MaxOps /\ thread[t].op = "none" /\ thread \in [Threads -> Handler]
  BY <1>1, ThreadConstants, LenProperties DEF ThreadInv, ThreadTypes
<1>3. CASE ~(HasKey(k) /\ ~(op = "delete" /\ preset[k]))
  <2>1. thread' = thread
    BY <1>1, <1>3 DEF ReadsPreset
  <2>2. ThreadTypes'
    <3>1. crossed' \in BOOLEAN
      BY <1>1, <1>2 DEF Busy
    <3> QED
      BY <1>1, <1>2, <2>1, <3>1 DEF ThreadInv, ThreadTypes, SettingsVars
  <2>3. SettingsAreRead'
    BY <1>1, <1>2, <2>1, SettingsUntouched
  <2>4. KeysAreFresh'
    <3>1. ASSUME NEW l, Used(l) PROVE Used(l)'
      BY <1>1, <1>2, <2>1, <3>1 DEF Used, Copies
    <3>2. \A u \in Threads : Copies(u) => thread[u].num \in 1 .. ops'
      BY <1>1, <1>2 DEF ThreadInv, KeysAreFresh
    <3> QED
      BY <1>1, <2>1, <3>1, <3>2 DEF ThreadInv, KeysAreFresh, Copies, OnPreset, Setting
  <2>5. DefaultIsOne'
    <3> SUFFICES ASSUME ~crossed' PROVE DefaultIsOne'
      BY DEF DefaultIsOne
    <3>1. ~crossed
      BY <1>1
    <3>2. \A u \in Threads : WalkIsOn(u) => WalkIsOn(u)'
      BY <1>1, <2>1 DEF WalkIsOn, Walked, OnPreset
    <3>3. \A d \in Ids : DefaultIs(d) => DefaultIs(d)'
      BY <1>1, <2>1 DEF DefaultIs
    <3>4. \A u \in Threads : Setting(u)' <=> Setting(u)
      BY <2>1 DEF Setting
    <3> QED
      BY <3>1, <3>2, <3>3, <3>4 DEF DefaultIsOne, ThreadInv
  <2> QED
    BY <2>2, <2>3, <2>4, <2>5 DEF ThreadInv
<1>4. CASE HasKey(k) /\ ~(op = "delete" /\ preset[k])
  <2>1. Step(t, r) /\ k \in Held(keys)
    BY <1>4 DEF ReadsPreset, HasKey, Held
  <2>2. /\ r \in Handler /\ r.op = op /\ r.pc = "read" /\ r.num = ops + 1 /\ r.id = k /\ r.at = 0
        /\ r.size = Len(keys) /\ r.held = preset[k]
    <3>1. /\ op \in Ops /\ "read" \in {"idle", "read", "assign"} /\ k \in Nat
          /\ preset[k] \in BOOLEAN /\ Len(keys) \in Nat /\ ops' \in Nat /\ ops' = ops + 1
      BY <1>1, <1>2 DEF Ops, Ids
    <3> QED
      BY <3>1 DEF Handler, IdleThread
  <2> HIDE DEF r
  <2>3. /\ thread' \in [Threads -> Handler] /\ thread'[t] = r
        /\ \A u \in Threads : u # t => thread'[u] = thread[u]
    BY <2>1, <2>2, OneThreadSteps DEF ThreadInv
  <2>4. ThreadTypes'
    <3>1. crossed' \in BOOLEAN
      BY <1>1, <1>2 DEF Busy
    <3>2. \A u \in Threads : thread'[u].pc = "idle" => thread'[u].op = "none"
      BY <2>2, <2>3 DEF ThreadInv, ThreadTypes
    <3> QED
      BY <1>1, <1>2, <2>3, <3>1, <3>2 DEF ThreadInv, ThreadTypes, SettingsVars
  <2>5. SettingsAreRead'
    BY <1>1, <2>2, <2>3, SettingsUntouched DEF PresetOps
  <2>6. ASSUME NEW l, Used(l) PROVE Used(l)'
    <3>1. l # NewKey(ops + 1)
      BY <2>6, NewKeysAreUnused
    <3>2. l \in 1 .. Seeded + ops'
      BY <1>1, <1>2, <2>6 DEF Used
    <3>3. ASSUME NEW u \in Threads, Copies(u)' PROVE l # NewKey(thread'[u].num)
      BY <2>2, <2>3, <2>6, <3>1, <3>3 DEF Used, Copies
    <3> QED
      BY <3>2, <3>3 DEF Used, NewKey
  <2>7. Used(k)
    BY <2>1 DEF ThreadInv, KeysAreFresh
  <2>8. KeysAreFresh'
    <3>1. \A u \in Threads : Copies(u)' => /\ thread'[u].num \in 1 .. ops'
                                           /\ u # t => thread'[u].num \in 1 .. ops
                                           /\ u = t => thread'[u].num = ops + 1
      BY <1>1, <1>2, <2>2, <2>3 DEF ThreadInv, KeysAreFresh, Copies
    <3>2. \A u, w \in Threads :
            Copies(u)' /\ Copies(w)' /\ thread'[u].num = thread'[w].num => u = w
      <4> SUFFICES ASSUME NEW u \in Threads, NEW w \in Threads, Copies(u)', Copies(w)',
                          thread'[u].num = thread'[w].num, u # w
                   PROVE  FALSE
        OBVIOUS
      <4>1. u # t /\ w # t
        BY <1>2, <3>1
      <4> QED
        BY <2>3, <4>1 DEF ThreadInv, KeysAreFresh, Copies
    <3>3. (\A u \in Threads : OnPreset(u) => Used(thread[u].id))'
      BY <2>2, <2>3, <2>6, <2>7 DEF ThreadInv, KeysAreFresh, OnPreset
    <3>4. (\A u \in Threads : Setting(u) /\ thread[u].pc = "assign" => Used(thread[u].num))'
      BY <2>2, <2>3, <2>6 DEF ThreadInv, KeysAreFresh, Setting
    <3> QED
      BY <1>1, <2>6, <3>1, <3>2, <3>3, <3>4 DEF ThreadInv, KeysAreFresh
  <2>9. DefaultIsOne'
    <3> SUFFICES ASSUME ~crossed' PROVE DefaultIsOne'
      BY DEF DefaultIsOne
    <3>1. ~crossed /\ \A u \in Threads : ~Setting(u)
      BY <1>1, <1>2 DEF Busy, Setting
    <3>2. PICK d \in Ids : DefaultIs(d)
      BY <3>1 DEF ThreadInv, DefaultIsOne
    <3>3. CASE op = "set-default"
      <4>1. \A u \in Threads : OnPreset(u)' => u = t
        BY <1>1, <2>3, <3>3 DEF Busy, OnPreset
      <4>2. Walked(t)' = {}
        BY <2>2, <2>3 DEF Walked
      <4>3. \E e \in Held(keys') : \A l \in Ids :
              preset'[l] <=> IF l \in Walked(t)' THEN l = thread'[t].id ELSE l = e
        BY <1>1, <3>2, <4>2 DEF DefaultIs
      <4>4. /\ thread'[t].id \in Held(keys') /\ thread'[t].size = Len(keys')
            /\ thread'[t].at <= Len(keys') /\ thread'[t].pc = "read"
        BY <1>1, <1>2, <2>1, <2>2, <2>3
      <4>5. WalkIsOn(t)'
        BY <4>1, <4>3, <4>4 DEF WalkIsOn
      <4>6. Setting(t)' /\ \A u \in Threads : Setting(u)' => u = t
        BY <2>2, <2>3, <3>1, <3>3 DEF Setting
      <4> QED
        BY <4>5, <4>6 DEF DefaultIsOne
    <3>4. CASE op # "set-default"
      <4>1. \A u \in Threads : ~Setting(u)'
        BY <2>2, <2>3, <3>1, <3>4 DEF Setting
      <4>2. \A u \in Threads :
              /\ thread'[u].op = "patch" => (thread'[u].held <=> thread'[u].id = d)
              /\ thread'[u].op = "delete" => thread'[u].id # d
        BY <1>4, <2>2, <2>3, <3>2 DEF DefaultIs
      <4>3. DefaultIs(d)'
        BY <1>1, <3>2, <4>2 DEF DefaultIs
      <4> QED
        BY <4>1, <4>3 DEF DefaultIsOne
    <3> QED
      BY <3>3, <3>4
  <2> QED
    BY <2>4, <2>5, <2>8, <2>9 DEF ThreadInv
<1> QED
  BY <1>3, <1>4

(* A thread that is done leaves the keys in use in use, its own with them. *)
LEMMA ThreadFinishes ==
  ASSUME ThreadInv, NEW t \in Threads, OnPreset(t), Done(t),
         UNCHANGED <<SettingsVars, crossed, ops>>,
         keys' \in Seq(Ids), preset' \in [Ids -> BOOLEAN],
         \A k \in Held(keys') : Used(k) \/ (Copies(t) /\ k = NewKey(thread[t].num))
  PROVE  ThreadTypes' /\ KeysAreFresh' /\ SettingsAreRead'
<1>1. /\ thread' \in [Threads -> Handler] /\ thread'[t].op = "none" /\ thread'[t].pc = "idle"
      /\ \A u \in Threads : u # t => thread'[u] = thread[u]
  BY OneThreadSteps, IdleThreadIsTyped DEF ThreadInv, Done
<1>2. ThreadTypes'
  <2>1. \A u \in Threads : thread'[u].pc = "idle" => thread'[u].op = "none"
    BY <1>1 DEF ThreadInv, ThreadTypes
  <2> QED
    BY <1>1, <2>1 DEF ThreadInv, ThreadTypes, SettingsVars
<1>3. SettingsAreRead'
  BY <1>1, SettingsUntouched DEF OnPreset, PresetOps
<1>4. ASSUME NEW k, Used(k) PROVE Used(k)'
  BY <1>1, <1>4 DEF Used, Copies, NewKey
<1>5. ASSUME NEW k, Copies(t), k = NewKey(thread[t].num) PROVE Used(k)'
  <2>1. /\ thread[t].num \in 1 .. ops /\ Seeded \in Nat /\ ops \in Nat
        /\ \A u \in Threads : u # t /\ Copies(u) => thread[u].num # thread[t].num
                                                    /\ thread[u].num \in 1 .. ops
    BY <1>5, ThreadConstants DEF ThreadInv, ThreadTypes, KeysAreFresh
  <2>2. k \in 1 .. Seeded + ops'
    BY <1>5, <2>1 DEF NewKey
  <2>3. \A u \in Threads : Copies(u)' => u # t /\ Copies(u) /\ thread'[u] = thread[u]
    BY <1>1 DEF Copies
  <2>4. \A u \in Threads : u # t /\ Copies(u) => k # NewKey(thread[u].num)
    BY <1>5, <2>1 DEF NewKey
  <2> QED
    BY <2>2, <2>3, <2>4 DEF Used, NewKey
<1>6. KeysAreFresh'
  <2>1. \A k \in Held(keys') : Used(k)'
    BY <1>4, <1>5
  <2>2. /\ \A u \in Threads : Copies(u)' => thread'[u].num \in 1 .. ops'
        /\ \A u, w \in Threads :
             Copies(u)' /\ Copies(w)' /\ thread'[u].num = thread'[w].num => u = w
    BY <1>1 DEF ThreadInv, KeysAreFresh, Copies
  <2>3. (\A u \in Threads : OnPreset(u) => Used(thread[u].id))'
    BY <1>1, <1>4 DEF ThreadInv, KeysAreFresh, OnPreset, PresetOps
  <2>4. (\A u \in Threads : Setting(u) /\ thread[u].pc = "assign" => Used(thread[u].num))'
    BY <1>1, <1>4 DEF ThreadInv, KeysAreFresh, Setting
  <2> QED
    BY <2>1, <2>2, <2>3, <2>4 DEF KeysAreFresh
<1> QED
  BY <1>2, <1>3, <1>6

(* What leaves the default the only one keeps it so.                       *)
LEMMA DefaultStays ==
  ASSUME ThreadInv, NEW t \in Threads, OnPreset(t), ~Setting(t), Done(t), crossed' = crossed,
         \A d \in Ids : DefaultIs(d) => d \in Held(keys') /\ \A k \in Ids : preset'[k] <=> k = d
  PROVE  DefaultIsOne'
<1> SUFFICES ASSUME ~crossed PROVE DefaultIsOne'
  BY DEF DefaultIsOne
<1>1. /\ thread'[t].op = "none"
      /\ \A u \in Threads : u # t => thread'[u] = thread[u]
  BY OneThreadSteps, IdleThreadIsTyped DEF ThreadInv, Done
<1>2. \A u \in Threads : ~Setting(u)
  BY DEF ThreadInv, DefaultIsOne, WalkIsOn
<1>3. PICK d \in Ids : DefaultIs(d)
  BY <1>2 DEF ThreadInv, DefaultIsOne
<1>4. DefaultIs(d)'
  BY <1>1, <1>3 DEF DefaultIs
<1>5. \A u \in Threads : ~Setting(u)'
  BY <1>1, <1>2 DEF Setting
<1> QED
  BY <1>4, <1>5 DEF DefaultIsOne

(* Assignment to a key leaves the other keys where they are.               *)
LEMMA KeyedHolds ==
  ASSUME ThreadInv, NEW k \in Ids
  PROVE  Keyed(k) \in Seq(Ids) /\ Held(Keyed(k)) = Held(keys) \cup {k}
<1>1. keys \in Seq(Ids)
  BY DEF ThreadInv, ThreadTypes
<1>2. HasKey(k) <=> k \in Held(keys)
  BY DEF HasKey, Held
<1> QED
  BY <1>1, <1>2, AppendHolds DEF Keyed

(* Keys in use are keys.                                                   *)
LEMMA UsedKeysAreKeys ==
  ASSUME ThreadInv, NEW k, Used(k)
  PROVE  k \in Ids
<1>1. Seeded \in Nat /\ MaxOps \in Nat /\ ops \in 0 .. MaxOps /\ k \in 1 .. Seeded + ops
  BY ThreadConstants DEF ThreadInv, ThreadTypes, Used
<1> QED
  BY <1>1 DEF Ids

(* A patch writes back what it has read, even over a deletion.             *)
LEMMA PatchesPresetIsRight ==
  ASSUME ThreadInv, NEW t \in Threads, PatchesPreset(t)
  PROVE  ThreadInv'
<1> PICK id : id = thread[t].id
  OBVIOUS
<1>1. /\ thread[t].op = "patch" /\ Done(t) /\ keys' = Keyed(id)
      /\ preset' = [preset EXCEPT ![id] = thread[t].held]
      /\ UNCHANGED <<SettingsVars, crossed, ops>>
  BY DEF PatchesPreset, ThreadAt
<1>2. OnPreset(t) /\ ~Setting(t) /\ Used(id) /\ id \in Ids
  BY <1>1, UsedKeysAreKeys DEF OnPreset, PresetOps, Setting, ThreadInv, KeysAreFresh
<1>3. keys' \in Seq(Ids) /\ Held(keys') = Held(keys) \cup {id}
  BY <1>1, <1>2, KeyedHolds
<1>4. preset \in [Ids -> BOOLEAN] /\ thread[t].held \in BOOLEAN
  BY DEF ThreadInv, ThreadTypes, Handler
<1>5. preset' \in [Ids -> BOOLEAN]
  BY <1>1, <1>4
<1>6. \A k \in Held(keys') : Used(k)
  BY <1>2, <1>3 DEF ThreadInv, KeysAreFresh
<1>7. ASSUME NEW d \in Ids, DefaultIs(d)
      PROVE  d \in Held(keys') /\ \A k \in Ids : preset'[k] <=> k = d
  <2>1. thread[t].held <=> id = d
    BY <1>1, <1>7 DEF DefaultIs
  <2>2. \A k \in Ids : preset[k] <=> k = d
    BY <1>7 DEF DefaultIs
  <2>3. \A k \in Ids : preset'[k] = IF k = id THEN thread[t].held ELSE preset[k]
    BY <1>1, <1>4
  <2> QED
    BY <1>3, <1>7, <2>1, <2>2, <2>3 DEF DefaultIs
<1> QED
  BY <1>1, <1>2, <1>3, <1>5, <1>6, <1>7, ThreadFinishes, DefaultStays DEF ThreadInv

(* A deletion takes one key, which was not the default's when it was read. *)
LEMMA DeletesPresetIsRight ==
  ASSUME ThreadInv, NEW t \in Threads, DeletesPreset(t)
  PROVE  ThreadInv'
<1> PICK id : id = thread[t].id
  OBVIOUS
<1>1. /\ thread[t].op = "delete" /\ Done(t) /\ keys' = RemoveFirst(keys, id)
      /\ preset' = preset /\ UNCHANGED <<SettingsVars, crossed, ops>>
  BY DEF DeletesPreset, ThreadAt
<1>2. OnPreset(t) /\ ~Setting(t) /\ keys \in Seq(Ids) /\ preset \in [Ids -> BOOLEAN]
  BY <1>1 DEF OnPreset, PresetOps, Setting, ThreadInv, ThreadTypes
<1>3. /\ keys' \in Seq(Ids) /\ Held(keys') \subseteq Held(keys)
      /\ \A k \in Held(keys) : k # id => k \in Held(keys')
  BY <1>1, <1>2, RemoveFirstHolds
<1>4. \A k \in Held(keys') : Used(k)
  BY <1>3 DEF ThreadInv, KeysAreFresh
<1>5. ASSUME NEW d \in Ids, DefaultIs(d)
      PROVE  d \in Held(keys') /\ \A k \in Ids : preset'[k] <=> k = d
  BY <1>1, <1>3, <1>5 DEF DefaultIs
<1> QED
  BY <1>1, <1>2, <1>3, <1>4, <1>5, ThreadFinishes, DefaultStays DEF ThreadInv

(* A duplicate gets a key of its own and is not the default.               *)
LEMMA DuplicatesPresetIsRight ==
  ASSUME ThreadInv, NEW t \in Threads, DuplicatesPreset(t)
  PROVE  ThreadInv'
<1> PICK n : n = NewKey(thread[t].num)
  OBVIOUS
<1>1. /\ thread[t].op = "duplicate" /\ Done(t) /\ keys' = Append(keys, n)
      /\ preset' = [preset EXCEPT ![n] = FALSE] /\ UNCHANGED <<SettingsVars, crossed, ops>>
  BY DEF DuplicatesPreset, ThreadAt
<1>2. /\ OnPreset(t) /\ ~Setting(t) /\ Copies(t) /\ keys \in Seq(Ids)
      /\ preset \in [Ids -> BOOLEAN]
  BY <1>1 DEF OnPreset, PresetOps, Setting, Copies, ThreadInv, ThreadTypes
<1>3. n \in Ids
  <2>1. /\ thread[t].num \in 1 .. ops /\ Seeded \in Nat /\ MaxOps \in Nat /\ ops \in 0 .. MaxOps
    BY <1>2, ThreadConstants DEF ThreadInv, ThreadTypes, KeysAreFresh
  <2> QED
    BY <2>1 DEF Ids, NewKey
<1>4. keys' \in Seq(Ids) /\ Held(keys') = Held(keys) \cup {n}
  BY <1>1, <1>2, <1>3, AppendHolds
<1>5. preset' \in [Ids -> BOOLEAN]
  BY <1>1, <1>2
<1>6. \A k \in Held(keys') : Used(k) \/ (Copies(t) /\ k = NewKey(thread[t].num))
  BY <1>2, <1>4 DEF ThreadInv, KeysAreFresh
<1>7. ASSUME NEW d \in Ids, DefaultIs(d)
      PROVE  d \in Held(keys') /\ \A k \in Ids : preset'[k] <=> k = d
  <2>1. d # n
    BY <1>2, <1>7 DEF ThreadInv, KeysAreFresh, Used, DefaultIs
  <2>2. \A k \in Ids : preset[k] <=> k = d
    BY <1>7 DEF DefaultIs
  <2>3. \A k \in Ids : preset'[k] = IF k = n THEN FALSE ELSE preset[k]
    BY <1>1, <1>2
  <2> QED
    BY <1>4, <1>7, <2>1, <2>2, <2>3 DEF DefaultIs
<1> QED
  BY <1>1, <1>2, <1>4, <1>5, <1>6, <1>7, ThreadFinishes, DefaultStays DEF ThreadInv

(* A set-default that goes on keeps its request; the keys in use stay so.  *)
LEMMA WalkerGoesOn ==
  ASSUME ThreadInv, NEW t \in Threads, Setting(t), NEW r \in Handler, Step(t, r),
         r.op = "set-default", r.pc # "idle", r.id = thread[t].id,
         r.pc = "assign" => Used(r.num), UNCHANGED <<SettingsVars, crossed, ops>>,
         keys' \in Seq(Ids), preset' \in [Ids -> BOOLEAN], \A k \in Held(keys') : Used(k)
  PROVE  /\ ThreadTypes' /\ KeysAreFresh' /\ SettingsAreRead'
         /\ thread'[t] = r /\ \A u \in Threads : u # t => thread'[u] = thread[u]
<1>1. /\ thread' \in [Threads -> Handler] /\ thread'[t] = r
      /\ \A u \in Threads : u # t => thread'[u] = thread[u]
  BY OneThreadSteps DEF ThreadInv
<1>2. ThreadTypes'
  <2>1. \A u \in Threads : thread'[u].pc = "idle" => thread'[u].op = "none"
    BY <1>1 DEF ThreadInv, ThreadTypes
  <2> QED
    BY <1>1, <2>1 DEF ThreadInv, ThreadTypes, SettingsVars
<1>3. SettingsAreRead'
  BY <1>1, SettingsUntouched
<1>4. ASSUME NEW k, Used(k) PROVE Used(k)'
  BY <1>1, <1>4 DEF Used, Copies, NewKey
<1>5. KeysAreFresh'
  <2>1. /\ \A u \in Threads : Copies(u)' => thread'[u].num \in 1 .. ops'
        /\ \A u, w \in Threads :
             Copies(u)' /\ Copies(w)' /\ thread'[u].num = thread'[w].num => u = w
    BY <1>1 DEF ThreadInv, KeysAreFresh, Copies
  <2>2. Used(thread[t].id)
    BY DEF ThreadInv, KeysAreFresh, OnPreset, Setting, PresetOps
  <2>3. (\A u \in Threads : OnPreset(u) => Used(thread[u].id))'
    BY <1>1, <1>4, <2>2 DEF ThreadInv, KeysAreFresh, OnPreset
  <2>4. (\A u \in Threads : Setting(u) /\ thread[u].pc = "assign" => Used(thread[u].num))'
    BY <1>1, <1>4 DEF ThreadInv, KeysAreFresh, Setting
  <2>5. \A k \in Held(keys') : Used(k)'
    BY <1>4
  <2> QED
    BY <2>1, <2>3, <2>4, <2>5 DEF KeysAreFresh
<1> QED
  BY <1>1, <1>2, <1>3, <1>5

(* The walk takes the next key, or is over: then every key has been set,   *)
(* or somebody has changed the dict under it.                              *)
LEMMA SetDefaultNextIsRight ==
  ASSUME ThreadInv, NEW t \in Threads, SetDefaultNext(t)
  PROVE  ThreadInv'
<1>1. /\ thread[t].op = "set-default" /\ thread[t].pc = "read" /\ keys' = keys
      /\ preset' = preset /\ UNCHANGED <<SettingsVars, crossed, ops>>
  BY DEF SetDefaultNext, ThreadAt, PresetVars
<1>2. /\ OnPreset(t) /\ Setting(t) /\ keys \in Seq(Ids) /\ Len(keys) \in Nat
      /\ DOMAIN keys = 1 .. Len(keys) /\ preset \in [Ids -> BOOLEAN]
      /\ thread[t] \in Handler /\ thread[t].at \in Nat /\ thread[t].size \in Nat
      /\ \A k \in Held(keys) : Used(k)
  BY <1>1, LenProperties
  DEF OnPreset, PresetOps, Setting, ThreadInv, ThreadTypes, Handler, KeysAreFresh
<1>3. CASE Len(keys) = thread[t].size /\ thread[t].at < Len(keys)
  <2> DEFINE r == [thread[t] EXCEPT !.pc = "assign", !.at = @ + 1,
                                    !.num = keys[thread[t].at + 1]]
  <2>1. Step(t, r)
    BY <1>2, <1>3 DEF SetDefaultNext
  <2>2. thread[t].at + 1 \in 1 .. Len(keys)
    BY <1>2, <1>3
  <2>3. keys[thread[t].at + 1] \in Held(keys) /\ keys[thread[t].at + 1] \in Nat
    <3>1. keys[thread[t].at + 1] \in Ids
      BY <1>2, <2>2, ElementOfSeq
    <3>2. \A k \in Ids : k \in Nat
      BY ThreadConstants DEF Ids
    <3>3. keys[thread[t].at + 1] \in Held(keys)
      BY <1>2, <2>2 DEF Held
    <3> QED
      BY <3>1, <3>2, <3>3
  <2>4. /\ r \in Handler /\ r.op = "set-default" /\ r.pc = "assign" /\ r.id = thread[t].id
        /\ r.at = thread[t].at + 1 /\ r.num = keys[thread[t].at + 1]
        /\ r.size = thread[t].size
    <3> DEFINE i == thread[t].at + 1
               k == keys[i]
    <3>1. i \in Nat /\ k \in Nat
      BY <1>2, <2>3
    <3>2. r = [thread[t] EXCEPT !.pc = "assign", !.at = i, !.num = k]
      OBVIOUS
    <3> HIDE DEF i, k, r
    <3>3. /\ r \in Handler /\ r.op = "set-default" /\ r.pc = "assign" /\ r.id = thread[t].id
          /\ r.at = i /\ r.num = k /\ r.size = thread[t].size
      BY <1>1, <1>2, <3>1, <3>2 DEF Handler
    <3> QED
      BY <3>3 DEF i, k
  <2> HIDE DEF r
  <2>5. Used(r.num)
    BY <1>2, <2>3, <2>4
  <2>6. /\ ThreadTypes' /\ KeysAreFresh' /\ SettingsAreRead'
        /\ thread'[t] = r /\ \A u \in Threads : u # t => thread'[u] = thread[u]
    BY <1>1, <1>2, <2>1, <2>4, <2>5, WalkerGoesOn
  <2>7. DefaultIsOne'
    <3> SUFFICES ASSUME ~crossed PROVE DefaultIsOne'
      BY <1>1 DEF DefaultIsOne
    <3>1. WalkIsOn(t)
      BY <1>2 DEF ThreadInv, DefaultIsOne
    <3>2. Walked(t)' = Walked(t)
      <4>1. r.at - 1 = thread[t].at
        BY <1>2, <2>4
      <4> QED
        BY <1>1, <2>4, <2>6, <4>1 DEF Walked
    <3>3. \A u \in Threads : OnPreset(u)' => u = t
      BY <2>6, <3>1 DEF WalkIsOn, OnPreset
    <3>4. /\ r.id \in Held(keys) /\ r.size = Len(keys) /\ r.at <= Len(keys) /\ r.at > 0
          /\ r.num = keys[r.at]
      BY <1>2, <2>2, <2>4, <3>1 DEF WalkIsOn
    <3>5. \E d \in Held(keys) : \A k \in Ids :
            preset[k] <=> IF k \in Walked(t) THEN k = r.id ELSE k = d
      BY <2>4, <3>1 DEF WalkIsOn
    <3>6. WalkIsOn(t)'
      BY <1>1, <2>6, <3>2, <3>3, <3>4, <3>5 DEF WalkIsOn
    <3>7. \A u \in Threads : Setting(u)' => u = t
      BY <3>3 DEF Setting, OnPreset, PresetOps
    <3>8. Setting(t)'
      BY <2>4, <2>6 DEF Setting
    <3> QED
      BY <3>6, <3>7, <3>8 DEF DefaultIsOne
  <2> QED
    BY <2>6, <2>7 DEF ThreadInv
<1>4. CASE ~(Len(keys) = thread[t].size /\ thread[t].at < Len(keys))
  <2>1. Done(t)
    BY <1>4 DEF SetDefaultNext
  <2>2. ThreadTypes' /\ KeysAreFresh' /\ SettingsAreRead'
    BY <1>1, <1>2, <2>1, ThreadFinishes
  <2>3. /\ thread'[t].op = "none"
        /\ \A u \in Threads : u # t => thread'[u] = thread[u]
    BY <2>1, OneThreadSteps, IdleThreadIsTyped DEF ThreadInv, Done
  <2>4. DefaultIsOne'
    <3> SUFFICES ASSUME ~crossed PROVE DefaultIsOne'
      BY <1>1 DEF DefaultIsOne
    <3>1. WalkIsOn(t)
      BY <1>2 DEF ThreadInv, DefaultIsOne
    <3>2. thread[t].at = Len(keys)
      BY <1>2, <1>4, <3>1 DEF WalkIsOn
    <3>3. Walked(t) = Held(keys)
      BY <1>1, <1>2, <3>2 DEF Walked, Held
    <3> PICK id : id = thread[t].id
      OBVIOUS
    <3>4. /\ id \in Held(keys) /\ id \in Ids
          /\ \A k \in Ids : preset[k] <=> k = id
      <4>1. id \in Held(keys) /\ \E d \in Held(keys) : \A k \in Ids :
              preset[k] <=> IF k \in Held(keys) THEN k = id ELSE k = d
        BY <3>1, <3>3 DEF WalkIsOn
      <4>2. id \in Ids
        BY <1>2, <4>1, UsedKeysAreKeys
      <4> QED
        BY <4>1, <4>2
    <3>5. \A u \in Threads : ~OnPreset(u)'
      BY <2>3, <3>1 DEF WalkIsOn, OnPreset, PresetOps
    <3>6. DefaultIs(id)'
      BY <1>1, <3>4, <3>5 DEF DefaultIs, OnPreset, PresetOps
    <3>7. \A u \in Threads : ~Setting(u)'
      BY <3>5 DEF Setting, OnPreset, PresetOps
    <3> QED
      BY <3>4, <3>6, <3>7 DEF DefaultIsOne
  <2> QED
    BY <2>2, <2>4 DEF ThreadInv
<1> QED
  BY <1>3, <1>4

(* The walk sets the preset it has come to.                                *)
LEMMA SetDefaultAssignsIsRight ==
  ASSUME ThreadInv, NEW t \in Threads, SetDefaultAssigns(t)
  PROVE  ThreadInv'
<1> DEFINE r == [thread[t] EXCEPT !.pc = "read"]
<1> PICK num : num = thread[t].num
  OBVIOUS
<1>1. /\ thread[t].op = "set-default" /\ thread[t].pc = "assign" /\ Step(t, r)
      /\ keys' = Keyed(num) /\ preset' = [preset EXCEPT ![num] = num = thread[t].id]
      /\ UNCHANGED <<SettingsVars, crossed, ops>>
  BY DEF SetDefaultAssigns, ThreadAt
<1>2. /\ OnPreset(t) /\ Setting(t) /\ keys \in Seq(Ids) /\ Len(keys) \in Nat
      /\ DOMAIN keys = 1 .. Len(keys) /\ preset \in [Ids -> BOOLEAN]
      /\ thread[t] \in Handler /\ thread[t].at \in Nat /\ Used(num)
      /\ \A k \in Held(keys) : Used(k)
  BY <1>1, LenProperties
  DEF OnPreset, PresetOps, Setting, ThreadInv, ThreadTypes, Handler, KeysAreFresh
<1>3. /\ r \in Handler /\ r.op = "set-default" /\ r.pc = "read" /\ r.id = thread[t].id
      /\ r.at = thread[t].at /\ r.size = thread[t].size
  BY <1>1, <1>2 DEF Handler
<1> HIDE DEF r
<1>4. num \in Ids
  BY <1>2, UsedKeysAreKeys
<1>5. keys' \in Seq(Ids) /\ Held(keys') = Held(keys) \cup {num}
  BY <1>1, <1>4, KeyedHolds
<1>6. preset' \in [Ids -> BOOLEAN]
  BY <1>1, <1>2
<1>7. /\ ThreadTypes' /\ KeysAreFresh' /\ SettingsAreRead'
      /\ thread'[t] = r /\ \A u \in Threads : u # t => thread'[u] = thread[u]
  BY <1>1, <1>2, <1>3, <1>5, <1>6, WalkerGoesOn
<1>8. DefaultIsOne'
  <2> SUFFICES ASSUME ~crossed PROVE DefaultIsOne'
    BY <1>1 DEF DefaultIsOne
  <2>1. WalkIsOn(t)
    BY <1>2 DEF ThreadInv, DefaultIsOne
  <2>2. thread[t].at \in 1 .. Len(keys) /\ num = keys[thread[t].at]
    BY <1>1, <1>2, <2>1 DEF WalkIsOn
  <2>3. keys' = keys
    <3>1. HasKey(num)
      BY <1>2, <2>2 DEF HasKey
    <3> QED
      BY <1>1, <3>1 DEF Keyed
  <2>4. Walked(t)' = Walked(t) \cup {num}
    <3>1. Walked(t) = {keys[i] : i \in 1 .. thread[t].at - 1}
      BY <1>1 DEF Walked
    <3>2. Walked(t)' = {keys[i] : i \in 1 .. thread[t].at}
      BY <1>3, <1>7, <2>3 DEF Walked
    <3>3. \A i \in 1 .. thread[t].at : i \in 1 .. thread[t].at - 1 \/ i = thread[t].at
      BY <1>2
    <3>4. thread[t].at \in 1 .. thread[t].at /\ 1 .. thread[t].at - 1 \subseteq 1 .. thread[t].at
      BY <1>2, <2>2
    <3> QED
      BY <2>2, <3>1, <3>2, <3>3, <3>4
  <2> PICK d \in Held(keys) : \A k \in Ids :
        preset[k] <=> IF k \in Walked(t) THEN k = thread[t].id ELSE k = d
    BY <2>1 DEF WalkIsOn
  <2>5. \A k \in Ids : preset'[k] <=> IF k \in Walked(t)' THEN k = r.id ELSE k = d
    <3>1. \A k \in Ids : preset'[k] = IF k = num THEN num = thread[t].id ELSE preset[k]
      BY <1>1, <1>2
    <3> QED
      BY <1>3, <2>4, <3>1
  <2>6. \A u \in Threads : OnPreset(u)' => u = t
    BY <1>7, <2>1 DEF WalkIsOn, OnPreset
  <2>7. r.id \in Held(keys) /\ r.size = Len(keys) /\ r.at <= Len(keys)
    BY <1>2, <1>3, <2>1 DEF WalkIsOn
  <2>8. WalkIsOn(t)'
    BY <1>3, <1>7, <2>3, <2>5, <2>6, <2>7 DEF WalkIsOn
  <2>9. \A u \in Threads : Setting(u)' => u = t
    BY <2>6 DEF Setting, OnPreset, PresetOps
  <2>10. Setting(t)'
    BY <1>3, <1>7 DEF Setting
  <2> QED
    BY <2>8, <2>9, <2>10 DEF DefaultIsOne
<1> QED
  BY <1>7, <1>8 DEF ThreadInv

(* A write of the settings begins by reading them.                         *)
LEMMA ReadsSettingsIsRight ==
  ASSUME ThreadInv, NEW t \in Threads, ReadsSettings(t)
  PROVE  ThreadInv'
<1> DEFINE r == [IdleThread EXCEPT !.op = "settings", !.pc = "read", !.data = settings,
                                   !.id = ops']
<1>1. /\ thread[t].pc = "idle" /\ ops < MaxOps /\ ops' = ops + 1 /\ Step(t, r)
      /\ mixed' = (mixed \/ Busy(t, {"settings"})) /\ UNCHANGED <<PresetVars, settings, patched>>
  BY DEF ReadsSettings, Begins
<1>2. /\ ops \in Nat /\ MaxOps \in Nat /\ settings \in [SettingFields -> Nat]
      /\ thread[t].op = "none" /\ mixed \in BOOLEAN
  BY <1>1, ThreadConstants DEF ThreadInv, ThreadTypes
<1>3. ops' \in 0 .. MaxOps /\ ops' \in Nat /\ ops <= ops'
  BY <1>1, <1>2
<1>4. r \in Handler /\ r.op = "settings" /\ r.pc = "read" /\ r.data = settings
  BY <1>2, <1>3 DEF Handler, IdleThread, Ops
<1> HIDE DEF r
<1>5. /\ thread' \in [Threads -> Handler] /\ thread'[t] = r
      /\ \A u \in Threads : u # t => thread'[u] = thread[u]
  BY <1>1, <1>4, OneThreadSteps DEF ThreadInv
<1>6. KeysAreFresh' /\ DefaultIsOne'
  BY <1>1, <1>2, <1>3, <1>4, <1>5, PresetsUntouched
<1>7. ThreadTypes'
  <2>1. \A u \in Threads : thread'[u].pc = "idle" => thread'[u].op = "none"
    BY <1>4, <1>5 DEF ThreadInv, ThreadTypes
  <2>2. mixed' \in BOOLEAN
    BY <1>1, <1>2 DEF Busy
  <2> QED
    BY <1>1, <1>3, <1>5, <2>1, <2>2 DEF ThreadInv, ThreadTypes, PresetVars
<1>8. SettingsAreRead'
  <2> SUFFICES ASSUME ~mixed' PROVE SettingsAreRead'
    BY DEF SettingsAreRead
  <2>1. ~mixed /\ \A u \in Threads : thread'[u].op = "settings" => u = t
    BY <1>1, <1>5 DEF Busy
  <2> QED
    BY <1>1, <1>4, <1>5, <2>1 DEF ThreadInv, SettingsAreRead
<1> QED
  BY <1>6, <1>7, <1>8 DEF ThreadInv

(* And it ends with the fields of its patch over what it has read.         *)
LEMMA PatchesSettingsIsRight ==
  ASSUME ThreadInv, NEW t \in Threads, NEW F \in SUBSET SettingFields, PatchesSettings(t, F)
  PROVE  ThreadInv'
<1>1. /\ thread[t].op = "settings" /\ Done(t)
      /\ settings' = [f \in SettingFields |->
                        IF f \in F THEN thread[t].id ELSE thread[t].data[f]]
      /\ patched' = [f \in SettingFields |-> IF f \in F THEN thread[t].id ELSE patched[f]]
      /\ UNCHANGED <<PresetVars, mixed, ops>>
  BY DEF PatchesSettings, MergedSettings, ThreadAt
<1>2. /\ ops \in 0 .. MaxOps /\ ops \in Nat /\ thread[t].id \in Nat
      /\ thread[t].data \in [SettingFields -> Nat] /\ patched \in [SettingFields -> Nat]
  BY ThreadConstants DEF ThreadInv, ThreadTypes, Handler
<1>3. /\ thread' \in [Threads -> Handler] /\ thread'[t].op = "none" /\ thread'[t].pc = "idle"
      /\ \A u \in Threads : u # t => thread'[u] = thread[u]
  BY <1>1, OneThreadSteps, IdleThreadIsTyped DEF ThreadInv, Done
<1>4. KeysAreFresh' /\ DefaultIsOne'
  BY <1>1, <1>2, <1>3, PresetsUntouched
<1>5. ThreadTypes'
  <2>1. \A u \in Threads : thread'[u].pc = "idle" => thread'[u].op = "none"
    BY <1>3 DEF ThreadInv, ThreadTypes
  <2>2. settings' \in [SettingFields -> Nat] /\ patched' \in [SettingFields -> Nat]
    BY <1>1, <1>2
  <2> QED
    BY <1>1, <1>3, <2>1, <2>2 DEF ThreadInv, ThreadTypes, PresetVars
<1>6. SettingsAreRead'
  <2> SUFFICES ASSUME ~mixed PROVE SettingsAreRead'
    BY <1>1 DEF SettingsAreRead
  <2>1. /\ settings = patched /\ thread[t].data = settings
        /\ \A u \in Threads : thread[u].op = "settings" => u = t
    BY <1>1 DEF ThreadInv, SettingsAreRead
  <2>2. \A u \in Threads : thread'[u].op # "settings"
    BY <1>3, <2>1
  <2> QED
    BY <1>1, <2>1, <2>2 DEF SettingsAreRead
<1> QED
  BY <1>4, <1>5, <1>6 DEF ThreadInv

(* A reset is one assignment.                                              *)
LEMMA ResetsSettingsIsRight ==
  ASSUME ThreadInv, NEW t \in Threads, ResetsSettings(t)
  PROVE  ThreadInv'
<1>1. /\ thread[t].pc = "idle" /\ ops < MaxOps /\ ops' = ops + 1 /\ thread' = thread
      /\ mixed' = (mixed \/ Busy(t, {"settings"})) /\ UNCHANGED PresetVars
      /\ settings' = [f \in SettingFields |-> 0] /\ patched' = [f \in SettingFields |-> 0]
  BY DEF ResetsSettings, Begins
<1>2. /\ ops \in Nat /\ MaxOps \in Nat /\ thread[t].op = "none" /\ mixed \in BOOLEAN
  BY <1>1, ThreadConstants DEF ThreadInv, ThreadTypes
<1>3. ops' \in 0 .. MaxOps /\ ops <= ops'
  BY <1>1, <1>2
<1>4. KeysAreFresh' /\ DefaultIsOne'
  BY <1>1, <1>2, <1>3, PresetsUntouched
<1>5. ThreadTypes'
  <2>1. mixed' \in BOOLEAN
    BY <1>1, <1>2 DEF Busy
  <2>2. settings' \in [SettingFields -> Nat] /\ patched' \in [SettingFields -> Nat]
    BY <1>1
  <2> QED
    BY <1>1, <1>3, <2>1, <2>2 DEF ThreadInv, ThreadTypes, PresetVars
<1>6. SettingsAreRead'
  <2>1. ~mixed' => \A u \in Threads : thread[u].op # "settings"
    BY <1>1, <1>2 DEF Busy
  <2> QED
    BY <1>1, <2>1 DEF SettingsAreRead
<1> QED
  BY <1>4, <1>5, <1>6 DEF ThreadInv

(* Every step of the pool keeps the invariant.                             *)
LEMMA ThreadsStayRight ==
  ThreadInv /\ [ThreadsNext]_threadVars => ThreadInv'
<1>1. ASSUME ThreadInv, UNCHANGED threadVars PROVE ThreadInv'
  BY <1>1 DEF threadVars, ThreadInv, ThreadTypes, KeysAreFresh, DefaultIsOne, SettingsAreRead,
     Used, Copies, Setting, OnPreset, WalkIsOn, Walked, DefaultIs
<1> QED
  BY <1>1, CreatePresetIsRight, ReadsPresetIsRight, PatchesPresetIsRight, DeletesPresetIsRight,
     DuplicatesPresetIsRight, SetDefaultNextIsRight, SetDefaultAssignsIsRight,
     ReadsSettingsIsRight, PatchesSettingsIsRight, ResetsSettingsIsRight DEF ThreadsNext

\* The rest of the pool's types: no key is in the dict twice, and a patch is known by the
\* number of its handler.
KeysAndPatches ==
  /\ Once(keys)
  /\ settings \in [SettingFields -> 0 .. ops] /\ patched \in [SettingFields -> 0 .. ops]
  /\ \A t \in Threads : /\ thread[t].data \in [SettingFields -> 0 .. ops]
                        /\ thread[t].op = "settings" => thread[t].id \in 0 .. ops

LEMMA AppendKeepsOnce ==
  ASSUME NEW S, NEW s \in Seq(S), NEW e \in S, Once(s), e \notin Held(s)
  PROVE  Once(Append(s, e))
<1> DEFINE t == Append(s, e)
<1>1. /\ DOMAIN t = 1 .. Len(s) + 1 /\ DOMAIN s = 1 .. Len(s) /\ Len(s) \in Nat
      /\ t[Len(s) + 1] = e /\ \A i \in 1 .. Len(s) : t[i] = s[i]
  BY AppendProperties, LenProperties
<1> HIDE DEF t
<1>2. \A i \in 1 .. Len(s) + 1 : i \in 1 .. Len(s) \/ i = Len(s) + 1
  BY <1>1
<1>3. \A i \in 1 .. Len(s) : s[i] # e
  BY <1>1 DEF Held
<1>4. Once(t)
  <2> SUFFICES ASSUME NEW i \in 1 .. Len(s) + 1, NEW j \in 1 .. Len(s) + 1, t[i] = t[j]
               PROVE  i = j
    BY <1>1 DEF Once
  <2> QED
    BY <1>1, <1>2, <1>3 DEF Once
<1> QED
  BY <1>4 DEF t

LEMMA KeysAndPatchesStay ==
  ASSUME ThreadInv, KeysAndPatches, [ThreadsNext]_threadVars
  PROVE  KeysAndPatches'
<1>1. /\ keys \in Seq(Ids) /\ ops \in Nat /\ thread \in [Threads -> Handler]
      /\ \A n \in 0 .. ops : n \in 0 .. ops + 1
      /\ \A t \in Threads : thread[t].pc = "idle" => thread[t].op = "none"
  BY DEF ThreadInv, ThreadTypes
<1>2. CASE UNCHANGED threadVars
  BY <1>2 DEF threadVars, KeysAndPatches
<1>3. ASSUME NEW t \in Threads,
             \/ CreatePreset(t) \/ PatchesPreset(t) \/ DeletesPreset(t) \/ DuplicatesPreset(t)
             \/ SetDefaultNext(t) \/ SetDefaultAssigns(t) \/ ReadsSettings(t) \/ ResetsSettings(t)
             \/ \E op \in PresetOps, k \in Ids : ReadsPreset(t, op, k)
             \/ \E F \in SUBSET SettingFields : PatchesSettings(t, F)
      PROVE  KeysAndPatches'
  <2>1. ops' = ops \/ ops' = ops + 1
    BY <1>3 DEF CreatePreset, PatchesPreset, DeletesPreset, DuplicatesPreset, SetDefaultNext,
       SetDefaultAssigns, ReadsSettings, ResetsSettings, ReadsPreset, PatchesSettings,
       PresetBegins, Begins
  <2>2. 0 .. ops \subseteq 0 .. ops' /\ 0 \in 0 .. ops' /\ ops' \in 0 .. ops'
    BY <1>1, <2>1
  <2>8. /\ patched \in [SettingFields -> 0 .. ops]
        /\ \A u \in Threads : thread[u].data \in [SettingFields -> 0 .. ops]
    BY DEF KeysAndPatches
  <2>9. \A u \in Threads : thread[u].op = "settings" => thread[u].id \in 0 .. ops
    BY DEF KeysAndPatches
  <2>10. \A g \in [SettingFields -> 0 .. ops] : g \in [SettingFields -> 0 .. ops']
    BY <2>2
  <2>3. ASSUME NEW k \in Ids PROVE Once(Keyed(k))
    BY <1>1, AppendKeepsOnce DEF Keyed, HasKey, Held, KeysAndPatches
  <2>4. Once(keys')
    <3>1. CASE CreatePreset(t)
      <4>1. NewKey(ops + 1) \notin Held(keys)
        BY NewKeysAreUnused DEF ThreadInv, KeysAreFresh
      <4>2. NewKey(ops + 1) \in Ids
        BY <1>1, <3>1, ThreadConstants DEF CreatePreset, PresetBegins, Begins, NewKey, Ids
      <4>3. keys' = Append(keys, NewKey(ops + 1))
        BY <3>1 DEF CreatePreset, PresetBegins, Begins
      <4> QED
        BY <1>1, <4>1, <4>2, <4>3, AppendKeepsOnce DEF KeysAndPatches
    <3>2. CASE PatchesPreset(t) \/ SetDefaultAssigns(t)
      <4>1. keys' = Keyed(thread[t].id) \/ keys' = Keyed(thread[t].num)
        BY <3>2 DEF PatchesPreset, SetDefaultAssigns
      <4>2. PatchesPreset(t) => thread[t].id \in Ids
        BY UsedKeysAreKeys DEF PatchesPreset, ThreadAt, ThreadInv, KeysAreFresh, OnPreset, PresetOps
      <4>3. SetDefaultAssigns(t) => thread[t].num \in Ids
        BY UsedKeysAreKeys DEF SetDefaultAssigns, ThreadAt, ThreadInv, KeysAreFresh, Setting
      <4> QED
        BY <2>3, <3>2, <4>1, <4>2, <4>3 DEF PatchesPreset, SetDefaultAssigns
    <3>3. CASE DeletesPreset(t)
      BY <1>1, <3>3, RemoveFirstHolds DEF DeletesPreset, KeysAndPatches
    <3>4. CASE DuplicatesPreset(t)
      <4>1. Copies(t) /\ NewKey(thread[t].num) \notin Held(keys)
        BY <3>4, NewKeysAreUnused DEF DuplicatesPreset, ThreadAt, Copies, ThreadInv, KeysAreFresh
      <4>2. NewKey(thread[t].num) \in Ids
        <5>1. thread[t].num \in 1 .. ops /\ ops \in 0 .. MaxOps
          BY <4>1 DEF ThreadInv, ThreadTypes, KeysAreFresh
        <5> QED
          BY <1>1, <5>1, ThreadConstants DEF NewKey, Ids
      <4> QED
        BY <1>1, <3>4, <4>1, <4>2, AppendKeepsOnce DEF DuplicatesPreset, KeysAndPatches
    <3>5. CASE \/ SetDefaultNext(t) \/ ReadsSettings(t) \/ ResetsSettings(t)
               \/ \E op \in PresetOps, k \in Ids : ReadsPreset(t, op, k)
               \/ \E F \in SUBSET SettingFields : PatchesSettings(t, F)
      <4>1. keys' = keys
        BY <3>5 DEF SetDefaultNext, ReadsSettings, ResetsSettings, ReadsPreset, PatchesSettings,
           PresetVars
      <4> QED
        BY <4>1 DEF KeysAndPatches
    <3> QED
      BY <1>3, <3>1, <3>2, <3>3, <3>4, <3>5
  <2>5. /\ settings' \in [SettingFields -> 0 .. ops'] /\ patched' \in [SettingFields -> 0 .. ops']
    <3>1. CASE \E F \in SUBSET SettingFields : PatchesSettings(t, F)
      <4>0. PICK F \in SUBSET SettingFields : PatchesSettings(t, F)
        BY <3>1
      <4>1. /\ thread[t].op = "settings"
            /\ settings' = [f \in SettingFields |-> IF f \in F THEN thread[t].id
                                                    ELSE thread[t].data[f]]
            /\ patched' = [f \in SettingFields |-> IF f \in F THEN thread[t].id ELSE patched[f]]
        BY <4>0 DEF PatchesSettings, ThreadAt, MergedSettings
      <4>2. /\ thread[t].id \in 0 .. ops /\ thread[t].data \in [SettingFields -> 0 .. ops]
            /\ patched \in [SettingFields -> 0 .. ops]
        BY <2>8, <2>9, <4>1
      <4>3. /\ thread[t].id \in 0 .. ops' /\ thread[t].data \in [SettingFields -> 0 .. ops']
            /\ patched \in [SettingFields -> 0 .. ops']
        BY <2>2, <2>10, <4>2
      <4> QED
        BY <4>1, <4>2, <4>3
    <3>2. CASE ResetsSettings(t)
      BY <2>2, <3>2 DEF ResetsSettings
    <3>3. CASE \/ CreatePreset(t) \/ PatchesPreset(t) \/ DeletesPreset(t) \/ DuplicatesPreset(t)
               \/ SetDefaultNext(t) \/ SetDefaultAssigns(t) \/ ReadsSettings(t)
               \/ \E op \in PresetOps, k \in Ids : ReadsPreset(t, op, k)
      <4>1. UNCHANGED <<settings, patched>>
        BY <3>3 DEF CreatePreset, PatchesPreset, DeletesPreset, DuplicatesPreset, SetDefaultNext,
           SetDefaultAssigns, ReadsSettings, ReadsPreset, PresetBegins, SettingsVars
      <4> QED
        BY <2>10, <4>1 DEF KeysAndPatches
    <3> QED
      BY <1>3, <3>1, <3>2, <3>3
  <2>6. /\ \A u \in Threads : u # t => thread'[u] = thread[u]
        /\ \/ thread'[t] = thread[t] \/ thread'[t] = IdleThread
           \/ thread'[t].op \in PresetOps /\ thread'[t].data \in {IdleThread.data, thread[t].data}
           \/ thread'[t].id = ops' /\ thread'[t].data = settings
    <3>1. CASE CreatePreset(t) \/ ResetsSettings(t)
      BY <3>1 DEF CreatePreset, ResetsSettings
    <3>2. CASE \/ PatchesPreset(t) \/ DeletesPreset(t) \/ DuplicatesPreset(t)
               \/ \E F \in SUBSET SettingFields : PatchesSettings(t, F)
      BY <1>1, <3>2 DEF PatchesPreset, DeletesPreset, DuplicatesPreset, PatchesSettings, Done, Step
    <3>3. CASE SetDefaultNext(t) \/ SetDefaultAssigns(t)
      <4>1. thread[t].op = "set-default" /\ thread[t].op \in PresetOps /\ thread[t] \in Handler
        BY <1>1, <3>3 DEF SetDefaultNext, SetDefaultAssigns, ThreadAt, PresetOps
      <4>2. \/ Done(t) \/ Step(t, [thread[t] EXCEPT !.pc = "read"])
            \/ Step(t, [thread[t] EXCEPT !.pc = "assign", !.at = @ + 1,
                                         !.num = keys[thread[t].at + 1]])
        BY <3>3 DEF SetDefaultNext, SetDefaultAssigns
      <4>3. \A r : Step(t, r) => /\ thread'[t] = r
                                 /\ \A u \in Threads : u # t => thread'[u] = thread[u]
        BY <1>1 DEF Step
      <4>4. CASE Done(t)
        BY <1>1, <4>4 DEF Done, Step
      <4>5. CASE Step(t, [thread[t] EXCEPT !.pc = "read"])
        BY <4>1, <4>3, <4>5 DEF Handler
      <4>6. CASE Step(t, [thread[t] EXCEPT !.pc = "assign", !.at = @ + 1,
                                           !.num = keys[thread[t].at + 1]])
        <5> DEFINE r == [thread[t] EXCEPT !.pc = "assign", !.at = @ + 1,
                                          !.num = keys[thread[t].at + 1]]
        <5>1. Step(t, r)
          BY <4>6
        <5>2. r.op = thread[t].op /\ r.data = thread[t].data
          BY <4>1 DEF Handler
        <5> HIDE DEF r
        <5>3. /\ thread'[t] = r
              /\ \A u \in Threads : u # t => thread'[u] = thread[u]
          BY <4>3, <5>1
        <5> QED
          BY <4>1, <5>2, <5>3
      <4> QED
        BY <4>2, <4>4, <4>5, <4>6
    <3>4. CASE ReadsSettings(t)
      BY <1>1, <3>4 DEF ReadsSettings, Step, IdleThread
    <3>5. CASE \E op \in PresetOps, k \in Ids : ReadsPreset(t, op, k)
      <4>1. PICK op \in PresetOps, k \in Ids : ReadsPreset(t, op, k)
        BY <3>5
      <4>2. \/ thread' = thread
            \/ Step(t, [IdleThread EXCEPT !.op = op, !.pc = "read", !.id = k, !.held = preset[k],
                                          !.size = Len(keys), !.num = ops'])
        BY <4>1 DEF ReadsPreset
      <4> QED
        BY <1>1, <4>2, ZenonT(60) DEF Step, IdleThread
    <3> QED
      BY <1>3, <3>1, <3>2, <3>3, <3>4, <3>5
  <2>7. \A u \in Threads : /\ thread'[u].data \in [SettingFields -> 0 .. ops']
                           /\ thread'[u].op = "settings" => thread'[u].id \in 0 .. ops'
    <3>1. \A u \in Threads : /\ thread[u].data \in [SettingFields -> 0 .. ops']
                             /\ thread[u].op = "settings" => thread[u].id \in 0 .. ops'
      <4> TAKE u \in Threads
      <4>1. /\ thread[u].data \in [SettingFields -> 0 .. ops]
            /\ thread[u].op = "settings" => thread[u].id \in 0 .. ops
        BY <2>8, <2>9
      <4> QED
        BY <2>2, <2>10, <4>1
    <3>2. /\ settings \in [SettingFields -> 0 .. ops'] /\ "settings" \notin PresetOps
          /\ IdleThread.data \in [SettingFields -> 0 .. ops'] /\ IdleThread.op = "none"
      BY <2>2, <2>10 DEF KeysAndPatches, IdleThread, PresetOps
    <3> QED
      BY <2>2, <2>6, <3>1, <3>2
  <2> QED
    BY <2>4, <2>5, <2>7 DEF KeysAndPatches
<1> QED
  BY <1>2, <1>3 DEF ThreadsNext

(* In every run of the pool: however its handlers overlap, no preset is in *)
(* the dict twice, and what the settings hold was patched or is a default. *)
THEOREM ThreadsTypeCorrect ==
  ThreadsSpec => []ThreadsTypeOK
<1>1. ThreadsInit => KeysAndPatches
  <2> SUFFICES ASSUME ThreadsInit PROVE KeysAndPatches
    OBVIOUS
  <2>1. Once(keys)
    BY DEF ThreadsInit, Once
  <2>2. ops = 0 /\ 0 \in 0 .. ops
    BY DEF ThreadsInit
  <2> QED
    BY <2>1, <2>2 DEF ThreadsInit, KeysAndPatches, IdleThread
<1>2. ASSUME ThreadInv, KeysAndPatches PROVE ThreadsTypeOK
  <2>1. /\ keys \in Seq(Ids) /\ DOMAIN keys = 1 .. Len(keys) /\ ops \in 0 .. MaxOps
        /\ MaxOps \in Nat
    BY <1>2, LenProperties, ThreadConstants DEF ThreadInv, ThreadTypes
  <2>2. \A i \in DOMAIN keys : keys[i] \in Ids
    BY <2>1, ElementOfSeq
  <2>3. 0 .. ops \subseteq 0 .. MaxOps
    BY <2>1
  <2> QED
    BY <1>2, <2>1, <2>2, <2>3 DEF KeysAndPatches, Once, ThreadsTypeOK
<1> QED
  BY <1>1, <1>2, ThreadsStartRight, ThreadsStayRight, KeysAndPatchesStay, PTL DEF ThreadsSpec

(* For any pool and any number of presets: as long as nothing overlaps a   *)
(* set-default, one preset is the default whenever the pool rests, and as  *)
(* long as no two writes of the settings overlap, no patch is lost.        *)
THEOREM PresetsAndSettingsAreKept ==
  ThreadsSpec => []ThreadsKeep
<1>1. ASSUME ThreadInv PROVE OneDefault
  <2> SUFFICES ASSUME ThreadsRest, ~crossed PROVE Cardinality(Defaults) = 1
    BY DEF OneDefault
  <2>1. \A t \in Threads : ~Setting(t)
    BY <1>1 DEF ThreadInv, ThreadTypes, ThreadsRest, Setting
  <2>2. PICK d \in Ids : DefaultIs(d)
    BY <1>1, <2>1 DEF ThreadInv, DefaultIsOne
  <2>3. Defaults = {d}
    BY <2>2 DEF Defaults, DefaultIs, HasKey, Held
  <2> QED
    BY <2>3, FS_Singleton
<1>2. ASSUME ThreadInv PROVE PatchesKept
  BY <1>2 DEF ThreadInv, SettingsAreRead, PatchesKept
<1> QED
  BY <1>1, <1>2, ThreadsStartRight, ThreadsStayRight, PTL DEF ThreadsSpec, ThreadsKeep

-----------------------------------------------------------------------------
(***************************************************************************)
(* RegistryProxies: no entry is lost to an overlap, and no server is shown *)
(* with the status of an earlier one, the strays apart.                    *)
(***************************************************************************)

Gens     == {0, 99} \cup RegistryCalls
Server   == [gen : Gens, enabled : BOOLEAN]
CallPcs  == {"idle", "done", "remove", "add", "get", "probe", "patch", "post", "pop"}
CallKinds    == {"none", "create", "delete", "replace", "register", "ping", "drop", "toggle", "serena"}
CallAnswers  == {"", "ok", "404", "409", "502"}
CallRecs == [kind : CallKinds, pc : CallPcs, read : Server, answer : CallAnswers]
Pings    == [status : {"disconnected", "connected", "error"}, gen : Gens]

RegistryTypes ==
  /\ store \in Gens /\ server \in Server /\ pinged \in Pings
  /\ handler \in [RegistryCalls -> CallRecs]
  /\ due \in {"absent", "present", "deleted", "dropped"} /\ stray \subseteq Gens
  /\ refusals \in 0 .. MaxRefusals

\* Who probes has read the server that is there, or one noted as a stray.
ProbesMeetTheirServer ==
  \A q \in RegistryCalls : handler[q].pc = "probe" => handler[q].read.gen \in {server.gen} \cup stray

\* Only a request that has ended has an answer, and an idle one is nothing yet.
EndedHaveAnswers ==
  \A q \in RegistryCalls : /\ handler[q].answer # "" => handler[q].pc = "done"
                           /\ handler[q].kind = "none" => handler[q].pc = "idle"

RegistryInv == RegistryTypes /\ RegistryKeeps /\ ProbesMeetTheirServer /\ EndedHaveAnswers

(* What a request's record becomes when it is taken up, goes on or ends;   *)
(* the records of the others stay.                                         *)
LEMMA HandlerMoves ==
  ASSUME RegistryTypes, NEW r \in RegistryCalls, NEW rec \in CallRecs,
         handler' = [handler EXCEPT ![r] = rec]
  PROVE  /\ handler' \in [RegistryCalls -> CallRecs] /\ handler'[r] = rec
         /\ \A q \in RegistryCalls : q # r => handler'[q] = handler[q]
BY DEF RegistryTypes

(* A request that is taken up has read the server as it is.                *)
LEMMA TakenUp ==
  ASSUME RegistryTypes, NEW r \in RegistryCalls, NEW kind \in CallKinds, NEW pc \in CallPcs,
         TakesUp(r, kind, pc)
  PROVE  /\ handler' \in [RegistryCalls -> CallRecs] /\ handler'[r].kind = kind
         /\ handler'[r].pc = pc /\ handler'[r].read = server
         /\ handler[r].pc = "idle" /\ handler'[r].answer = handler[r].answer
         /\ \A q \in RegistryCalls : q # r => handler'[q] = handler[q]
<1> DEFINE rec == [handler[r] EXCEPT !.kind = kind, !.pc = pc, !.read = server]
<1>1. /\ rec \in CallRecs /\ rec.kind = kind /\ rec.pc = pc /\ rec.read = server
      /\ rec.answer = handler[r].answer
  <2>1. handler[r] \in CallRecs
    BY DEF RegistryTypes
  <2> QED
    BY <2>1 DEF CallRecs, RegistryTypes
<1>2. handler' = [handler EXCEPT ![r] = rec] /\ handler[r].pc = "idle"
  BY DEF TakesUp, RegistryTypes
<1> HIDE DEF rec
<1> QED
  BY <1>1, <1>2, HandlerMoves

(* A request that goes on keeps its kind.                                  *)
LEMMA GoneOn ==
  ASSUME RegistryTypes, NEW r \in RegistryCalls, NEW pc \in CallPcs, GoesTo(r, pc)
  PROVE  /\ handler' \in [RegistryCalls -> CallRecs] /\ handler'[r].kind = handler[r].kind
         /\ handler'[r].pc = pc /\ handler'[r].answer = handler[r].answer
         /\ \A q \in RegistryCalls : q # r => handler'[q] = handler[q]
<1> DEFINE rec == [handler[r] EXCEPT !.pc = pc]
<1>1. /\ rec \in CallRecs /\ rec.kind = handler[r].kind /\ rec.pc = pc
      /\ rec.answer = handler[r].answer
  <2>1. handler[r] \in CallRecs
    BY DEF RegistryTypes
  <2> QED
    BY <2>1 DEF CallRecs
<1>2. handler' = [handler EXCEPT ![r] = rec]
  BY DEF GoesTo, RegistryTypes
<1> HIDE DEF rec
<1> QED
  BY <1>1, <1>2, HandlerMoves

(* A request that ends is done.                                            *)
LEMMA HandlerEnds ==
  ASSUME RegistryTypes, NEW r \in RegistryCalls, NEW answer \in CallAnswers, Ends(r, answer)
  PROVE  /\ handler' \in [RegistryCalls -> CallRecs] /\ handler'[r].pc = "done"
         /\ handler'[r].kind = handler[r].kind /\ handler'[r].answer = answer
         /\ \A q \in RegistryCalls : q # r => handler'[q] = handler[q]
<1> DEFINE rec == [handler[r] EXCEPT !.pc = "done", !.answer = answer]
<1>1. rec \in CallRecs /\ rec.pc = "done" /\ rec.kind = handler[r].kind /\ rec.answer = answer
  <2>1. handler[r] \in CallRecs /\ "done" \in CallPcs
    BY DEF RegistryTypes, CallPcs
  <2> QED
    BY <2>1 DEF CallRecs
<1>2. handler' = [handler EXCEPT ![r] = rec]
  BY DEF Ends, RegistryTypes
<1> HIDE DEF rec
<1> QED
  BY <1>1, <1>2, HandlerMoves

(* What holds at the start, whoever made the entry and the server.         *)
LEMMA RegistryStarts == RegistryInit => RegistryInv
<1> SUFFICES ASSUME RegistryInit PROVE RegistryInv
  OBVIOUS
<1>1. NoHandler \in CallRecs /\ NoHandler.pc = "idle" /\ NoHandler.answer = ""
  BY DEF NoHandler, CallRecs, Server, Gens, CallKinds, CallPcs, CallAnswers
<1>2. NotPinged \in Pings
  BY DEF NotPinged, Pings, Gens
<1>3. server \in Server /\ store \in Gens
  BY DEF RegistryInit, Server, Gens
<1>4. RegistryTypes
  <2>1. stray \subseteq Gens
    BY DEF RegistryInit
  <2>2. due \in {"absent", "present", "deleted", "dropped"} /\ refusals \in 0 .. MaxRefusals
    BY RegistryConstants DEF RegistryInit
  <2>3. handler \in [RegistryCalls -> CallRecs]
    BY <1>1 DEF RegistryInit
  <2>4. pinged \in Pings
    BY <1>2 DEF RegistryInit
  <2> QED
    BY <1>3, <2>1, <2>2, <2>3, <2>4 DEF RegistryTypes
<1>5. RegistryKeeps /\ ProbesMeetTheirServer /\ EndedHaveAnswers
  <2>1. EntryIsNotLost
    BY DEF RegistryInit, EntryIsNotLost
  <2>2. PingOfItsOwn
    BY DEF RegistryInit, PingOfItsOwn, NotPinged
  <2>3. \A q \in RegistryCalls : handler[q].pc = "idle" /\ handler[q].answer = ""
    BY <1>1 DEF RegistryInit
  <2> QED
    BY <2>1, <2>2, <2>3 DEF RegistryKeeps, ProbesMeetTheirServer, EndedHaveAnswers
<1> QED
  BY <1>4, <1>5 DEF RegistryInv

(* The requests about the entry leave the server alone: none of them comes *)
(* to probe it, unless it has just read it, or is about to drop a status.  *)
LEMMA ServerIsLeft ==
  ASSUME RegistryInv, UNCHANGED ServerVars, NEW r \in RegistryCalls,
         \A q \in RegistryCalls : q # r => handler'[q] = handler[q],
         handler'[r].pc # "probe" \/ handler'[r].read = server,
         ~ HandlerAt(r, "drop", "pop")
  PROVE  PingOfItsOwn' /\ ProbesMeetTheirServer'
<1>1. /\ server' = server /\ pinged' = pinged /\ stray' = stray
  BY DEF ServerVars
<1>2. ProbesMeetTheirServer'
  BY <1>1 DEF RegistryInv, ProbesMeetTheirServer
<1>3. PingOfItsOwn'
  <2> SUFFICES ASSUME pinged.gen \notin {0, server.gen} \cup stray
               PROVE  \E q \in RegistryCalls : HandlerAt(q, "drop", "pop")'
    BY <1>1 DEF PingOfItsOwn
  <2>1. PICK q \in RegistryCalls : HandlerAt(q, "drop", "pop")
    BY DEF RegistryInv, RegistryKeeps, PingOfItsOwn
  <2> QED
    BY <2>1 DEF HandlerAt
<1> QED
  BY <1>2, <1>3

(* The requests about the server leave the entry alone: who holds it goes  *)
(* on holding it, and who has lost it has been told.                       *)
LEMMA EntryIsLeft ==
  ASSUME RegistryInv, UNCHANGED StoreVars, NEW r \in RegistryCalls,
         \A q \in RegistryCalls : q # r => handler'[q] = handler[q],
         ~ HandlerAt(r, "replace", "add"), handler[r].pc # "done"
  PROVE  EntryIsNotLost'
<1>1. due' = due /\ store' = store
  BY DEF StoreVars
<1>2. ASSUME due = "present", store = 0
      PROVE  \E q \in RegistryCalls : HandlerAt(q, "replace", "add")'
  <2>1. PICK q \in RegistryCalls : HandlerAt(q, "replace", "add")
    BY <1>2 DEF RegistryInv, RegistryKeeps, EntryIsNotLost
  <2> QED
    BY <2>1 DEF HandlerAt
<1>3. ASSUME due = "dropped"
      PROVE  \E q \in RegistryCalls : handler'[q].kind = "replace" /\ handler'[q].answer = "502"
  <2>1. PICK q \in RegistryCalls : handler[q].kind = "replace" /\ handler[q].answer = "502"
    BY <1>3 DEF RegistryInv, RegistryKeeps, EntryIsNotLost
  <2>2. q # r
    BY <2>1 DEF RegistryInv, EndedHaveAnswers
  <2> QED
    BY <2>1, <2>2
<1> QED
  BY <1>1, <1>2, <1>3 DEF EntryIsNotLost

(* A step of one request that was not done leaves answers to those that    *)
(* have ended.                                                             *)
LEMMA AnswersAreOfEnded ==
  ASSUME RegistryInv, NEW r \in RegistryCalls, handler[r].pc # "done",
         \A q \in RegistryCalls : q # r => handler'[q] = handler[q],
         handler'[r].pc = "done" \/ handler'[r].answer = handler[r].answer,
         handler'[r].kind # "none"
  PROVE  EndedHaveAnswers'
BY DEF RegistryInv, EndedHaveAnswers

(* The requests about the entry: only the one that removes it to add it    *)
(* anew leaves it absent while it is present to the caller, and that one   *)
(* then holds it, or fails and says so.                                    *)
LEMMA EntryActions ==
  ASSUME RegistryInv, NEW r \in RegistryCalls,
         \/ CreateEntry(r) \/ DeleteEntry(r) \/ ReplaceAsked(r) \/ ReplaceRemoves(r)
         \/ ReplaceAdds(r)
  PROVE  RegistryInv'
<1>0. RegistryTypes /\ r \in Gens /\ UNCHANGED ServerVars
  BY DEF RegistryInv, Gens, CreateEntry, DeleteEntry, ReplaceAsked, ReplaceRemoves, ReplaceAdds
<1>r. refusals' \in 0 .. MaxRefusals
  BY <1>0, RegistryConstants
  DEF RegistryTypes, UpstreamRefuses, CallAnswered, CallLost, CreateEntry, DeleteEntry,
      ReplaceAsked, ReplaceRemoves, ReplaceAdds
<1>1. /\ handler' \in [RegistryCalls -> CallRecs]
      /\ \A q \in RegistryCalls : q # r => handler'[q] = handler[q]
      /\ handler'[r].pc # "probe" /\ handler'[r].kind # "none"
      /\ handler'[r].pc = "done" \/ handler'[r].answer = handler[r].answer
      /\ handler[r].pc \in {"idle", "remove", "add"}
      /\ handler[r].pc = "idle" \/ ReplaceRemoves(r) \/ ReplaceAdds(r)
  <2>1. CASE CreateEntry(r)
    <3>1. TakesUp(r, "create", "done")
      BY <2>1 DEF CreateEntry
    <3> QED
      BY <1>0, <3>1, TakenUp DEF CallKinds, CallPcs
  <2>2. CASE DeleteEntry(r)
    <3>1. TakesUp(r, "delete", "done")
      BY <2>2 DEF DeleteEntry
    <3> QED
      BY <1>0, <3>1, TakenUp DEF CallKinds, CallPcs
  <2>3. CASE ReplaceAsked(r)
    <3>1. CASE store = 0
      BY <1>0, <2>3, <3>1, TakenUp DEF ReplaceAsked, CallKinds, CallPcs
    <3>2. CASE store # 0
      BY <1>0, <2>3, <3>2, TakenUp DEF ReplaceAsked, CallKinds, CallPcs
    <3> QED
      BY <3>1, <3>2
  <2>4. CASE ReplaceRemoves(r)
    <3>1. GoesTo(r, "add") \/ Ends(r, "404") \/ Ends(r, "502")
      BY <2>4 DEF ReplaceRemoves, CallLost
    <3>2. handler[r].kind = "replace" /\ handler[r].pc = "remove"
      BY <2>4 DEF ReplaceRemoves, HandlerAt
    <3> QED
      BY <1>0, <2>4, <3>1, <3>2, GoneOn, HandlerEnds DEF CallAnswers, CallPcs
  <2>5. CASE ReplaceAdds(r)
    <3>1. Ends(r, "ok") \/ Ends(r, "409") \/ Ends(r, "502")
      BY <2>5 DEF ReplaceAdds, CallLost, CallAnswered
    <3>2. handler[r].kind = "replace" /\ handler[r].pc = "add"
      BY <2>5 DEF ReplaceAdds, HandlerAt
    <3> QED
      BY <1>0, <2>5, <3>1, <3>2, HandlerEnds DEF CallAnswers
  <2> QED
    BY <2>1, <2>2, <2>3, <2>4, <2>5
<1>2. RegistryTypes'
  <2>1. store' \in Gens /\ due' \in {"absent", "present", "deleted", "dropped"}
    BY <1>0
    DEF RegistryTypes, Gens, StoreVars, CreateEntry, DeleteEntry, ReplaceAsked, ReplaceRemoves,
        ReplaceAdds
  <2> QED
    BY <1>0, <1>r, <1>1, <2>1 DEF RegistryTypes, ServerVars
<1>3. EntryIsNotLost'
  <2>1. CASE UNCHANGED StoreVars /\ ~ HandlerAt(r, "replace", "add")
    BY <1>1, <2>1, EntryIsLeft
  <2>2. CASE ReplaceRemoves(r) /\ store' = 0 /\ GoesTo(r, "add") /\ due' = due
    <3>1. handler'[r].pc = "add" /\ handler'[r].kind = "replace"
      BY <1>0, <2>2, GoneOn DEF ReplaceRemoves, HandlerAt, CallPcs
    <3>2. ASSUME due = "dropped"
          PROVE  \E q \in RegistryCalls : handler'[q].kind = "replace" /\ handler'[q].answer = "502"
      <4>1. PICK q \in RegistryCalls : handler[q].kind = "replace" /\ handler[q].answer = "502"
        BY <3>2 DEF RegistryInv, RegistryKeeps, EntryIsNotLost
      <4>2. q # r
        BY <1>1, <4>1 DEF RegistryInv, EndedHaveAnswers
      <4> QED
        BY <1>1, <4>1, <4>2
    <3> QED
      BY <2>2, <3>1, <3>2 DEF EntryIsNotLost, HandlerAt
  <2>3. CASE due' = "deleted"
    BY <2>3 DEF EntryIsNotLost
  <2>4. CASE due' = "present" /\ store' = r
    BY <2>4, RegistryConstants DEF EntryIsNotLost
  <2>5. CASE /\ due' = "dropped" /\ CallLost(r)
             /\ ReplaceRemoves(r) \/ ReplaceAdds(r)
    <3>1. handler[r].kind = "replace"
      BY <2>5 DEF ReplaceRemoves, ReplaceAdds, HandlerAt
    <3>2. handler'[r].kind = "replace" /\ handler'[r].answer = "502"
      BY <1>0, <2>5, <3>1, HandlerEnds DEF CallLost, CallAnswers
    <3> QED
      BY <2>5, <3>2 DEF EntryIsNotLost
  <2>6. CASE due' = due /\ store # 0 /\ store' = store
    <3>1. ASSUME due = "dropped"
          PROVE  \E q \in RegistryCalls : handler'[q].kind = "replace" /\ handler'[q].answer = "502"
      <4>1. PICK q \in RegistryCalls : handler[q].kind = "replace" /\ handler[q].answer = "502"
        BY <3>1 DEF RegistryInv, RegistryKeeps, EntryIsNotLost
      <4>2. q # r
        BY <1>1, <4>1 DEF RegistryInv, EndedHaveAnswers
      <4> QED
        BY <1>1, <4>1, <4>2
    <3> QED
      BY <2>6, <3>1 DEF EntryIsNotLost
  <2>7. CASE DeleteEntry(r) /\ store = 0 /\ UNCHANGED StoreVars
    BY <1>1, <2>7, EntryIsLeft DEF HandlerAt, DeleteEntry, TakesUp
  <2> QED
    BY <1>1, <2>1, <2>2, <2>3, <2>4, <2>5, <2>6, <2>7
    DEF CreateEntry, DeleteEntry, ReplaceAsked, ReplaceRemoves, ReplaceAdds, StoreVars,
        HandlerAt, TakesUp, CallLost, CallAnswered
<1>4. PingOfItsOwn' /\ ProbesMeetTheirServer'
  BY <1>0, <1>1, ServerIsLeft DEF HandlerAt
<1>5. EndedHaveAnswers'
  BY <1>1, AnswersAreOfEnded
<1> QED
  BY <1>2, <1>3, <1>4, <1>5 DEF RegistryInv, RegistryKeeps

(* Where a server is put, the one it overwrites, if any, is a stray.       *)
LEMMA ServerIsPut ==
  ASSUME RegistryInv, NEW r \in RegistryCalls, pinged' = pinged,
         Puts(r) \/ UNCHANGED <<server, stray>>,
         \A q \in RegistryCalls : q # r => handler'[q] = handler[q],
         handler'[r].pc # "probe", ~ HandlerAt(r, "drop", "pop")
  PROVE  /\ PingOfItsOwn' /\ ProbesMeetTheirServer'
         /\ server' \in Server /\ stray' \subseteq Gens
<1>1. CASE UNCHANGED <<server, stray>>
  BY <1>1, ServerIsLeft DEF ServerVars, RegistryInv, RegistryTypes
<1>2. CASE Puts(r)
  <2>1. stray' = stray \cup {server.gen} /\ server'.gen = r /\ server' \in Server
    BY <1>2 DEF Puts, Server, Gens
  <2>2. stray' \subseteq Gens
    BY <2>1 DEF RegistryInv, RegistryTypes, Server
  <2>3. ProbesMeetTheirServer'
    BY <2>1 DEF RegistryInv, ProbesMeetTheirServer
  <2>4. PingOfItsOwn'
    <3> SUFFICES ASSUME pinged.gen \notin {0, server.gen} \cup stray
                 PROVE  \E q \in RegistryCalls : HandlerAt(q, "drop", "pop")'
      BY <2>1 DEF PingOfItsOwn
    <3>1. PICK q \in RegistryCalls : HandlerAt(q, "drop", "pop")
      BY DEF RegistryInv, RegistryKeeps, PingOfItsOwn
    <3> QED
      BY <3>1 DEF HandlerAt
  <2> QED
    BY <2>1, <2>2, <2>3, <2>4
<1> QED
  BY <1>1, <1>2

(* A server goes: who deletes it is about to drop its status, or it is a   *)
(* stray.                                                                  *)
LEMMA ServerGoes ==
  ASSUME RegistryInv, NEW r \in RegistryCalls, DeleteServer(r),
         \A q \in RegistryCalls : q # r => handler'[q] = handler[q],
         handler'[r].pc \in {"pop", "done"}, handler[r].pc = "idle",
         handler'[r].pc = "pop" => handler'[r].kind = "drop"
  PROVE  /\ PingOfItsOwn' /\ ProbesMeetTheirServer'
         /\ server' \in Server /\ stray' \subseteq Gens
<1>0. pinged' = pinged /\ ~ HandlerAt(r, "drop", "pop") /\ handler'[r].pc # "probe"
  BY DEF DeleteServer, HandlerAt
<1>1. CASE UNCHANGED <<server, stray>>
  BY <1>0, <1>1, ServerIsPut
<1>2. CASE server' = NoServer /\ stray' = stray \cup {server.gen}
  <2>1. server' \in Server /\ stray' \subseteq Gens /\ server'.gen = 0
    BY <1>2 DEF NoServer, Server, Gens, RegistryInv, RegistryTypes
  <2>2. ProbesMeetTheirServer'
    BY <1>0, <1>2 DEF RegistryInv, ProbesMeetTheirServer
  <2>3. PingOfItsOwn'
    <3> SUFFICES ASSUME pinged.gen \notin {0, server.gen} \cup stray
                 PROVE  \E q \in RegistryCalls : HandlerAt(q, "drop", "pop")'
      BY <1>0, <1>2 DEF PingOfItsOwn
    <3>1. PICK q \in RegistryCalls : HandlerAt(q, "drop", "pop")
      BY DEF RegistryInv, RegistryKeeps, PingOfItsOwn
    <3> QED
      BY <1>0, <3>1 DEF HandlerAt
  <2> QED
    BY <2>1, <2>2, <2>3
<1>3. CASE /\ TakesUp(r, "drop", "pop") /\ server' = NoServer
           /\ stray' = stray /\ ~ Probing(server.gen)
  <2>1. handler'[r].pc = "pop" /\ handler'[r].kind = "drop"
    BY <1>3, TakenUp DEF RegistryInv, CallKinds, CallPcs
  <2>2. PingOfItsOwn'
    BY <2>1 DEF PingOfItsOwn, HandlerAt
  <2>3. ProbesMeetTheirServer'
    BY <1>0, <1>3 DEF RegistryInv, ProbesMeetTheirServer, Probing
  <2>4. server' \in Server /\ stray' \subseteq Gens
    BY <1>3 DEF NoServer, Server, Gens, RegistryInv, RegistryTypes
  <2> QED
    BY <2>2, <2>3, <2>4
<1> QED
  BY <1>1, <1>2, <1>3 DEF DeleteServer

(* The requests about the server: who probes one has met it, so a          *)
(* deletion while nobody probes leaves nothing behind.                     *)
LEMMA ServerActions ==
  ASSUME RegistryInv, NEW r \in RegistryCalls,
         \/ RegisterServer(r) \/ Probed(r) \/ DeleteServer(r) \/ PopsPing(r)
         \/ ToggleAsked(r) \/ TogglePatches(r)
  PROVE  RegistryInv'
<1>0. RegistryTypes /\ r \in Gens /\ r # 0 /\ UNCHANGED StoreVars
  BY RegistryConstants
  DEF RegistryInv, Gens, RegisterServer, Probed, DeleteServer, PopsPing, ToggleAsked, TogglePatches
<1>r. refusals' \in 0 .. MaxRefusals
  BY <1>0, RegistryConstants
  DEF RegistryTypes, UpstreamRefuses, CallAnswered, CallLost, RegisterServer, Probed,
      DeleteServer, PopsPing, ToggleAsked, TogglePatches
<1>1. /\ handler' \in [RegistryCalls -> CallRecs]
      /\ \A q \in RegistryCalls : q # r => handler'[q] = handler[q]
      /\ handler'[r].pc # "probe" /\ handler'[r].kind # "none" /\ handler[r].pc # "done"
      /\ handler'[r].pc = "done" \/ handler'[r].answer = handler[r].answer
      /\ ~ HandlerAt(r, "replace", "add")
      /\ HandlerAt(r, "drop", "pop") => PopsPing(r)
      /\ DeleteServer(r) => /\ handler'[r].pc \in {"pop", "done"} /\ handler[r].pc = "idle"
                            /\ handler'[r].kind = "drop"
  <2>1. CASE RegisterServer(r)
    <3>1. TakesUp(r, "register", "get") \/ TakesUp(r, "register", "done")
      BY <2>1 DEF RegisterServer
    <3>2. /\ "register" \in CallKinds /\ "get" \in CallPcs /\ "done" \in CallPcs
      BY DEF CallKinds, CallPcs
    <3>3. ~ DeleteServer(r)
      BY <1>0, <3>1, <3>2, TakenUp DEF DeleteServer, CallKinds, CallPcs
    <3> QED
      BY <1>0, <3>1, <3>2, <3>3, TakenUp DEF HandlerAt
  <2>2. CASE Probed(r)
    <3>1. \E a \in CallAnswers : Ends(r, a)
      BY <2>2 DEF Probed, CallAnswers
    <3>2. handler[r].pc = "probe" /\ handler[r].kind # "none"
      BY <2>2 DEF Probed, RegistryInv, EndedHaveAnswers
    <3>3. ~ DeleteServer(r)
      BY <3>2 DEF DeleteServer, TakesUp
    <3> QED
      BY <1>0, <3>1, <3>2, <3>3, HandlerEnds DEF HandlerAt
  <2>3. CASE DeleteServer(r)
    <3>1. TakesUp(r, "drop", "pop") \/ TakesUp(r, "drop", "done")
      BY <2>3 DEF DeleteServer
    <3>2. /\ "drop" \in CallKinds /\ "pop" \in CallPcs /\ "done" \in CallPcs
      BY DEF CallKinds, CallPcs
    <3> QED
      BY <1>0, <3>1, <3>2, TakenUp DEF HandlerAt
  <2>4. CASE PopsPing(r)
    <3>1. Ends(r, "ok") /\ HandlerAt(r, "drop", "pop")
      BY <2>4 DEF PopsPing, CallAnswered
    <3>2. ~ DeleteServer(r)
      BY <3>1 DEF DeleteServer, TakesUp, HandlerAt
    <3> QED
      BY <1>0, <2>4, <3>1, <3>2, HandlerEnds DEF CallAnswers, HandlerAt
  <2>5. CASE ToggleAsked(r)
    <3>1. TakesUp(r, "toggle", "patch")
      BY <2>5 DEF ToggleAsked
    <3>2. "toggle" \in CallKinds /\ "patch" \in CallPcs
      BY DEF CallKinds, CallPcs
    <3>3. ~ DeleteServer(r)
      BY <1>0, <3>1, <3>2, TakenUp DEF DeleteServer, CallKinds, CallPcs
    <3> QED
      BY <1>0, <3>1, <3>2, <3>3, TakenUp DEF HandlerAt
  <2>6. CASE TogglePatches(r)
    <3>1. (Ends(r, "ok") \/ Ends(r, "502")) /\ HandlerAt(r, "toggle", "patch")
      BY <2>6 DEF TogglePatches, CallAnswered, CallLost
    <3>2. ~ DeleteServer(r)
      BY <3>1 DEF DeleteServer, TakesUp, HandlerAt
    <3> QED
      BY <1>0, <3>1, <3>2, HandlerEnds DEF CallAnswers, HandlerAt
  <2> QED
    BY <2>1, <2>2, <2>3, <2>4, <2>5, <2>6
<1>2. /\ PingOfItsOwn' /\ ProbesMeetTheirServer'
      /\ server' \in Server /\ stray' \subseteq Gens /\ pinged' \in Pings
  <2>0. server \in Server /\ stray \subseteq Gens /\ pinged \in Pings /\ handler[r].read \in Server
    BY <1>0 DEF RegistryTypes, CallRecs
  <2>1. CASE RegisterServer(r)
    <3>1. pinged' = pinged /\ (Puts(r) \/ UNCHANGED <<server, stray>>)
      BY <2>1 DEF RegisterServer
    <3>2. ~ HandlerAt(r, "drop", "pop")
      BY <2>1 DEF RegisterServer, TakesUp, HandlerAt
    <3> QED
      BY <1>1, <2>0, <3>1, <3>2, ServerIsPut
  <2>2. CASE Probed(r)
    <3>1. /\ server' = server /\ stray' = stray /\ handler[r].pc = "probe"
          /\ \/ pinged' = pinged
             \/ \E status \in {"connected", "error"} :
                  pinged' = [status |-> status, gen |-> handler[r].read.gen]
      BY <2>2 DEF Probed
    <3>2. ProbesMeetTheirServer'
      BY <1>1, <3>1 DEF RegistryInv, ProbesMeetTheirServer
    <3>3. CASE pinged' = pinged
      BY <1>1, <2>0, <3>1, <3>3, ServerIsLeft DEF ServerVars, HandlerAt
    <3>4. CASE \E status \in {"connected", "error"} :
                 pinged' = [status |-> status, gen |-> handler[r].read.gen]
      <4>1. pinged'.gen = handler[r].read.gen /\ pinged' \in Pings
        BY <2>0, <3>4 DEF Pings, Server
      <4>2. PingOfItsOwn'
        BY <3>1, <4>1 DEF RegistryInv, ProbesMeetTheirServer, PingOfItsOwn
      <4> QED
        BY <2>0, <3>1, <3>2, <4>1, <4>2
    <3> QED
      BY <3>1, <3>3, <3>4
  <2>3. CASE DeleteServer(r)
    <3>1. pinged' = pinged
      BY <2>3 DEF DeleteServer
    <3> QED
      BY <1>1, <2>0, <2>3, <3>1, ServerGoes
  <2>4. CASE PopsPing(r)
    <3>1. server' = server /\ stray' = stray /\ pinged' = NotPinged
      BY <2>4 DEF PopsPing
    <3>2. pinged' \in Pings /\ pinged'.gen = 0
      BY <3>1 DEF NotPinged, Pings, Gens
    <3> QED
      BY <1>1, <2>0, <3>1, <3>2 DEF RegistryInv, PingOfItsOwn, ProbesMeetTheirServer
  <2>5. CASE ToggleAsked(r)
    <3>1. UNCHANGED ServerVars /\ ~ HandlerAt(r, "drop", "pop")
      BY <2>5 DEF ToggleAsked, TakesUp, HandlerAt
    <3> QED
      BY <1>1, <2>0, <3>1, ServerIsLeft DEF ServerVars
  <2>6. CASE TogglePatches(r)
    <3>1. /\ server'.gen = server.gen /\ pinged' = pinged /\ stray' = stray /\ server' \in Server
          /\ ~ HandlerAt(r, "drop", "pop")
      BY <2>0, <2>6 DEF TogglePatches, Server, HandlerAt
    <3>2. ProbesMeetTheirServer'
      BY <1>1, <3>1 DEF RegistryInv, ProbesMeetTheirServer
    <3>3. PingOfItsOwn'
      <4> SUFFICES ASSUME pinged.gen \notin {0, server.gen} \cup stray
                   PROVE  \E q \in RegistryCalls : HandlerAt(q, "drop", "pop")'
        BY <3>1 DEF PingOfItsOwn
      <4>1. PICK q \in RegistryCalls : HandlerAt(q, "drop", "pop")
        BY DEF RegistryInv, RegistryKeeps, PingOfItsOwn
      <4> QED
        BY <1>1, <3>1, <4>1 DEF HandlerAt
    <3> QED
      BY <2>0, <3>1, <3>2, <3>3
  <2> QED
    BY <2>1, <2>2, <2>3, <2>4, <2>5, <2>6
<1>3. RegistryTypes'
  <2>1. store' \in Gens /\ due' \in {"absent", "present", "deleted", "dropped"}
    BY <1>0 DEF RegistryTypes, StoreVars
  <2> QED
    BY <1>r, <1>1, <1>2, <2>1 DEF RegistryTypes
<1>4. EntryIsNotLost'
  BY <1>0, <1>1, EntryIsLeft
<1>5. EndedHaveAnswers'
  BY <1>1, AnswersAreOfEnded
<1> QED
  BY <1>2, <1>3, <1>4, <1>5 DEF RegistryInv, RegistryKeeps

(* A probe is begun only of a server that is there.                        *)
LEMMA ServerIsRead ==
  ASSUME RegistryInv, NEW r \in RegistryCalls, ReadsServer(r)
  PROVE  RegistryInv'
<1>0. RegistryTypes /\ UNCHANGED <<StoreVars, ServerVars, refusals>>
  BY DEF RegistryInv, ReadsServer
<1> DEFINE kind == IF handler[r].kind = "none" THEN "ping" ELSE handler[r].kind
           pc   == IF server.gen = 0 THEN "done" ELSE "probe"
           rec  == [handler[r] EXCEPT !.kind = kind, !.pc = pc, !.read = server]
<1>1. /\ rec \in CallRecs /\ rec.pc = pc /\ rec.kind = kind /\ kind # "none"
      /\ rec.read = server /\ rec.answer = handler[r].answer
  <2>1. handler[r] \in CallRecs /\ server \in Server
    BY <1>0 DEF RegistryTypes
  <2>2. kind \in CallKinds /\ pc \in CallPcs
    BY <2>1 DEF CallRecs, CallKinds, CallPcs
  <2> QED
    BY <2>1, <2>2 DEF CallRecs
<1>2. handler' = [handler EXCEPT ![r] = rec]
  BY <1>0 DEF ReadsServer, RegistryTypes
<1>4. /\ ~ HandlerAt(r, "replace", "add") /\ ~ HandlerAt(r, "drop", "pop")
      /\ handler[r].pc \in {"get", "idle"}
  BY DEF ReadsServer, HandlerAt, RegistryInv, EndedHaveAnswers
<1> HIDE DEF rec, pc, kind
<1>5. /\ handler' \in [RegistryCalls -> CallRecs] /\ handler'[r] = rec
      /\ \A q \in RegistryCalls : q # r => handler'[q] = handler[q]
  BY <1>0, <1>1, <1>2, HandlerMoves
<1>6. EntryIsNotLost' /\ EndedHaveAnswers'
  BY <1>0, <1>1, <1>4, <1>5, EntryIsLeft, AnswersAreOfEnded
<1>7. PingOfItsOwn' /\ ProbesMeetTheirServer'
  BY <1>0, <1>1, <1>4, <1>5, ServerIsLeft
<1>8. RegistryTypes'
  BY <1>0, <1>5 DEF RegistryTypes, StoreVars, ServerVars
<1> QED
  BY <1>6, <1>7, <1>8 DEF RegistryInv, RegistryKeeps

(* The look at the start changes nothing that is kept.                     *)
LEMMA SerenaLooked ==
  ASSUME RegistryInv, NEW r \in RegistryCalls, SerenaLooks(r)
  PROVE  RegistryInv'
<1>0. RegistryTypes /\ UNCHANGED <<StoreVars, ServerVars, refusals>>
  BY DEF RegistryInv, SerenaLooks
<1> DEFINE pc   == IF server.gen = 0 THEN "post" ELSE "done"
           rec  == [handler[r] EXCEPT !.kind = "serena", !.read = server, !.pc = pc]
<1>1. /\ rec \in CallRecs /\ rec.pc = pc /\ pc # "probe" /\ rec.kind = "serena"
      /\ rec.answer = handler[r].answer
  <2>1. handler[r] \in CallRecs /\ server \in Server
    BY <1>0 DEF RegistryTypes
  <2> QED
    BY <2>1 DEF CallRecs, CallKinds, CallPcs
<1>2. handler' = [handler EXCEPT ![r] = rec]
  BY <1>0 DEF SerenaLooks, RegistryTypes
<1>4. /\ ~ HandlerAt(r, "replace", "add") /\ ~ HandlerAt(r, "drop", "pop")
      /\ handler[r].pc = "idle"
  BY DEF SerenaLooks, HandlerAt, RegistryInv, EndedHaveAnswers
<1> HIDE DEF rec, pc
<1>5. /\ handler' \in [RegistryCalls -> CallRecs] /\ handler'[r] = rec
      /\ \A q \in RegistryCalls : q # r => handler'[q] = handler[q]
  BY <1>0, <1>1, <1>2, HandlerMoves
<1>6. EntryIsNotLost' /\ EndedHaveAnswers'
  BY <1>0, <1>1, <1>4, <1>5, EntryIsLeft, AnswersAreOfEnded
<1>7. PingOfItsOwn' /\ ProbesMeetTheirServer'
  BY <1>0, <1>1, <1>4, <1>5, ServerIsLeft
<1>8. RegistryTypes'
  BY <1>0, <1>5 DEF RegistryTypes, StoreVars, ServerVars
<1> QED
  BY <1>6, <1>7, <1>8 DEF RegistryInv, RegistryKeeps

(* The registration at the start brings a server up.                       *)
LEMMA SerenaPosted ==
  ASSUME RegistryInv, NEW r \in RegistryCalls, SerenaPosts(r)
  PROVE  RegistryInv'
<1>0. /\ RegistryTypes /\ UNCHANGED <<StoreVars, pinged>> /\ handler[r].pc = "post"
      /\ ~ HandlerAt(r, "replace", "add") /\ ~ HandlerAt(r, "drop", "pop")
      /\ Ends(r, "ok") \/ Ends(r, "502")
      /\ handler[r].kind = "serena" /\ (Puts(r) \/ UNCHANGED <<server, stray>>)
  BY DEF RegistryInv, SerenaPosts, HandlerAt, CallAnswered, CallLost
<1>1. /\ handler' \in [RegistryCalls -> CallRecs] /\ handler'[r].pc = "done"
      /\ handler'[r].kind = "serena"
      /\ \A q \in RegistryCalls : q # r => handler'[q] = handler[q]
  BY <1>0, HandlerEnds DEF CallAnswers
<1>r. refusals' \in 0 .. MaxRefusals
  BY <1>0, RegistryConstants
  DEF RegistryTypes, UpstreamRefuses, SerenaPosts, CallAnswered, CallLost
<1>3. /\ PingOfItsOwn' /\ ProbesMeetTheirServer'
      /\ server' \in Server /\ stray' \subseteq Gens
  BY <1>0, <1>1, ServerIsPut
<1>4. EntryIsNotLost' /\ EndedHaveAnswers'
  BY <1>0, <1>1, EntryIsLeft, AnswersAreOfEnded
<1>5. RegistryTypes'
  BY <1>0, <1>1, <1>3, <1>r DEF RegistryTypes, StoreVars
<1> QED
  BY <1>3, <1>4, <1>5 DEF RegistryInv, RegistryKeeps

(* Every step keeps the invariant.                                         *)
LEMMA RegistryStays == RegistryInv /\ [RegistryNext]_registryVars => RegistryInv'
<1> SUFFICES ASSUME RegistryInv, [RegistryNext]_registryVars PROVE RegistryInv'
  OBVIOUS
<1>1. CASE RegistryNext
  BY <1>1, EntryActions, ServerActions, ServerIsRead, SerenaLooked, SerenaPosted
  DEF RegistryNext
<1>2. CASE UNCHANGED registryVars
  BY <1>2
  DEF registryVars, RegistryInv, RegistryTypes, RegistryKeeps, EntryIsNotLost, PingOfItsOwn,
      ProbesMeetTheirServer, EndedHaveAnswers, HandlerAt
<1> QED
  BY <1>1, <1>2

(* In every run of the registries: what is stored was written by a request *)
(* or was there before, and every status is one of three.                  *)
THEOREM RegistryTypeCorrect == RegistrySpec => []RegistryTypeOK
<1>1. RegistryInv => RegistryTypeOK
  BY DEF RegistryInv, RegistryTypes, RegistryTypeOK, Gens, Server, Pings
<1> QED
  BY <1>1, RegistryStarts, RegistryStays, PTL DEF RegistrySpec

(* However requests overlap and whichever calls or answers are lost, an    *)
(* entry nobody asked to delete is there or held by the request that       *)
(* replaces it, or a caller was told that its replacement failed; and a    *)
(* status kept is of the server that is there, or of a stray.              *)
THEOREM EntriesAndPingsAreKept == RegistrySpec => []RegistryKeeps
<1>1. RegistryInv => RegistryKeeps
  BY DEF RegistryInv
<1> QED
  BY <1>1, RegistryStarts, RegistryStays, PTL DEF RegistrySpec

(* What the BFF keeps for its handlers holds in memory and at the agent-   *)
(* server, whatever handlers overlap.                                      *)
THEOREM OverlapsLoseNothing == ThreadsSpec /\ RegistrySpec => []BffStateHolds
<1>1. ThreadsKeep /\ RegistryKeeps => BffStateHolds
  BY DEF BffStateHolds
<1> QED
  BY <1>1, PresetsAndSettingsAreKept, EntriesAndPingsAreKept, PTL

-----------------------------------------------------------------------------
(***************************************************************************)
(* RepoGraph: what is stored of a repository that nothing has disturbed    *)
(* is the index of its files, that index is right, and what is drawn of    *)
(* it is a graph.                                                          *)
(***************************************************************************)

(* Lines that are bounded have a last one, which is Max of them.           *)
LEMMA MaxOfBounded ==
  ASSUME NEW n \in Nat, NEW S \in SUBSET (0 .. n), S # {}
  PROVE  Max(S) \in S /\ \A k \in S : k <= Max(S)
<1> DEFINE D == {n - k : k \in S}
<1>0. \A k \in S : k \in 0 .. n /\ n - k \in Nat
  OBVIOUS
<1>1. D \in SUBSET Nat /\ D # {}
  BY <1>0
<1>2. PICK m \in D : \A k \in D : m <= k
  BY <1>1, LeastNatural
<1>3. PICK x \in S : m = n - x
  BY <1>2
<1>4. \A y \in S : x >= y
  <2> SUFFICES ASSUME NEW y \in S PROVE x >= y
    OBVIOUS
  <2>1. n - x <= n - y
    BY <1>2, <1>3
  <2> QED
    BY <2>1
<1>5. \E e \in S : \A y \in S : e >= y
  BY <1>4
<1> QED
  BY <1>5 DEF Max

(* The classes a node is inside of are lines before it, and the last line  *)
(* of a node is one at or after it.                                        *)
LEMMA StackIsBefore ==
  ASSUME NEW tree \in Seq(Node), NEW i \in 1 .. Len(tree), ClassStack(tree, i) # {}
  PROVE  LET j == Max(ClassStack(tree, i)) IN
           /\ j \in 1 .. (i - 1) /\ j \in Around(tree, i) /\ tree[j].kind = "class"
           /\ ClassOf(tree, i) = tree[j].name
<1>1. Len(tree) \in Nat /\ i \in Nat
  BY LenProperties
<1>2. ClassStack(tree, i) \in SUBSET (0 .. i)
  BY <1>1 DEF ClassStack, Around
<1>3. Max(ClassStack(tree, i)) \in ClassStack(tree, i)
  BY <1>1, <1>2, MaxOfBounded
<1> QED
  BY <1>3 DEF ClassStack, Around, ClassOf

(* The last line of a node is the last one up to which everything is       *)
(* inside of it.                                                           *)
LEMMA LastLineIsLast ==
  ASSUME NEW tree \in Seq(Node), NEW i \in 1 .. Len(tree)
  PROVE  /\ LastLine(tree, i) \in i .. Len(tree)
         /\ \A l \in (i + 1) .. LastLine(tree, i) : tree[l].depth > tree[i].depth
         /\ \A k \in i .. Len(tree) :
              (\A l \in (i + 1) .. k : tree[l].depth > tree[i].depth) => k <= LastLine(tree, i)
<1> DEFINE S == {k \in i .. Len(tree) : \A l \in (i + 1) .. k : tree[l].depth > tree[i].depth}
<1>1. Len(tree) \in Nat /\ i \in Nat
  BY LenProperties
<1>2. S \in SUBSET (0 .. Len(tree))
  BY <1>1
<1>3. i \in S
  BY <1>1
<1>4. Max(S) \in S /\ \A k \in S : k <= Max(S)
  BY <1>1, <1>2, <1>3, MaxOfBounded
<1>5. LastLine(tree, i) = Max(S)
  BY DEF LastLine
<1> QED
  BY <1>4, <1>5

(* What is inside of a class ends where the class does, or before.         *)
LEMMA InsideEndsFirst ==
  ASSUME NEW tree \in Seq(Node), NEW i \in 1 .. Len(tree), NEW j \in Around(tree, i)
  PROVE  j \in 1 .. Len(tree) /\ LastLine(tree, i) <= LastLine(tree, j)
<1>1. Len(tree) \in Nat /\ i \in Nat /\ j \in 1 .. (i - 1) /\ j \in 1 .. Len(tree)
  BY LenProperties DEF Around
<1>2. \A k \in 1 .. Len(tree) : tree[k].depth \in 0 .. 2
  <2>1. \A k \in 1 .. Len(tree) : tree[k] \in Node
    BY ElementOfSeq
  <2> QED
    BY <2>1 DEF Node
<1> DEFINE k == LastLine(tree, i)
<1>3. k \in i .. Len(tree) /\ \A l \in (i + 1) .. k : tree[l].depth > tree[i].depth
  BY LastLineIsLast
<1>4. \A l \in (j + 1) .. i : tree[l].depth > tree[j].depth
  BY DEF Around
<1> HIDE DEF k
<1>5. \A l \in (j + 1) .. k : tree[l].depth > tree[j].depth
  <2> SUFFICES ASSUME NEW l \in (j + 1) .. k PROVE tree[l].depth > tree[j].depth
    OBVIOUS
  <2>1. CASE l <= i
    <3>1. l \in (j + 1) .. i
      BY <1>1, <1>3, <2>1
    <3> QED
      BY <1>4, <3>1
  <2>2. CASE l > i
    <3>1. l \in (i + 1) .. k /\ i \in (j + 1) .. i /\ l \in 1 .. Len(tree)
      BY <1>1, <1>3, <2>2
    <3>2. tree[l].depth > tree[i].depth /\ tree[i].depth > tree[j].depth
      BY <1>3, <1>4, <3>1
    <3>3. tree[l].depth \in Int /\ tree[i].depth \in Int /\ tree[j].depth \in Int
      BY <1>1, <1>2, <3>1
    <3> QED
      BY <3>2, <3>3
  <2> QED
    BY <1>1, <1>3, <2>1, <2>2
<1>6. k \in j .. Len(tree)
  BY <1>1, <1>3
<1>7. k <= LastLine(tree, j)
  BY <1>1, <1>5, <1>6, LastLineIsLast
<1> QED
  BY <1>1, <1>7 DEF k

-----------------------------------------------------------------------------
\* What may be on the disk, or have been read of it: some files and their nodes.
PartContents == UNION {[D -> Seq(Node)] : D \in SUBSET Files}

(* Whatever is there, the files are some of them and hold nodes.           *)
LEMMA FilesOfATree ==
  ASSUME NEW trees \in PartContents
  PROVE  /\ DOMAIN trees \subseteq Files /\ \A f \in DOMAIN trees : trees[f] \in Seq(Node)
         /\ trees = [f \in DOMAIN trees |-> trees[f]]
BY DEF PartContents

(* A symbol is the tag of a node that is no call, and what its fields say  *)
(* is what the parser made of the node.                                    *)
LEMMA SymbolsAreTags ==
  ASSUME NEW trees \in PartContents, NEW s
  PROVE  s \in SymbolsOf(trees) <=>
           \E f \in DOMAIN trees : \E i \in 1 .. Len(trees[f]) :
             trees[f][i].kind # "call" /\ s = Tag(f, trees[f], i)
<1>1. \A f \in DOMAIN trees : DOMAIN trees[f] = 1 .. Len(trees[f])
  BY LenProperties, FilesOfATree
<1> QED
  BY <1>1 DEF SymbolsOf

(* The node of a symbol is the one at its line in its file.                *)
LEMMA SymbolOfNode ==
  ASSUME NEW trees \in PartContents, NEW s \in SymbolsOf(trees)
  PROVE  /\ s.file \in DOMAIN trees /\ s.file \in Files /\ s.line \in 1 .. Len(trees[s.file])
         /\ s = Tag(s.file, trees[s.file], s.line)
         /\ s.name = trees[s.file][s.line].name
         /\ s.category = Category(s.file, trees[s.file], s.line)
         /\ s.parent = Parent(s.file, trees[s.file], s.line)
         /\ s.last = LastLine(trees[s.file], s.line)
<1>1. PICK f, i : /\ f \in DOMAIN trees /\ f \in Files /\ i \in 1 .. Len(trees[f])
                  /\ trees[f][i].kind # "call" /\ s = Tag(f, trees[f], i)
  BY SymbolsAreTags, FilesOfATree
<1>2. /\ s.file = f /\ s.line = i /\ s.name = trees[f][i].name
      /\ s.category = Category(f, trees[f], i) /\ s.parent = Parent(f, trees[f], i)
      /\ s.last = LastLine(trees[f], i)
  BY <1>1 DEF Tag
<1> QED
  BY <1>1, <1>2

(* A key names one symbol.                                                 *)
LEMMA KeysAreUnique ==
  ASSUME NEW trees \in PartContents, NEW s \in SymbolsOf(trees), NEW t \in SymbolsOf(trees),
         Key(s) = Key(t)
  PROVE  s = t
<1>1. s.file = t.file /\ s.line = t.line
  BY DEF Key
<1> QED
  BY <1>1, SymbolOfNode

(* The symbols of one file are finitely many: one for a node at most.      *)
LEMMA FileHasFinitelyMany ==
  ASSUME NEW trees \in PartContents, NEW f \in DOMAIN trees,
         NEW S, S \subseteq {s \in SymbolsOf(trees) : s.file = f}
  PROVE  IsFiniteSet(S)
<1> DEFINE L == {s.line : s \in S}
           tag == [i \in L |-> Tag(f, trees[f], i)]
<1>1. Len(trees[f]) \in Nat /\ L \subseteq 1 .. Len(trees[f])
  BY LenProperties, SymbolOfNode, FilesOfATree
<1>2. IsFiniteSet(L)
  <2>1. IsFiniteSet(1 .. Len(trees[f]))
    BY <1>1, FS_Interval
  <2> HIDE DEF L
  <2> QED
    BY <1>1, <2>1, FS_Subset
<1>3. \A s \in S : s.line \in L /\ tag[s.line] = s
  BY SymbolOfNode
<1>4. \A i \in L : tag[i] \in S
  BY <1>3
<1>5. tag \in Surjection(L, S)
  BY <1>3, <1>4 DEF Surjection
<1> HIDE DEF L, tag
<1> QED
  BY <1>2, <1>5, FS_Surjection

(* A method that has a parent is inside of a class of that name, in its    *)
(* file, which begins before it and ends with it or after.                 *)
LEMMA MethodHasItsClass ==
  ASSUME NEW trees \in PartContents, NEW s \in SymbolsOf(trees), s.parent # NoName
  PROVE  \E c \in SymbolsOf(trees) :
           /\ c.file = s.file /\ c.name = s.parent /\ c.category = "class"
           /\ c.line < s.line /\ s.last <= c.last
<1> DEFINE f == s.file  tree == trees[f]  i == s.line  j == Max(ClassStack(tree, i))
<1>1. /\ f \in DOMAIN trees /\ i \in 1 .. Len(tree) /\ tree \in Seq(Node) /\ Len(tree) \in Nat
      /\ s.parent = Parent(f, tree, i) /\ s.last = LastLine(tree, i)
  BY SymbolOfNode, LenProperties, FilesOfATree
<1>2. ClassOf(tree, i) = s.parent /\ ClassStack(tree, i) # {}
  <2>1. ClassOf(tree, i) = s.parent
    BY <1>1 DEF Parent
  <2> QED
    BY <2>1 DEF ClassOf
<1> HIDE DEF f, tree, i
<1>3. /\ j \in 1 .. (i - 1) /\ j \in Around(tree, i) /\ tree[j].kind = "class"
      /\ ClassOf(tree, i) = tree[j].name
  BY <1>1, <1>2, StackIsBefore
<1> HIDE DEF j
<1>4. j \in 1 .. Len(tree) /\ LastLine(tree, i) <= LastLine(tree, j) /\ j < i
  BY <1>1, <1>3, InsideEndsFirst
<1> DEFINE c == Tag(f, tree, j)
<1>5. c \in SymbolsOf(trees)
  <2>1. tree[j].kind # "call" /\ tree = trees[f]
    BY <1>3 DEF tree
  <2> QED
    BY <1>1, <1>4, <2>1, SymbolsAreTags
<1>6. /\ c.file = f /\ c.name = tree[j].name /\ c.line = j /\ c.last = LastLine(tree, j)
      /\ c.category = Category(f, tree, j)
  BY DEF Tag
<1>7. c.category = "class"
  BY <1>3, <1>6 DEF Category
<1> HIDE DEF c
<1>8. c.file = s.file /\ c.name = s.parent /\ c.line < s.line /\ s.last <= c.last
  BY <1>1, <1>2, <1>3, <1>4, <1>6 DEF f, i
<1> QED
  BY <1>5, <1>7, <1>8

\* The classes of a method's file that have its parent's name.
ClassesFor(symbols, m) ==
  {c \in symbols : c.file = m.file /\ c.name = m.parent /\ c.category = "class"}

(* The edge of a method leads to the first of them.                        *)
LEMMA EdgeLeadsToACandidate ==
  ASSUME NEW trees \in PartContents, NEW e \in MethodEdges(SymbolsOf(trees))
  PROVE  \E m \in SymbolsOf(trees) : \E c \in ClassesFor(SymbolsOf(trees), m) :
           m.parent # NoName /\ e = <<Key(m), Key(c)>>
<1> DEFINE symbols == SymbolsOf(trees)
<1>1. PICK m \in symbols :
        /\ m.parent # NoName /\ ClassesFor(symbols, m) # {}
        /\ e = <<Key(m), Key(CHOOSE c \in ClassesFor(symbols, m) :
                                \A o \in ClassesFor(symbols, m) : c.line <= o.line)>>
  BY DEF MethodEdges, ClassesFor
<1> DEFINE C == ClassesFor(symbols, m)
           D == {c.line : c \in C}
<1>2. \A c \in C : c.line \in Nat
  BY SymbolOfNode, LenProperties, FilesOfATree DEF ClassesFor
<1>3. D \in SUBSET Nat /\ D # {}
  BY <1>1, <1>2
<1>4. PICK d \in D : \A k \in D : d <= k
  BY <1>3, LeastNatural
<1>5. \E c \in C : \A o \in C : c.line <= o.line
  BY <1>4
<1> DEFINE c == CHOOSE c \in C : \A o \in C : c.line <= o.line
<1>6. c \in C
  BY <1>5
<1> HIDE DEF C
<1> QED
  BY <1>1, <1>6 DEF C

(* What an index of whole files says of methods, calls and names that were *)
(* not resolved.                                                           *)
IndexIsRight(g) ==
  /\ \A m \in g.methods :
       LET Sym(k) == CHOOSE s \in g.symbols : Key(s) = k
           Same   == {s \in g.symbols : /\ s.file = m[2][1] /\ s.name = m[2][2]
                                        /\ s.category = "class"}
       IN Cardinality(Same) = 1
            => Sym(m[2]).line < Sym(m[1]).line /\ Sym(m[1]).last <= Sym(m[2]).last
  /\ \A c \in g.calls : c.dst[1] # c.src
       => \A s \in g.symbols : ~(s.file = c.src /\ s.name = c.dst[2])
  /\ \A u \in g.unresolved : \A c \in g.calls : c.src # u.file \/ c.line # u.line

(* An index is right whatever the files hold: a method's edge leads to     *)
(* the class around it if the name is the file's only one, a call stays    *)
(* in its file when the name is there, and nothing is both resolved and    *)
(* not.                                                                    *)
LEMMA EdgesOfAnIndex ==
  ASSUME NEW trees \in PartContents
  PROVE  IndexIsRight(BuildIndex(trees))
<1> DEFINE g == BuildIndex(trees)  symbols == SymbolsOf(trees)  refs == RefsOf(trees)
<1>0. /\ g.symbols = symbols /\ g.methods = MethodEdges(symbols)
      /\ g.calls = UNION {{[src |-> r.file, line |-> r.line, dst |-> Key(s)] :
                             s \in Callees(symbols, r)} : r \in refs}
      /\ g.unresolved = {r \in refs : Callees(symbols, r) = {}}
  BY DEF BuildIndex
<1>1. ASSUME NEW m \in MethodEdges(symbols),
             Cardinality({s \in symbols : /\ s.file = m[2][1] /\ s.name = m[2][2]
                                          /\ s.category = "class"}) = 1
      PROVE  LET Sym(k) == CHOOSE s \in symbols : Key(s) = k
             IN Sym(m[2]).line < Sym(m[1]).line /\ Sym(m[1]).last <= Sym(m[2]).last
  <2>1. PICK s, c : /\ s \in symbols /\ c \in ClassesFor(symbols, s)
                    /\ s.parent # NoName /\ m = <<Key(s), Key(c)>>
    BY EdgeLeadsToACandidate
  <2>2. c \in symbols /\ c.file = s.file /\ c.name = s.parent /\ c.category = "class"
    BY <2>1 DEF ClassesFor
  <2>3. m[1] = Key(s) /\ m[2] = Key(c) /\ m[2][1] = s.file /\ m[2][2] = s.parent
    BY <2>1, <2>2 DEF Key
  <2>4. (CHOOSE x \in symbols : Key(x) = m[1]) = s
    <3>1. \A x \in symbols : Key(x) = m[1] <=> x = s
      BY <2>1, <2>3, KeysAreUnique
    <3> QED
      BY <2>1, <3>1
  <2>5. (CHOOSE x \in symbols : Key(x) = m[2]) = c
    <3>1. \A x \in symbols : Key(x) = m[2] <=> x = c
      BY <2>2, <2>3, KeysAreUnique
    <3> QED
      BY <2>2, <3>1
  <2> DEFINE Same == {x \in symbols : /\ x.file = m[2][1] /\ x.name = m[2][2]
                                      /\ x.category = "class"}
  <2>6. IsFiniteSet(Same)
    <3>1. Same \subseteq {x \in symbols : x.file = s.file} /\ s.file \in DOMAIN trees
      BY <2>1, <2>3, SymbolOfNode
    <3> HIDE DEF Same
    <3> QED
      BY <3>1, FileHasFinitelyMany
  <2>7. Cardinality(Same) = 1
    BY <1>1
  <2>8. PICK d : d \in symbols /\ d.file = s.file /\ d.name = s.parent /\ d.category = "class"
                 /\ d.line < s.line /\ s.last <= d.last
    BY <2>1, MethodHasItsClass
  <2>9. c \in Same /\ d \in Same
    BY <2>2, <2>3, <2>8
  <2> HIDE DEF Same, symbols
  <2>10. PICK x : Same = {x}
    BY <2>6, <2>7, FS_Singleton
  <2>11. c = d
    BY <2>9, <2>10
  <2> QED
    BY <2>4, <2>5, <2>8, <2>11
<1>2. ASSUME NEW c \in g.calls
      PROVE  \E r \in refs : \E s \in Callees(symbols, r) :
               c.src = r.file /\ c.line = r.line /\ c.dst = Key(s)
  BY <1>0
<1>3. ASSUME NEW c \in g.calls, c.dst[1] # c.src, NEW s \in symbols, s.file = c.src
      PROVE  s.name # c.dst[2]
  <2>1. PICK r, t : /\ r \in refs /\ t \in Callees(symbols, r)
                    /\ c.src = r.file /\ c.line = r.line /\ c.dst = Key(t)
    BY <1>2
  <2>2. c.dst[1] = t.file /\ c.dst[2] = t.name
    BY <2>1 DEF Key
  <2>3. t.name = r.name /\ t.file # r.file
    BY <1>3, <2>1, <2>2 DEF Callees
  <2>4. {x \in {y \in symbols : y.name = r.name} : x.file = r.file} = {}
    BY <2>1, <2>3 DEF Callees
  <2> QED
    BY <1>3, <2>1, <2>2, <2>3, <2>4
<1>4. ASSUME NEW u \in g.unresolved, NEW c \in g.calls, c.src = u.file, c.line = u.line
      PROVE  FALSE
  <2>1. PICK r, t : /\ r \in refs /\ t \in Callees(symbols, r)
                    /\ c.src = r.file /\ c.line = r.line /\ c.dst = Key(t)
    BY <1>2
  <2>2. u \in refs /\ Callees(symbols, u) = {}
    BY <1>0
  <2>3. \A q \in refs : q = [file |-> q.file, name |-> trees[q.file][q.line].name,
                             line |-> q.line]
    BY DEF RefsOf
  <2>4. u = r
    BY <1>4, <2>1, <2>2, <2>3
  <2> QED
    BY <2>1, <2>2, <2>4
<1> HIDE DEF g, symbols, refs
<1>5. IndexIsRight(g)
  BY <1>0, <1>1, <1>3, <1>4 DEF IndexIsRight
<1> QED
  BY <1>5 DEF g

-----------------------------------------------------------------------------
Keys       == Files \X Names \X Nat
Symbols    == [file : Files, name : Names, line : Nat, category : NodeKinds, last : Nat,
               parent : Names \cup {NoName}]
Calls      == [src : Files, line : Nat, dst : Keys]
Refs       == [file : Files, name : Names, line : Nat]
Graph      == [files : SUBSET Files, symbols : SUBSET Symbols, methods : SUBSET (Keys \X Keys),
               calls : SUBSET Calls, unresolved : SUBSET Refs]
GraphParts == {"files", "symbols", "methods", "calls", "unresolved"}

(* The nodes of a file have the fields of nodes.                           *)
LEMMA NodeFields ==
  ASSUME NEW trees \in PartContents, NEW f \in DOMAIN trees, NEW i \in DOMAIN trees[f]
  PROVE  /\ i \in 1 .. Len(trees[f]) /\ i \in Nat
         /\ trees[f][i].name \in Names /\ trees[f][i].kind \in NodeKinds
<1>1. trees[f] \in Seq(Node) /\ i \in 1 .. Len(trees[f]) /\ Len(trees[f]) \in Nat
  BY LenProperties, FilesOfATree
<1>2. trees[f][i] \in Node
  BY <1>1, ElementOfSeq
<1> QED
  BY <1>1, <1>2 DEF Node

(* A symbol has a name, a line and a kind, and a class or none as its      *)
(* parent.                                                                 *)
LEMMA SymbolsHaveTheirType ==
  ASSUME NEW trees \in PartContents, NEW s \in SymbolsOf(trees)
  PROVE  s \in Symbols /\ Key(s) \in Keys
<1> DEFINE f == s.file  tree == trees[f]  i == s.line
<1>1. /\ f \in Files /\ f \in DOMAIN trees
      /\ i \in 1 .. Len(tree) /\ tree \in Seq(Node) /\ Len(tree) \in Nat
      /\ DOMAIN tree = 1 .. Len(tree) /\ s = Tag(f, tree, i)
  BY SymbolOfNode, LenProperties, FilesOfATree
<1>2. \A k \in 1 .. Len(tree) : tree[k].name \in Names /\ tree[k].kind \in NodeKinds
  BY <1>1, NodeFields
<1> HIDE DEF f, tree, i
<1>3. LastLine(tree, i) \in Nat
  BY <1>1, LastLineIsLast
<1>4. ClassOf(tree, i) \in Names \cup {NoName}
  <2>1. CASE ClassStack(tree, i) = {}
    BY <2>1 DEF ClassOf
  <2>2. CASE ClassStack(tree, i) # {}
    <3> DEFINE j == Max(ClassStack(tree, i))
    <3>1. j \in 1 .. (i - 1) /\ ClassOf(tree, i) = tree[j].name
      BY <1>1, <2>2, StackIsBefore
    <3> HIDE DEF j
    <3>2. j \in 1 .. Len(tree)
      BY <1>1, <3>1
    <3> QED
      BY <1>2, <3>1, <3>2
  <2> QED
    BY <2>1, <2>2
<1>5. Parent(f, tree, i) \in Names \cup {NoName} /\ Category(f, tree, i) \in NodeKinds
  BY <1>1, <1>2, <1>4 DEF Parent, Category, NodeKinds
<1>6. s \in Symbols
  BY <1>1, <1>2, <1>3, <1>5 DEF Tag, Symbols
<1> QED
  BY <1>6 DEF Symbols, Key, Keys

(* An index is a graph.                                                    *)
LEMMA IndexIsAGraph ==
  ASSUME NEW trees \in PartContents
  PROVE  BuildIndex(trees) \in Graph /\ BuildIndex(trees).files = DOMAIN trees
<1> DEFINE g == BuildIndex(trees)  symbols == SymbolsOf(trees)  refs == RefsOf(trees)
<1>0. /\ g.files = DOMAIN trees /\ g.symbols = symbols /\ g.methods = MethodEdges(symbols)
      /\ g.calls = UNION {{[src |-> r.file, line |-> r.line, dst |-> Key(s)] :
                             s \in Callees(symbols, r)} : r \in refs}
      /\ g.unresolved = {r \in refs : Callees(symbols, r) = {}}
      /\ g = [files |-> g.files, symbols |-> g.symbols, methods |-> g.methods,
              calls |-> g.calls, unresolved |-> g.unresolved]
  BY DEF BuildIndex
<1>1. DOMAIN trees \subseteq Files
  BY FilesOfATree
<1>2. symbols \in SUBSET Symbols /\ \A s \in symbols : Key(s) \in Keys
  BY SymbolsHaveTheirType
<1>3. refs \in SUBSET Refs
  <2> SUFFICES ASSUME NEW q \in refs PROVE q \in Refs
    OBVIOUS
  <2>1. PICK f \in DOMAIN trees : \E i \in DOMAIN trees[f] :
          q = [file |-> f, name |-> trees[f][i].name, line |-> i]
    BY DEF RefsOf
  <2> QED
    BY <1>1, <2>1, NodeFields DEF Refs
<1>4. MethodEdges(symbols) \in SUBSET (Keys \X Keys)
  <2> SUFFICES ASSUME NEW e \in MethodEdges(symbols) PROVE e \in Keys \X Keys
    OBVIOUS
  <2>1. PICK m, c : m \in symbols /\ c \in symbols /\ e = <<Key(m), Key(c)>>
    BY EdgeLeadsToACandidate DEF ClassesFor
  <2> QED
    BY <1>2, <2>1
<1> HIDE DEF symbols, refs
<1>5. \A r \in refs : \A s \in Callees(symbols, r) :
        [src |-> r.file, line |-> r.line, dst |-> Key(s)] \in Calls
  BY <1>2, <1>3 DEF Callees, Calls, Refs
<1>6. g.calls \in SUBSET Calls
  BY <1>0, <1>5
<1> HIDE DEF g
<1>7. g \in Graph
  BY <1>0, <1>1, <1>2, <1>3, <1>4, <1>6 DEF Graph
<1> QED
  BY <1>0, <1>1, <1>7 DEF g

(* Two graphs with the same parts are the same.                            *)
LEMMA SameParts ==
  ASSUME NEW g \in Graph, NEW h \in Graph, g.files = h.files, g.symbols = h.symbols,
         g.methods = h.methods, g.calls = h.calls, g.unresolved = h.unresolved
  PROVE  g = h
BY DEF Graph

(* What a replacement stores: a graph with the new files, and the new one  *)
(* itself when all that is there was found and deleted.                    *)
LEMMA Replaced ==
  ASSUME NEW g \in Graph, NEW gone \in Graph, NEW new \in Graph
  PROVE  LET h == ReplaceRepo(g, gone, new) IN
           h \in Graph /\ new.files \subseteq h.files /\ (gone = g => h = new)
<1> DEFINE w == Without(g, gone)  h == MergedIn(w, new)
<1>1. DOMAIN g = GraphParts
  BY DEF Graph, GraphParts
<1>2. w = [part \in GraphParts |-> g[part] \ gone[part]] /\ DOMAIN w = GraphParts
  BY <1>1 DEF Without
<1>3. /\ w.files = g.files \ gone.files /\ w.symbols = g.symbols \ gone.symbols
      /\ w.methods = g.methods \ gone.methods /\ w.calls = g.calls \ gone.calls
      /\ w.unresolved = g.unresolved \ gone.unresolved
  BY <1>2 DEF GraphParts
<1> HIDE DEF w
<1>4. h = [part \in GraphParts |->
             IF part = "symbols"
             THEN {s \in w.symbols : \A n \in new.symbols : Key(n) # Key(s)} \cup new.symbols
             ELSE w[part] \cup new[part]]
  BY <1>2 DEF MergedIn
<1>5. /\ h.files = w.files \cup new.files
      /\ h.symbols = {s \in w.symbols : \A n \in new.symbols : Key(n) # Key(s)}
                        \cup new.symbols
      /\ h.methods = w.methods \cup new.methods /\ h.calls = w.calls \cup new.calls
      /\ h.unresolved = w.unresolved \cup new.unresolved
  BY <1>4 DEF GraphParts
<1>6. DOMAIN h = GraphParts /\ h = [part \in GraphParts |-> h[part]]
  BY <1>4
<1> HIDE DEF h
<1>7. h \in Graph
  <2>1. /\ h.files \in SUBSET Files /\ h.methods \in SUBSET (Keys \X Keys)
        /\ h.calls \in SUBSET Calls /\ h.unresolved \in SUBSET Refs
        /\ h.symbols \in SUBSET Symbols
    BY <1>3, <1>5 DEF Graph
  <2> QED
    BY <1>6, <2>1 DEF Graph, GraphParts
<1>8. ASSUME gone = g PROVE h = new
  <2>1. /\ w.files = {} /\ w.symbols = {} /\ w.methods = {} /\ w.calls = {}
        /\ w.unresolved = {}
    BY <1>3, <1>8
  <2>2. /\ h.files = new.files /\ h.symbols = new.symbols /\ h.methods = new.methods
        /\ h.calls = new.calls /\ h.unresolved = new.unresolved
    BY <1>5, <2>1
  <2> QED
    BY <1>7, <2>2, SameParts
<1>9. new.files \subseteq h.files
  BY <1>5
<1>10. ReplaceRepo(g, gone, new) = h
  BY DEF ReplaceRepo, h, w
<1> QED
  BY <1>7, <1>8, <1>9, <1>10

-----------------------------------------------------------------------------
IndexStages       == {"idle", "reads", "built", "deleted", "stored"}
IndexerRecs  == [stage : IndexStages, repo : Repos \cup {NoName}, listed : SUBSET Files,
                 trees : PartContents, blank : SUBSET Files, gone : Graph, clean : BOOLEAN]
CommitRecs      == [stored : BOOLEAN, files : SUBSET Files, blank : SUBSET Files]

GraphTypes ==
  /\ checkout \in [Repos -> PartContents] /\ neo \in [Repos -> Graph]
  /\ lastCommit \in [Repos -> CommitRecs]
  /\ registry \subseteq Repos /\ settled \subseteq Repos
  /\ indexer \in [Callers -> IndexerRecs]
  /\ edits \in 0 .. MaxEdits /\ indexes \in 0 .. MaxIndexes
  /\ graphFaults \in 0 .. MaxGraphFaults

\* Who has come to the end of its reading has read every file that was listed.
ReadIsWhole(x) == x.stage \in {"built", "deleted"} => DOMAIN x.trees = x.listed

\* The index of a request that nothing has disturbed: what it has listed is there, what it has
\* read is as it was read, save what it could not, and what it has deleted is all that is stored.
UpToDate(x) ==
  /\ x.stage # "idle" /\ x.listed = DOMAIN checkout[x.repo]
  /\ x.blank \subseteq DOMAIN x.trees
  /\ \A f \in DOMAIN x.trees :
       x.trees[f] = IF f \in x.blank THEN <<>> ELSE checkout[x.repo][f]
  /\ x.stage = "deleted" => x.gone = neo[x.repo]

IndexersAreRight ==
  \A c \in Callers :
    /\ indexer[c].stage # "idle" => indexer[c].repo \in Repos
    /\ ReadIsWhole(indexer[c])
    /\ indexer[c].stage = "stored" => lastCommit[indexer[c].repo].stored

\* The files of the last commit are in the graph, whatever came between.
LastIsStored == \A r \in Repos : lastCommit[r].files \subseteq neo[r].files

CleanIsAlone ==
  \A c \in Callers : indexer[c].clean =>
    UpToDate(indexer[c]) /\ \A o \in Callers \ {c} : indexer[o].repo # indexer[c].repo

GraphInv ==
  GraphTypes /\ IndexersAreRight /\ CleanIsAlone /\ LastIsStored /\ GraphIsCurrent
  /\ RegisteredIsStored

(* A thread that serves no request has read nothing and holds nothing.     *)
LEMMA IdleIsIdle ==
  /\ Idle \in IndexerRecs /\ Idle.stage = "idle" /\ Idle.clean = FALSE /\ Idle.repo = NoName
  /\ Idle.trees = <<>> /\ DOMAIN Idle.trees = {} /\ Idle.blank = {}
<1>1. <<>> \in [{} -> Seq(Node)]
  OBVIOUS
<1>2. <<>> \in PartContents /\ NoGraph \in Graph
  BY <1>1 DEF PartContents, NoGraph, Graph
<1> QED
  BY <1>2 DEF Idle, IndexerRecs, IndexStages

(* What holds at the start, whatever the files hold.                       *)
LEMMA GraphStarts == GraphInit => GraphInv
<1> SUFFICES ASSUME GraphInit PROVE GraphInv
  OBVIOUS
<1>1. checkout \in [Repos -> PartContents]
  <2>1. \A f \in Files : Trees[f] \subseteq Seq(Node)
    BY RepoGraphAssumption
  <2>2. \A d \in Checkouts(Trees) : d \in PartContents
    <3> TAKE d \in Checkouts(Trees)
    <3>1. PICK D \in SUBSET Files : /\ d \in [D -> UNION {Trees[f] : f \in Files}]
                                   /\ \A f \in D : d[f] \in Trees[f]
      BY DEF Checkouts
    <3>2. d \in [D -> Seq(Node)]
      BY <2>1, <3>1
    <3> QED
      BY <3>2 DEF PartContents
  <2> QED
    BY <2>2 DEF GraphInit
<1>2. NoGraph \in Graph /\ NotStored \in CommitRecs /\ NotStored.files = {}
  BY DEF NoGraph, Graph, NotStored, CommitRecs
<1>3. GraphTypes
  BY <1>1, <1>2, IdleIsIdle, RepoGraphAssumption DEF GraphInit, GraphTypes
<1>4. \A c \in Callers : indexer[c] = Idle
  BY DEF GraphInit
<1>5. IndexersAreRight /\ CleanIsAlone
  BY <1>4, IdleIsIdle DEF IndexersAreRight, CleanIsAlone, ReadIsWhole
<1>6. GraphIsCurrent /\ RegisteredIsStored /\ LastIsStored
  BY <1>2 DEF GraphInit, GraphIsCurrent, RegisteredIsStored, LastIsStored
<1> QED
  BY <1>3, <1>5, <1>6 DEF GraphInv

(* What another request or an edit makes of the requests for a repository. *)
LEMMA Disturbing ==
  ASSUME GraphInv, NEW r \in Repos
  PROVE  /\ Disturbed(r) \in [Callers -> IndexerRecs]
         /\ \A c \in Callers : LET d == Disturbed(r)[c]  x == indexer[c] IN
              /\ d.stage = x.stage /\ d.repo = x.repo /\ d.trees = x.trees /\ d.gone = x.gone
              /\ d.listed = x.listed /\ d.blank = x.blank
              /\ d.clean => x.clean /\ x.repo # r
<1> SUFFICES ASSUME NEW c \in Callers
             PROVE  LET d == Disturbed(r)[c]  x == indexer[c] IN
              /\ d \in IndexerRecs
              /\ d.stage = x.stage /\ d.repo = x.repo /\ d.trees = x.trees /\ d.gone = x.gone
              /\ d.listed = x.listed /\ d.blank = x.blank
              /\ d.clean => x.clean /\ x.repo # r
  BY DEF Disturbed
<1> DEFINE x == indexer[c]  y == [x EXCEPT !.clean = FALSE]
<1>1. x \in IndexerRecs
  BY DEF GraphInv, GraphTypes
<1>2. Disturbed(r)[c] = IF x.repo = r THEN y ELSE x
  BY DEF Disturbed
<1> HIDE DEF x
<1>3. /\ y \in IndexerRecs /\ y.stage = x.stage /\ y.repo = x.repo /\ y.trees = x.trees
      /\ y.gone = x.gone /\ y.clean = FALSE /\ y.listed = x.listed /\ y.blank = x.blank
  BY <1>1 DEF IndexerRecs
<1> HIDE DEF y
<1>4. CASE x.repo = r
  BY <1>2, <1>3, <1>4 DEF x
<1>5. CASE x.repo # r
  BY <1>1, <1>2, <1>5 DEF x
<1> QED
  BY <1>4, <1>5

(* A file more, or another content of one, is contents still.              *)
LEMMA WithAFile ==
  ASSUME NEW trees \in PartContents, NEW f \in Files, NEW tree \in Seq(Node)
  PROVE  LET w == With(trees, f, tree) IN
           /\ w \in PartContents /\ DOMAIN w = DOMAIN trees \cup {f}
           /\ \A g \in DOMAIN w : w[g] = IF g = f THEN tree ELSE trees[g]
<1>1. PICK D \in SUBSET Files : trees \in [D -> Seq(Node)]
  BY DEF PartContents
<1>2. With(trees, f, tree) \in [D \cup {f} -> Seq(Node)]
  BY <1>1 DEF With
<1>3. D \cup {f} \in SUBSET Files
  OBVIOUS
<1>4. With(trees, f, tree) \in PartContents
  BY <1>2, <1>3 DEF PartContents
<1> QED
  BY <1>4 DEF With

(* An edit takes a repository off the settled ones and disturbs what       *)
(* reads it.                                                               *)
LEMMA EditKeeps ==
  ASSUME GraphInv, NEW r \in Repos, NEW f \in Files, Edited(r, f)
  PROVE  GraphInv'
<1> USE DEF GraphInv
<1>2. /\ checkout' \in [Repos -> PartContents]
      /\ \A q \in Repos : q # r => checkout'[q] = checkout[q]
  <2>1. checkout[r] \in PartContents
    BY DEF GraphTypes
  <2>2. \A tree \in Drafts[f] : With(checkout[r], f, tree) \in PartContents
    <3>1. \A tree \in Drafts[f] : tree \in Seq(Node)
      BY RepoGraphAssumption
    <3> QED
      BY <2>1, <3>1, WithAFile
  <2>3. [g \in DOMAIN checkout[r] \ {f} |-> checkout[r][g]] \in PartContents
    <3> DEFINE D == DOMAIN checkout[r] \ {f}
    <3>1. D \in SUBSET Files /\ [g \in D |-> checkout[r][g]] \in [D -> Seq(Node)]
      BY <2>1, FilesOfATree
    <3> QED
      BY <3>1 DEF PartContents
  <2>4. PICK d \in PartContents : checkout' = [checkout EXCEPT ![r] = d]
    BY <2>2, <2>3 DEF Edited
  <2> QED
    BY <2>4 DEF GraphTypes
<1>3. /\ indexer' \in [Callers -> IndexerRecs]
      /\ \A c \in Callers :
           /\ indexer'[c].stage = indexer[c].stage /\ indexer'[c].repo = indexer[c].repo
           /\ indexer'[c].trees = indexer[c].trees /\ indexer'[c].gone = indexer[c].gone
           /\ indexer'[c].listed = indexer[c].listed /\ indexer'[c].blank = indexer[c].blank
           /\ indexer'[c].clean => indexer[c].clean /\ indexer[c].repo # r
  BY Disturbing DEF Edited
<1>4. UNCHANGED <<neo, registry, lastCommit, indexes, graphFaults>> /\ settled' = settled \ {r}
  BY DEF Edited
<1>5. edits' \in 0 .. MaxEdits
  BY RepoGraphAssumption DEF Edited, GraphTypes
<1>6. GraphTypes'
  BY <1>2, <1>3, <1>4, <1>5 DEF GraphTypes
<1>7. IndexersAreRight'
  BY <1>3, <1>4 DEF IndexersAreRight, ReadIsWhole
<1>8. CleanIsAlone'
  <2> SUFFICES ASSUME NEW c \in Callers, indexer'[c].clean
               PROVE  UpToDate(indexer[c])' /\
                      \A o \in Callers \ {c} : indexer'[o].repo # indexer'[c].repo
    BY DEF CleanIsAlone
  <2>1. indexer[c].clean /\ indexer[c].repo # r
    BY <1>3
  <2>2. /\ UpToDate(indexer[c])
        /\ \A o \in Callers \ {c} : indexer[o].repo # indexer[c].repo
    BY <2>1 DEF CleanIsAlone
  <2>3. indexer[c].repo \in Repos
    BY <2>2 DEF UpToDate, IndexersAreRight
  <2>4. checkout'[indexer[c].repo] = checkout[indexer[c].repo]
    BY <1>2, <2>1, <2>3
  <2> QED
    BY <1>3, <1>4, <2>2, <2>4 DEF UpToDate
<1>9. GraphIsCurrent' /\ RegisteredIsStored' /\ LastIsStored'
  BY <1>2, <1>4 DEF GraphIsCurrent, RegisteredIsStored, LastIsStored, GraphTypes
<1> QED
  BY <1>6, <1>7, <1>8, <1>9

(* A new request disturbs the others for its repository, and is itself     *)
(* undisturbed only if there are none.                                     *)
LEMMA AskKeeps ==
  ASSUME GraphInv, NEW c \in Callers, NEW r \in Repos, IndexAsked(c, r)
  PROVE  GraphInv'
<1> USE DEF GraphInv
<1> DEFINE alone == \A o \in Callers : indexer[o].repo # r
           stage == IF DOMAIN checkout[r] = {} THEN "built" ELSE "reads"
           rec == [Idle EXCEPT !.stage = stage, !.repo = r, !.listed = DOMAIN checkout[r],
                               !.clean = alone]
<1>1. /\ rec \in IndexerRecs /\ rec.repo = r /\ rec.clean = alone
      /\ rec.stage \in {"built", "reads"} /\ rec.listed = DOMAIN checkout[r]
      /\ DOMAIN rec.trees = {} /\ rec.blank = {}
      /\ rec.stage = "built" => DOMAIN rec.trees = rec.listed
  <2>1. /\ alone \in BOOLEAN /\ stage \in {"built", "reads"}
        /\ stage = "built" => DOMAIN checkout[r] = {}
    OBVIOUS
  <2>0. checkout[r] \in PartContents
    BY DEF GraphTypes
  <2>2. PICK there \in SUBSET Files : there = DOMAIN checkout[r]
    BY <2>0, FilesOfATree
  <2> HIDE DEF alone, stage
  <2>3. PICK idle \in IndexerRecs : /\ idle = Idle /\ DOMAIN idle.trees = {}
                                  /\ idle.blank = {}
    BY IdleIsIdle, Zenon
  <2>4. rec = [idle EXCEPT !.stage = stage, !.repo = r, !.listed = there, !.clean = alone]
    BY <2>2, <2>3
  <2> HIDE DEF rec
  <2>5. rec \in IndexerRecs /\ rec.stage = stage /\ rec.repo = r /\ rec.clean = alone
        /\ rec.trees = idle.trees /\ rec.listed = there /\ rec.blank = idle.blank
    BY <2>1, <2>2, <2>4 DEF IndexerRecs, IndexStages
  <2> QED
    BY <2>1, <2>2, <2>3, <2>5
<1>2. indexer' = [Disturbed(r) EXCEPT ![c] = rec]
  BY DEF IndexAsked
<1> HIDE DEF rec, alone, stage
<1>3. /\ indexer' \in [Callers -> IndexerRecs] /\ indexer'[c] = rec
      /\ \A o \in Callers : o # c =>
           /\ indexer'[o].stage = indexer[o].stage /\ indexer'[o].repo = indexer[o].repo
           /\ indexer'[o].trees = indexer[o].trees /\ indexer'[o].gone = indexer[o].gone
           /\ indexer'[o].listed = indexer[o].listed /\ indexer'[o].blank = indexer[o].blank
           /\ indexer'[o].clean => indexer[o].clean /\ indexer[o].repo # r
  <2>1. /\ indexer' \in [Callers -> IndexerRecs] /\ indexer'[c] = rec
        /\ \A o \in Callers : o # c => indexer'[o] = Disturbed(r)[o]
    BY <1>1, <1>2, Disturbing
  <2> QED
    BY <2>1, Disturbing
<1>4. UNCHANGED <<checkout, neo, registry, settled, lastCommit, edits, graphFaults>>
  BY DEF IndexAsked
<1>5. indexes' \in 0 .. MaxIndexes
  BY RepoGraphAssumption DEF IndexAsked, GraphTypes
<1>6. GraphTypes'
  BY <1>3, <1>4, <1>5 DEF GraphTypes
<1>7. IndexersAreRight'
  BY <1>1, <1>3, <1>4 DEF IndexersAreRight, ReadIsWhole
<1>8. CleanIsAlone'
  <2> SUFFICES ASSUME NEW o \in Callers, indexer'[o].clean
               PROVE  UpToDate(indexer[o])' /\
                      \A q \in Callers \ {o} : indexer'[q].repo # indexer'[o].repo
    BY DEF CleanIsAlone
  <2>1. CASE o = c
    <3>1. alone
      BY <1>1, <1>3, <2>1
    <3>2. \A q \in Callers \ {o} : indexer'[q].repo # r
      BY <1>3, <2>1, <3>1 DEF alone
    <3> QED
      BY <1>1, <1>3, <1>4, <2>1, <3>2 DEF UpToDate
  <2>2. CASE o # c
    <3>1. indexer[o].clean /\ indexer[o].repo # r
      BY <1>3, <2>2
    <3>2. /\ UpToDate(indexer[o])
          /\ \A q \in Callers \ {o} : indexer[q].repo # indexer[o].repo
      BY <3>1 DEF CleanIsAlone
    <3>3. UpToDate(indexer[o])'
      BY <1>3, <1>4, <2>2, <3>2 DEF UpToDate
    <3> QED
      BY <1>1, <1>3, <2>2, <3>1, <3>2, <3>3
  <2> QED
    BY <2>1, <2>2
<1>9. GraphIsCurrent' /\ RegisteredIsStored' /\ LastIsStored'
  BY <1>4 DEF GraphIsCurrent, RegisteredIsStored, LastIsStored
<1> QED
  BY <1>6, <1>7, <1>8, <1>9

(* One request moves on with the stored graphs, the files and the others   *)
(* as they are, or comes to its end.                                       *)
LEMMA OneMoves ==
  ASSUME GraphInv, NEW c \in Callers, NEW rec \in IndexerRecs,
         indexer' = [indexer EXCEPT ![c] = rec], UNCHANGED <<checkout, neo, lastCommit>>,
         rec.repo \in {indexer[c].repo, NoName}, rec.stage # "idle" => rec.repo \in Repos,
         ReadIsWhole(rec), rec.stage # "stored",
         rec.clean => indexer[c].clean /\ UpToDate(rec) /\ rec.repo = indexer[c].repo,
         NoName \notin Repos
  PROVE  indexer' \in [Callers -> IndexerRecs] /\ IndexersAreRight' /\ CleanIsAlone'
<1> USE DEF GraphInv
<1>1. /\ indexer' \in [Callers -> IndexerRecs] /\ indexer'[c] = rec
      /\ \A o \in Callers : o # c => indexer'[o] = indexer[o]
  BY DEF GraphTypes
<1>2. IndexersAreRight'
  BY <1>1 DEF IndexersAreRight, ReadIsWhole
<1>3. CleanIsAlone'
  <2> SUFFICES ASSUME NEW o \in Callers, indexer'[o].clean
               PROVE  UpToDate(indexer[o])' /\
                      \A q \in Callers \ {o} : indexer'[q].repo # indexer'[o].repo
    BY DEF CleanIsAlone
  <2>1. indexer[o].clean
    BY <1>1
  <2>2. /\ UpToDate(indexer[o])
        /\ \A q \in Callers \ {o} : indexer[q].repo # indexer[o].repo
    BY <2>1 DEF CleanIsAlone
  <2>3. indexer[o].repo \in Repos
    BY <2>2 DEF UpToDate, IndexersAreRight
  <2>4. UpToDate(indexer[o])' /\ indexer'[o].repo = indexer[o].repo
    BY <1>1, <2>2 DEF UpToDate
  <2>5. \A q \in Callers \ {o} : indexer'[q].repo \in {indexer[q].repo, NoName}
    BY <1>1
  <2> QED
    BY <2>2, <2>3, <2>4, <2>5
<1> QED
  BY <1>1, <1>2, <1>3

(* A file that is read is as it is now; the last one makes the reading     *)
(* whole.                                                                  *)
LEMMA ReadKeeps ==
  ASSUME GraphInv, NEW c \in Callers, NEW f \in Files, ReadsFile(c, f)
  PROVE  GraphInv'
<1> USE DEF GraphInv
<1>0. NoName \notin Repos
  BY RepoGraphAssumption
<1> DEFINE x == indexer[c]
<1>1. x \in IndexerRecs /\ x.stage = "reads" /\ x.repo \in Repos /\ checkout[x.repo] \in PartContents
  BY DEF GraphTypes, ReadsFile, IndexersAreRight
<1>2. /\ UNCHANGED <<checkout, neo, registry, settled, lastCommit, edits, indexes>>
      /\ f \in x.listed \ DOMAIN x.trees
      /\ graphFaults' \in 0 .. MaxGraphFaults
  BY RepoGraphAssumption DEF ReadsFile, GraphFault, GraphTypes
<1>3. PICK tree, blank :
        /\ Gives(c, f, tree, blank)
        /\ \/ f \in DOMAIN checkout[x.repo] /\ tree = checkout[x.repo][f] /\ blank = x.blank
           \/ tree = <<>> /\ blank = x.blank \cup {f}
  BY DEF ReadsFile
<1>4. /\ tree \in Seq(Node) /\ blank \in SUBSET Files
      /\ x.trees \in PartContents
  <2>1. \A g \in DOMAIN checkout[x.repo] : checkout[x.repo][g] \in Seq(Node)
    BY <1>1, FilesOfATree
  <2>2. <<>> \in Seq(Node)
    OBVIOUS
  <2>3. tree \in Seq(Node)
    BY <1>3, <2>1, <2>2, Zenon
  <2> QED
    BY <1>1, <1>3, <2>3 DEF IndexerRecs
<1> DEFINE trees == With(x.trees, f, tree)
           stage == IF DOMAIN trees = x.listed THEN "built" ELSE "reads"
           rec   == [x EXCEPT !.trees = trees, !.blank = blank, !.stage = stage]
<1>5. indexer' = [indexer EXCEPT ![c] = rec]
  BY <1>3 DEF Gives, GraphTypes
<1>6. /\ trees \in PartContents /\ DOMAIN trees = DOMAIN x.trees \cup {f}
      /\ \A g \in DOMAIN trees : trees[g] = IF g = f THEN tree ELSE x.trees[g]
  <2> DEFINE old == x.trees
  <2>1. old \in PartContents
    BY <1>4
  <2> HIDE DEF old
  <2>2. tree \in Seq(Node)
    BY <1>4
  <2>3. With(old, f, tree) \in PartContents
    BY <2>1, <2>2, WithAFile
  <2>4. DOMAIN With(old, f, tree) = DOMAIN old \cup {f}
    BY DEF With
  <2>5. \A g \in DOMAIN With(old, f, tree) :
          With(old, f, tree)[g] = IF g = f THEN tree ELSE old[g]
    BY DEF With
  <2> QED
    BY <2>3, <2>4, <2>5 DEF old
<1>7. stage \in {"built", "reads"} /\ (stage = "built" => DOMAIN trees = x.listed)
  OBVIOUS
<1> HIDE DEF trees, stage
<1>8. /\ rec \in IndexerRecs /\ rec.trees = trees /\ rec.stage = stage /\ rec.repo = x.repo
      /\ rec.clean = x.clean /\ rec.blank = blank /\ rec.listed = x.listed
  BY <1>1, <1>4, <1>6, <1>7 DEF IndexerRecs, IndexStages
<1> HIDE DEF rec
<1>9. ASSUME rec.clean PROVE UpToDate(rec)
  <2>1. UpToDate(x)
    BY <1>8, <1>9 DEF CleanIsAlone
  <2>2. rec.blank \subseteq DOMAIN rec.trees
    BY <1>3, <1>6, <1>8, <2>1 DEF UpToDate
  <2>3. ASSUME NEW g \in DOMAIN rec.trees
        PROVE  rec.trees[g] = IF g \in rec.blank THEN <<>> ELSE checkout[rec.repo][g]
    <3>1. f \notin x.blank
      BY <1>2, <2>1 DEF UpToDate
    <3>2. CASE g = f
      BY <1>3, <1>6, <1>8, <2>3, <3>1, <3>2
    <3>3. CASE g # f
      <4>1. g \in DOMAIN x.trees /\ rec.trees[g] = x.trees[g]
        BY <1>6, <1>8, <2>3, <3>3
      <4>2. g \in rec.blank <=> g \in x.blank
        BY <1>3, <1>8, <3>3
      <4> QED
        BY <1>8, <2>1, <4>1, <4>2 DEF UpToDate
    <3> QED
      BY <3>2, <3>3
  <2> QED
    BY <1>7, <1>8, <2>1, <2>2, <2>3 DEF UpToDate
<1>10. ReadIsWhole(rec)
  BY <1>7, <1>8 DEF ReadIsWhole
<1>11. indexer' \in [Callers -> IndexerRecs] /\ IndexersAreRight' /\ CleanIsAlone'
  <2>1. /\ rec.repo \in {indexer[c].repo, NoName} /\ rec.stage # "stored"
        /\ rec.stage # "idle" => rec.repo \in Repos
        /\ rec.clean => indexer[c].clean /\ UpToDate(rec) /\ rec.repo = indexer[c].repo
    BY <1>1, <1>7, <1>8, <1>9
  <2> QED
    BY <1>0, <1>2, <1>5, <1>8, <1>10, <2>1, OneMoves
<1>12. GraphTypes' /\ GraphIsCurrent' /\ RegisteredIsStored' /\ LastIsStored'
  BY <1>2, <1>11 DEF GraphTypes, GraphIsCurrent, RegisteredIsStored, LastIsStored
<1> QED
  BY <1>11, <1>12

(* A request that fails leaves what is stored as it was.                   *)
LEMMA FailureKeeps ==
  ASSUME GraphInv, NEW c \in Callers, IndexFails(c)
  PROVE  GraphInv'
<1> USE DEF GraphInv
<1>0. NoName \notin Repos
  BY RepoGraphAssumption
<1>1. /\ indexer' = [indexer EXCEPT ![c] = Idle]
      /\ UNCHANGED <<checkout, neo, registry, settled, lastCommit, edits, indexes>>
      /\ graphFaults' \in 0 .. MaxGraphFaults
  BY RepoGraphAssumption DEF IndexFails, GraphFault, GraphTypes
<1>2. indexer' \in [Callers -> IndexerRecs] /\ IndexersAreRight' /\ CleanIsAlone'
  BY <1>0, <1>1, IdleIsIdle, OneMoves DEF ReadIsWhole
<1>3. GraphTypes' /\ GraphIsCurrent' /\ RegisteredIsStored' /\ LastIsStored'
  BY <1>1, <1>2 DEF GraphTypes, GraphIsCurrent, RegisteredIsStored, LastIsStored
<1> QED
  BY <1>2, <1>3

(* A transaction that begins has all that is stored to delete.             *)
LEMMA DeletionKeeps ==
  ASSUME GraphInv, NEW c \in Callers, IndexDeletes(c)
  PROVE  GraphInv'
<1> USE DEF GraphInv
<1>0. NoName \notin Repos
  BY RepoGraphAssumption
<1> DEFINE x   == indexer[c]
           rec == [x EXCEPT !.stage = "deleted", !.gone = neo[x.repo]]
<1>1. x \in IndexerRecs /\ x.stage = "built" /\ x.repo \in Repos /\ neo[x.repo] \in Graph
  BY DEF GraphTypes, IndexDeletes, IndexersAreRight
<1>2. /\ indexer' = [indexer EXCEPT ![c] = rec]
      /\ UNCHANGED <<checkout, neo, registry, settled, lastCommit, edits, indexes, graphFaults>>
  BY DEF IndexDeletes, GraphTypes
<1>3. /\ rec \in IndexerRecs /\ rec.trees = x.trees /\ rec.stage = "deleted"
      /\ rec.listed = x.listed /\ rec.blank = x.blank
      /\ rec.repo = x.repo /\ rec.clean = x.clean /\ rec.gone = neo[x.repo]
  BY <1>1 DEF IndexerRecs, IndexStages
<1> HIDE DEF rec
<1>4. ReadIsWhole(rec)
  BY <1>1, <1>3 DEF ReadIsWhole, IndexersAreRight
<1>5. ASSUME rec.clean PROVE UpToDate(rec)
  <2>1. UpToDate(x)
    BY <1>3, <1>5 DEF CleanIsAlone
  <2> QED
    BY <1>3, <2>1 DEF UpToDate
<1>6. indexer' \in [Callers -> IndexerRecs] /\ IndexersAreRight' /\ CleanIsAlone'
  BY <1>0, <1>1, <1>2, <1>3, <1>4, <1>5, OneMoves
<1>7. GraphTypes' /\ GraphIsCurrent' /\ RegisteredIsStored' /\ LastIsStored'
  BY <1>2, <1>6 DEF GraphTypes, GraphIsCurrent, RegisteredIsStored, LastIsStored
<1> QED
  BY <1>6, <1>7

(* A commit of an undisturbed request stores the index of the files as     *)
(* they are; another one takes the repository off the settled ones.  It    *)
(* brings the files it listed, and its answer may be lost.                 *)
LEMMA CommitKeeps ==
  ASSUME GraphInv, NEW c \in Callers, IndexCommits(c)
  PROVE  GraphInv'
<1> USE DEF GraphInv
<1>0. NoName \notin Repos
  BY RepoGraphAssumption
<1> DEFINE x   == indexer[c]
           r   == x.repo
           new == BuildIndex(x.trees)
           h   == ReplaceRepo(neo[r], x.gone, new)
           rec == [x EXCEPT !.stage = "stored"]
           com == [stored |-> TRUE, files |-> x.listed, blank |-> x.blank]
<1>1. x \in IndexerRecs /\ x.stage = "deleted" /\ r \in Repos /\ neo[r] \in Graph
  BY DEF GraphTypes, IndexCommits, IndexersAreRight
<1>2. x.trees \in PartContents /\ DOMAIN x.trees = x.listed
  BY <1>1 DEF IndexersAreRight, ReadIsWhole, IndexerRecs
<1>3. /\ rec \in IndexerRecs /\ rec.trees = x.trees /\ rec.stage = "stored"
      /\ rec.repo = r /\ rec.clean = x.clean /\ rec.gone = x.gone
      /\ rec.listed = x.listed /\ rec.blank = x.blank
  BY <1>1 DEF IndexerRecs, IndexStages
<1>4. /\ neo' = [neo EXCEPT ![r] = h] /\ lastCommit' = [lastCommit EXCEPT ![r] = com]
      /\ settled' = IF x.clean THEN settled \cup {r} ELSE settled \ {r}
      /\ UNCHANGED <<checkout, registry, indexes, edits>>
  BY DEF IndexCommits, GraphTypes
<1>5. PICK one \in {rec, Idle} : indexer' = [indexer EXCEPT ![c] = one]
  BY DEF IndexCommits, GraphTypes
<1>6. graphFaults' \in 0 .. MaxGraphFaults
  BY RepoGraphAssumption DEF IndexCommits, GraphFault, GraphTypes
<1>7. new \in Graph /\ new.files = x.listed
  BY <1>2, IndexIsAGraph
<1>8. x.gone \in Graph /\ com \in CommitRecs
  BY <1>1 DEF IndexerRecs, CommitRecs
<1>9. com.stored /\ com.files = x.listed /\ com.blank = x.blank
  OBVIOUS
<1> HIDE DEF new, com
<1>10. h \in Graph /\ x.listed \subseteq h.files /\ (x.gone = neo[r] => h = new)
  BY <1>1, <1>7, <1>8, Replaced
<1> HIDE DEF h, rec
<1>11. /\ neo' \in [Repos -> Graph] /\ neo'[r] = h
       /\ lastCommit' \in [Repos -> CommitRecs] /\ lastCommit'[r] = com
       /\ \A q \in Repos : q # r => neo'[q] = neo[q] /\ lastCommit'[q] = lastCommit[q]
  BY <1>1, <1>4, <1>8, <1>10 DEF GraphTypes
<1>12. /\ one \in IndexerRecs /\ one.repo \in {r, NoName}
       /\ one.stage \in {"stored", "idle"} /\ (one.stage = "stored" => one.repo = r)
       /\ (one.clean => one = rec /\ x.clean)
  BY <1>3, <1>5, IdleIsIdle
<1>13. /\ indexer' \in [Callers -> IndexerRecs] /\ indexer'[c] = one
       /\ \A o \in Callers : o # c => indexer'[o] = indexer[o]
  BY <1>5, <1>12 DEF GraphTypes
<1>14. GraphTypes'
  BY <1>1, <1>4, <1>6, <1>11, <1>13 DEF GraphTypes
<1>15. IndexersAreRight'
  <2> SUFFICES ASSUME NEW o \in Callers
               PROVE  /\ indexer'[o].stage # "idle" => indexer'[o].repo \in Repos
                      /\ ReadIsWhole(indexer'[o])
                      /\ indexer'[o].stage = "stored" => lastCommit'[indexer'[o].repo].stored
    BY DEF IndexersAreRight, ReadIsWhole
  <2>1. CASE o = c
    BY <1>1, <1>9, <1>11, <1>12, <1>13, <2>1 DEF ReadIsWhole
  <2>2. CASE o # c
    BY <1>9, <1>11, <1>13, <2>2 DEF IndexersAreRight, ReadIsWhole
  <2> QED
    BY <2>1, <2>2
<1>16. CleanIsAlone'
  <2> SUFFICES ASSUME NEW o \in Callers, indexer'[o].clean
               PROVE  UpToDate(indexer[o])' /\
                      \A q \in Callers \ {o} : indexer'[q].repo # indexer'[o].repo
    BY DEF CleanIsAlone
  <2>1. /\ indexer[o].clean /\ indexer'[o].repo = indexer[o].repo
        /\ \A q \in Callers : indexer'[q].repo \in {indexer[q].repo, NoName}
    BY <1>3, <1>12, <1>13
  <2>2. /\ UpToDate(indexer[o])
        /\ \A q \in Callers \ {o} : indexer[q].repo # indexer[o].repo
    BY <2>1 DEF CleanIsAlone
  <2>3. indexer[o].repo \in Repos
    BY <2>2 DEF UpToDate, IndexersAreRight
  <2>4. \A q \in Callers \ {o} : indexer'[q].repo # indexer'[o].repo
    BY <1>0, <2>1, <2>2, <2>3
  <2>5. CASE o = c
    <3>1. indexer'[o] = rec
      BY <1>12, <1>13, <2>5
    <3> QED
      BY <1>3, <1>4, <2>2, <2>4, <2>5, <3>1 DEF UpToDate
  <2>6. CASE o # c
    <3>1. indexer[o].repo # r
      BY <2>2, <2>6
    <3>2. neo'[indexer[o].repo] = neo[indexer[o].repo]
      BY <1>11, <2>3, <3>1
    <3> QED
      BY <1>4, <1>13, <2>2, <2>4, <2>6, <3>2 DEF UpToDate
  <2> QED
    BY <2>5, <2>6
<1>17. GraphIsCurrent'
  <2> SUFFICES ASSUME NEW q \in settled'
               PROVE  neo'[q] = BuildIndex(AsRead(checkout'[q], lastCommit'[q].blank))
    BY DEF GraphIsCurrent, AsRead
  <2>1. CASE q # r
    <3>1. q \in settled /\ q \in Repos
      BY <1>4, <2>1 DEF GraphTypes
    <3> QED
      BY <1>4, <1>11, <2>1, <3>1 DEF GraphIsCurrent
  <2>2. CASE q = r
    <3>1. x.clean
      BY <1>4, <2>2
    <3>2. UpToDate(x)
      BY <3>1 DEF CleanIsAlone
    <3>3. x.gone = neo[r]
      BY <1>1, <3>2 DEF UpToDate
    <3>4. x.trees = AsRead(checkout[r], x.blank)
      BY <1>2, <3>2, FilesOfATree DEF UpToDate, AsRead
    <3> QED
      BY <1>4, <1>9, <1>10, <1>11, <2>2, <3>3, <3>4 DEF new
  <2> QED
    BY <2>1, <2>2
<1>18. LastIsStored'
  BY <1>9, <1>10, <1>11 DEF LastIsStored
<1>19. RegisteredIsStored'
  BY <1>4, <1>9, <1>11, <1>18 DEF RegisteredIsStored, LastIsStored, GraphTypes
<1> QED
  BY <1>14, <1>15, <1>16, <1>17, <1>18, <1>19

(* A repository is registered once its graph is stored.                    *)
LEMMA RegistrationKeeps ==
  ASSUME GraphInv, NEW c \in Callers, Registers(c)
  PROVE  GraphInv'
<1> USE DEF GraphInv
<1>0. NoName \notin Repos
  BY RepoGraphAssumption
<1>1. /\ indexer' = [indexer EXCEPT ![c] = Idle] /\ indexer[c].stage = "stored"
      /\ registry' = registry \cup {indexer[c].repo}
      /\ UNCHANGED <<checkout, neo, settled, lastCommit, edits, indexes, graphFaults>>
  BY DEF Registers
<1>2. indexer' \in [Callers -> IndexerRecs] /\ IndexersAreRight' /\ CleanIsAlone'
  BY <1>0, <1>1, IdleIsIdle, OneMoves DEF ReadIsWhole
<1>3. indexer[c].repo \in Repos /\ lastCommit[indexer[c].repo].stored
  BY <1>1 DEF IndexersAreRight
<1>4. GraphTypes' /\ GraphIsCurrent' /\ LastIsStored'
  BY <1>1, <1>2, <1>3 DEF GraphTypes, GraphIsCurrent, LastIsStored
<1>5. RegisteredIsStored'
  BY <1>1, <1>3 DEF RegisteredIsStored, LastIsStored
<1> QED
  BY <1>2, <1>4, <1>5

(* A restart forgets the requests and the registry, and stores nothing.    *)
LEMMA RestartKeeps ==
  ASSUME GraphInv, BffRestarted
  PROVE  GraphInv'
<1> USE DEF GraphInv
<1>1. /\ \A c \in Callers : indexer'[c] = Idle
      /\ indexer' \in [Callers -> IndexerRecs] /\ registry' = {}
      /\ UNCHANGED <<checkout, neo, settled, lastCommit, edits, indexes>>
  BY IdleIsIdle DEF BffRestarted
<1>2. graphFaults' \in 0 .. MaxGraphFaults
  BY RepoGraphAssumption DEF BffRestarted, GraphFault, GraphTypes
<1>3. IndexersAreRight' /\ CleanIsAlone'
  BY <1>1, IdleIsIdle DEF IndexersAreRight, CleanIsAlone, ReadIsWhole
<1>4. GraphTypes' /\ GraphIsCurrent' /\ RegisteredIsStored' /\ LastIsStored'
  BY <1>1, <1>2 DEF GraphTypes, GraphIsCurrent, RegisteredIsStored, LastIsStored
<1> QED
  BY <1>3, <1>4

(* Every step keeps the invariant.                                         *)
LEMMA GraphStays == GraphInv /\ [GraphNext]_graphVars => GraphInv'
<1> SUFFICES ASSUME GraphInv, [GraphNext]_graphVars PROVE GraphInv'
  OBVIOUS
<1>1. CASE GraphNext
  BY <1>1, EditKeeps, AskKeeps, ReadKeeps, FailureKeeps, DeletionKeeps, CommitKeeps,
     RegistrationKeeps, RestartKeeps
  DEF GraphNext
<1>2. CASE UNCHANGED graphVars
  BY <1>2
  DEF graphVars, GraphInv, GraphTypes, IndexersAreRight, ReadIsWhole, CleanIsAlone, UpToDate,
      GraphIsCurrent, RegisteredIsStored, LastIsStored
<1> QED
  BY <1>1, <1>2

(* In every run of the graph: the stages of an index are the five there    *)
(* are, and what it has read are files of its checkout.                    *)
THEOREM GraphTypeCorrect == GraphSpec => []GraphTypeOK
<1>1. ASSUME GraphInv PROVE GraphTypeOK
  <2>0. \A r \in Repos : checkout[r] \in PartContents
    BY <1>1 DEF GraphInv, GraphTypes
  <2>1. ASSUME NEW r \in Repos, NEW f \in DOMAIN checkout[r], NEW i \in DOMAIN checkout[r][f]
        PROVE  checkout[r][f][i] \in Node
    <3>1. checkout[r][f] \in Seq(Node)
      BY <2>0, FilesOfATree
    <3>2. i \in 1 .. Len(checkout[r][f])
      BY <3>1, LenProperties
    <3> QED
      BY <3>1, <3>2, ElementOfSeq
  <2>2. ASSUME NEW c \in Callers
        PROVE  /\ indexer[c].stage \in IndexStages
               /\ DOMAIN indexer[c].trees \subseteq Files
    BY <1>1 DEF GraphInv, GraphTypes, IndexerRecs, PartContents
  <2>3. \A r \in Repos : DOMAIN checkout[r] \subseteq Files
    BY <2>0, FilesOfATree
  <2> QED
    BY <1>1, <2>1, <2>2, <2>3 DEF GraphInv, GraphTypes, GraphTypeOK, IndexStages
<1> QED
  BY <1>1, GraphStarts, GraphStays, PTL DEF GraphSpec

(* Both ends of a link that is drawn are drawn, and a call that one of the *)
(* endpoints shows is in the others as far as their limits let it, for     *)
(* whatever graph is stored.                                               *)
LEMMA ViewsAreGraphs == ViewsAgree
<1>1. ASSUME NEW g, NEW top, NEW l \in FullGraph(g, top).links
      PROVE  {l[1], l[2]} \subseteq FullGraph(g, top).nodes
  <2> DEFINE files == {s.file : s \in top} \cap g.files
             nodes == {<<f>> : f \in files} \cup {Key(s) : s \in top}
  <2>1. FullGraph(g, top).nodes = nodes
    BY DEF FullGraph
  <2>2. \/ \E s \in top : s.file \in files /\ l = << <<s.file>>, Key(s)>>
        \/ \E c \in g.calls : /\ c.src \in files /\ \E s \in top : Key(s) = c.dst
                              /\ l = << <<c.src>>, c.dst>>
    BY DEF FullGraph
  <2> HIDE DEF files
  <2>3. l[1] \in nodes /\ l[2] \in nodes
    BY <2>2
  <2> QED
    BY <2>1, <2>3
<1>2. ASSUME NEW g, NEW f \in g.files, NEW c \in UNION CalleesOf(g, f)
      PROVE  /\ \A callers \in CallersOf(g, c.dst[2]) :
                  Cardinality(callers) < CallerLimit => c \in callers
             /\ \A bundle \in ContextBundle(g, {f}) :
                  Cardinality(bundle) < BundleLimit => \E s \in bundle : Key(s) = c.dst
  <2>1. c \in CallRows(g) /\ c.src = f
    BY <1>2 DEF CalleesOf, Limited
  <2>2. PICK s \in g.symbols : Key(s) = c.dst
    BY <2>1 DEF CallRows
  <2>3. ASSUME NEW callers \in CallersOf(g, c.dst[2]), Cardinality(callers) < CallerLimit
        PROVE  c \in callers
    <3>1. callers = {d \in CallRows(g) : d.dst[2] = c.dst[2]}
      BY <2>3 DEF CallersOf, Limited
    <3> QED
      BY <2>1, <3>1
  <2>4. ASSUME NEW bundle \in ContextBundle(g, {f}), Cardinality(bundle) < BundleLimit
        PROVE  s \in bundle
    <3>1. bundle = {z \in g.symbols : \/ z.file \in {f} \cap g.files
                                      \/ \E d \in CallRows(g) : d.src \in {f} /\ d.dst = Key(z)}
      BY <2>4 DEF ContextBundle, Limited
    <3> QED
      BY <2>1, <2>2, <3>1
  <2> QED
    BY <2>2, <2>3, <2>4
<1> QED
  BY <1>1, <1>2 DEF ViewsAgree

(* Whatever is edited, asked, unreadable, refused or restarted: a settled  *)
(* repository's graph is the index of its files as they could be read and  *)
(* is right, what is drawn is a graph and the views agree as far as their  *)
(* limits go, and what is registered was stored and keeps the files of its *)
(* last commit.                                                            *)
THEOREM RepoGraphIsRight == GraphSpec => []RepoGraphHolds
<1>1. GraphInv => RepoGraphHolds
  <2> SUFFICES ASSUME GraphInv PROVE EdgesAreRight
    BY ViewsAreGraphs DEF GraphInv, RepoGraphHolds
  <2>1. ASSUME NEW r \in settled PROVE IndexIsRight(neo[r])
    <3>1. checkout[r] \in PartContents
      BY DEF GraphInv, GraphTypes
    <3>2. <<>> \in Seq(Node)
      OBVIOUS
    <3>3. AsRead(checkout[r], lastCommit[r].blank) \in [DOMAIN checkout[r] -> Seq(Node)]
      BY <3>1, <3>2, FilesOfATree DEF AsRead
    <3>4. AsRead(checkout[r], lastCommit[r].blank) \in PartContents
      BY <3>1, <3>3, FilesOfATree DEF PartContents
    <3> QED
      BY <3>4, EdgesOfAnIndex DEF GraphInv, GraphIsCurrent
  <2> QED
    BY <2>1 DEF EdgesAreRight, IndexIsRight
<1> QED
  BY <1>1, GraphStarts, GraphStays, PTL DEF GraphSpec

-----------------------------------------------------------------------------
(***************************************************************************)
(* BenchSessions: over interrupts, kills and resumptions the books of a    *)
(* session balance, and nothing is left behind that is not accounted for.  *)
(***************************************************************************)

(* SetToSeq lists every element of a finite set, and each once.            *)
LEMMA SetToSeqLists ==
  ASSUME NEW S, IsFiniteSet(S)
  PROVE  /\ SetToSeq(S) \in Seq(S) /\ DOMAIN SetToSeq(S) = 1 .. Cardinality(S)
         /\ Len(SetToSeq(S)) = Cardinality(S)
         /\ \A i, j \in DOMAIN SetToSeq(S) : SetToSeq(S)[i] = SetToSeq(S)[j] => i = j
         /\ \A x \in S : \E i \in DOMAIN SetToSeq(S) : SetToSeq(S)[i] = x
<1> DEFINE n == Cardinality(S)
           g == SetToSeq(S)
<1>1. n \in Nat /\ IsFiniteSet(1 .. n) /\ Cardinality(1 .. n) = n
  BY FS_CardinalityType, FS_Interval
<1>2. PICK f : f \in Bijection(1 .. n, S)
  BY <1>1, FS_SameCardinalityBij DEF ExistsBijection
<1>3. f \in [1 .. n -> S] /\ IsInjective(f)
  BY <1>2 DEF Bijection, Injection
<1>4. g \in [1 .. n -> S] /\ IsInjective(g)
  BY <1>3 DEF SetToSeq
<1> HIDE DEF g
<1>5. g \in Injection(1 .. n, S)
  BY <1>4 DEF Injection
<1>6. g \in Surjection(1 .. n, S)
  BY <1>1, <1>5, FS_Injection
<1>7. \A x \in S : \E i \in 1 .. n : g[i] = x
  BY <1>6 DEF Surjection
<1>8. g \in Seq(S) /\ Len(g) = n
  BY <1>1, <1>4, SeqDef, LenProperties
<1>9. g = SetToSeq(S)
  BY DEF g
<1> QED
  BY <1>4, <1>7, <1>8, <1>9 DEF IsInjective

BenchPcs == {"idle", "next", "repo", "checkout", "oracle", "model", "score", "workspace",
             "create", "poll", "patch", "deleterun", "deletews", "write"}
Records  == [task : Tasks, outcome : {"pass", "fail", "harness_error"}]
Steps    == [path : {"none", "A", "B"}, pc : BenchPcs, todo : SUBSET Tasks,
             cur : Tasks \cup {"none"}, laps : Nat, out : {"none", "pass", "fail"},
             recs : Seq(Records)]

\* What the task at hand may have at the BFF, at each place of run_task.
Standing(pc) ==
  CASE pc = "create" -> {"ws", "sampler"}
    [] pc = "poll" -> {"ws", "run", "sampler"}
    [] pc \in {"patch", "deleterun"} -> {"ws", "run"}
    [] pc = "deletews" -> {"ws"}
    [] OTHER -> {}

BenchInv ==
  /\ BenchTypeOK /\ bench \in Steps
  /\ InTask <=> bench.cur # "none"
  /\ bench.pc \in {"deleterun", "deletews", "write"} => bench.out # "none"
  /\ bench.pc # "idle" => sessions # 0
  /\ bench.pc # "idle" \/ sessions # 0 => bench.path # "none"
  /\ bench.cur \notin bench.todo
  /\ \A i \in 1 .. Len(bench.recs) :
       bench.recs[i].task # bench.cur /\ bench.recs[i].task \notin bench.todo
  /\ \A i, j \in 1 .. Len(bench.recs) : bench.recs[i].task = bench.recs[j].task => i = j
  /\ \A i \in 1 .. Len(bench.recs) :
       bench.recs[i].outcome # "harness_error" => disk[bench.recs[i].task] = bench.recs[i].outcome
  /\ bench.path = "A" /\ bench.pc # "idle" =>
       \A t \in Tasks : t \in bench.todo \/ t = bench.cur \/ Counted(t)
  /\ \A l \in live :
       l \in cut \/ (l[2] = bench.cur /\ l[3] = sessions /\ l[1] \in Standing(bench.pc))

(* A session has finitely many tasks, and none of them is named "none".    *)
LEMMA TasksAreFinite == IsFiniteSet(Tasks) /\ "none" \notin Tasks
<1>1. Len(TaskList) \in Nat /\ DOMAIN TaskList = 1 .. Len(TaskList) /\ IsFiniteSet(DOMAIN TaskList)
  BY BenchConstants, LenProperties, FS_Interval
<1>2. TaskList \in Surjection(DOMAIN TaskList, Tasks)
  BY <1>1, BenchConstants DEF Surjection, Tasks, ToSet
<1> QED
  BY <1>1, <1>2, BenchConstants, FS_Surjection DEF Tasks

(* A step within run_task keeps the books as they are.                     *)
LEMMA TaskGoesOn ==
  ASSUME BenchInv, InTask, NEW pc \in BenchPcs \ {"idle", "next"}, BenchTypeOK',
         bench' \in Steps, bench'.pc = pc, bench'.path = bench.path, bench'.todo = bench.todo,
         bench'.cur = bench.cur, bench'.recs = bench.recs, disk' = disk,
         sessions' = sessions,
         pc \in {"deleterun", "deletews", "write"} => bench'.out # "none",
         \A l \in live' :
           l \in cut' \/ (l[2] = bench.cur /\ l[3] = sessions /\ l[1] \in Standing(pc))
  PROVE  BenchInv'
BY DEF BenchInv, InTask, Counted

(* The steps of path A, and those of both paths before they part.          *)
LEMMA PathASteps ==
  ASSUME BenchInv,
         RepoCached \/ RepoCloned \/ RepoCheckedOut \/ OracleRead \/ ModelAnswers \/ ModelFails
           \/ Scored
  PROVE  BenchInv'
<1> DEFINE Before == {"repo", "checkout", "oracle", "model", "score", "workspace"}
<1>1. /\ bench.pc \in Before /\ InTask
      /\ bench'.pc \in Before \cup {"write"}
      /\ bench' = [bench EXCEPT !.pc = bench'.pc, !.out = bench'.out]
      /\ bench'.out \in {"none", "pass", "fail"}
      /\ bench'.pc = "write" => bench'.out # "none"
      /\ disk' = disk /\ live' = live /\ cut' = cut /\ sessions' = sessions
      /\ mishaps' \in 0 .. MaxMishaps
      /\ clone' \in [Tasks -> {"none", "default", "base"}]
  <2>0. bench \in Steps /\ mishaps \in 0 .. MaxMishaps /\ MaxMishaps \in Nat
        /\ clone \in [Tasks -> {"none", "default", "base"}]
    BY BenchConstants DEF BenchInv, BenchTypeOK
  <2>1. CASE RepoCached
    BY <2>0, <2>1 DEF Steps, RepoCached, At, Goes, Mishap, Outcome, Outside, Books, InTask
  <2>2. CASE RepoCloned
    BY <2>0, <2>2 DEF Steps, RepoCloned, At, Goes, Mishap, Outcome, Outside, Books, InTask
  <2>3. CASE RepoCheckedOut
    BY <2>0, <2>3 DEF Steps, RepoCheckedOut, At, Goes, Mishap, Outcome, Outside, Books, InTask
  <2>4. CASE OracleRead
    BY <2>0, <2>4 DEF Steps, OracleRead, At, Goes, Mishap, Outcome, Outside, Books, InTask
  <2>5. CASE ModelAnswers
    BY <2>0, <2>5 DEF Steps, ModelAnswers, At, Goes, Mishap, Outcome, Outside, Books, InTask
  <2>6. CASE ModelFails
    BY <2>0, <2>6 DEF Steps, ModelFails, At, Goes, Mishap, Outcome, Outside, Books, InTask
  <2>7. CASE Scored
    BY <2>0, <2>7 DEF Steps, Scored, At, Goes, Mishap, Outcome, Outside, Books, InTask
  <2> QED
    BY <2>1, <2>2, <2>3, <2>4, <2>5, <2>6, <2>7
<1>2. BenchTypeOK' /\ bench' \in Steps
  BY <1>1 DEF BenchInv, BenchTypeOK, Steps, BenchPcs
<1>3. Standing(bench.pc) = {} /\ Standing(bench'.pc) = {}
  BY <1>1 DEF Standing
<1>4. bench'.pc \in BenchPcs \ {"idle", "next"}
  BY <1>1 DEF BenchPcs
<1>5. \A l \in live' :
        l \in cut' \/ (l[2] = bench.cur /\ l[3] = sessions /\ l[1] \in Standing(bench'.pc))
  BY <1>1, <1>3 DEF BenchInv
<1>6. /\ bench'.path = bench.path /\ bench'.todo = bench.todo /\ bench'.cur = bench.cur
      /\ bench'.recs = bench.recs
  BY <1>1 DEF BenchInv, Steps
<1> QED
  BY <1>1, <1>2, <1>4, <1>5, <1>6, TaskGoesOn

(* The steps of path B: what is made at the BFF is what may stand there at *)
(* the next place, and what is not taken away is said to be cut short.     *)
LEMMA PathBSteps ==
  ASSUME BenchInv,
         \/ WorkspaceMade \/ WorkspaceRefused \/ RunMade \/ RunRefused \/ PollTerminal \/ PollAgain \/ PollCapped
         \/ RunPollFails \/ PatchScored \/ RunDeleted \/ WorkspaceDeleted
  PROVE  BenchInv'
<1> DEFINE Places == {"workspace", "create", "poll", "patch", "deleterun", "deletews", "write"}
           Things == {"ws", "run", "sampler"} \X Tasks \X (1 .. MaxSessions)
           Moves == /\ bench.pc \in Places
                    /\ bench' \in Steps /\ bench'.pc \in Places \ {"workspace"}
                    /\ bench'.path = bench.path /\ bench'.todo = bench.todo
                    /\ bench'.cur = bench.cur /\ bench'.recs = bench.recs
                    /\ bench'.pc \in {"deleterun", "deletews", "write"} => bench'.out # "none"
                    /\ disk' = disk /\ sessions' = sessions /\ clone' = clone
                    /\ mishaps' \in 0 .. MaxMishaps
           StaysRight == /\ live' \subseteq Things /\ cut' \subseteq Things
                      /\ \A l \in live' :
                           l \in cut' \/ (l[2] = bench.cur /\ l[3] = sessions
                                          /\ l[1] \in Standing(bench'.pc))
<1>0. /\ bench \in Steps /\ mishaps \in 0 .. MaxMishaps /\ MaxMishaps \in Nat
      /\ bench.pc # "idle" /\ bench.pc # "next" => bench.cur \in Tasks
      /\ bench.pc \in {"deleterun", "deletews", "write"} => bench.out # "none"
  BY BenchConstants DEF BenchInv, BenchTypeOK, InTask, Steps
<1>1. /\ live \subseteq Things /\ cut \subseteq Things
      /\ \A l \in live : l = <<l[1], l[2], l[3]>>
      /\ \A l \in live :
           l \in cut \/ (l[2] = bench.cur /\ l[3] = sessions /\ l[1] \in Standing(bench.pc))
      /\ bench.pc # "idle" /\ bench.pc # "next" =>
           \A k \in {"ws", "run", "sampler"} : Mine(k) \in Things
  <2>1. bench.pc # "idle" => sessions \in 1 .. MaxSessions
    BY BenchConstants DEF BenchInv, BenchTypeOK
  <2> QED
    BY <1>0, <2>1 DEF BenchInv, BenchTypeOK, Mine
<1>2. Moves
  <2>1. CASE WorkspaceMade
    BY <1>0, <2>1 DEF Steps, BenchPcs, WorkspaceMade, At, Goes, Mishap, Outcome, Outside, Books
  <2>2. CASE RunMade
    BY <1>0, <2>2 DEF Steps, BenchPcs, RunMade, At, Goes, Mishap, Outcome, Outside, Books
  <2>3. CASE RunRefused
    <3>1. /\ bench.pc = "create" /\ bench' = [bench EXCEPT !.pc = "write", !.out = "fail"]
          /\ mishaps < MaxMishaps /\ mishaps' = mishaps + 1
          /\ disk' = disk /\ sessions' = sessions /\ clone' = clone
      BY <2>3 DEF RunRefused, At, Mishap, Outcome, Books
    <3>2. mishaps' \in 0 .. MaxMishaps
      BY <1>0, <3>1
    <3>3. bench' \in Steps
      BY <1>0, <3>1 DEF Steps, BenchPcs
    <3> QED
      BY <1>0, <3>1, <3>2, <3>3 DEF Steps
  <2>11. CASE WorkspaceRefused
    <3>1. /\ bench.pc = "workspace" /\ bench' = [bench EXCEPT !.pc = "write", !.out = "fail"]
          /\ mishaps < MaxMishaps /\ mishaps' = mishaps + 1
          /\ disk' = disk /\ sessions' = sessions /\ clone' = clone
      BY <2>11 DEF WorkspaceRefused, At, Mishap, Outcome, Books
    <3>2. mishaps' \in 0 .. MaxMishaps
      BY <1>0, <3>1
    <3>3. bench' \in Steps
      BY <1>0, <3>1 DEF Steps, BenchPcs
    <3> QED
      BY <1>0, <3>1, <3>2, <3>3 DEF Steps
  <2>4. CASE PollTerminal
    BY <1>0, <2>4 DEF Steps, BenchPcs, PollTerminal, PollOver, At, Goes, Mishap, Outcome,
       Outside, Books
  <2>5. CASE PollAgain
    BY <1>0, <2>5 DEF Steps, BenchPcs, PollAgain, PollOver, At, Goes, Mishap, Outcome, Outside,
       Books
  <2>6. CASE PollCapped
    BY <1>0, <2>6 DEF Steps, BenchPcs, PollCapped, PollOver, At, Goes, Mishap, Outcome, Outside,
       Books
  <2>7. CASE RunPollFails
    BY <1>0, <2>7 DEF Steps, BenchPcs, RunPollFails, PollOver, At, Goes, Mishap, Outcome,
       Outside, Books
  <2>8. CASE PatchScored
    BY <1>0, <2>8, ZenonT(60) DEF Steps, BenchPcs, PatchScored, At, Goes, Mishap, Outcome, Outside, Books
  <2>9. CASE RunDeleted
    BY <1>0, <2>9 DEF Steps, BenchPcs, RunDeleted, Cleanup, At, Goes, Mishap, Outcome, Outside,
       Books
  <2>10. CASE WorkspaceDeleted
    BY <1>0, <2>10 DEF Steps, BenchPcs, WorkspaceDeleted, Cleanup, At, Goes, Mishap, Outcome,
       Outside, Books
  <2> QED
    BY <2>1, <2>2, <2>3, <2>4, <2>5, <2>6, <2>7, <2>8, <2>9, <2>10, <2>11
<1>3. StaysRight
  <2> HIDE DEF Things
  <2>1. CASE WorkspaceMade
    <3>1. /\ bench.pc = "workspace" /\ bench'.pc = "create" /\ cut' = cut
          /\ live' = live \cup {Mine("ws"), Mine("sampler")}
      BY <1>0, <2>1 DEF Steps, WorkspaceMade, At, Goes
    <3> QED
      BY <1>1, <3>1 DEF Standing, Mine
  <2>2. CASE RunMade
    <3>1. /\ bench.pc = "create" /\ bench'.pc = "poll" /\ cut' = cut
          /\ live' = live \cup {Mine("run")}
      BY <1>0, <2>2 DEF Steps, RunMade, At, Goes
    <3> QED
      BY <1>1, <3>1 DEF Standing, Mine
  <2>3. CASE RunRefused
    <3>1. PICK stays \in SUBSET {Mine("run"), Mine("ws")} :
            /\ bench.pc = "create" /\ live' = (live \ {Mine("ws"), Mine("sampler")}) \cup stays
            /\ cut' = cut \cup stays
      BY <2>3 DEF RunRefused, At
    <3>2. stays \subseteq Things
      BY <1>1, <3>1
    <3>3. ASSUME NEW l \in live, l \notin cut
          PROVE  l \in {Mine("ws"), Mine("sampler")}
      BY <1>1, <3>1, <3>3 DEF Standing, Mine
    <3> QED
      BY <1>1, <3>1, <3>2, <3>3
  <2>4. CASE PollTerminal \/ PollCapped \/ (RunPollFails /\ bench'.pc # "poll")
    <3>1. /\ bench.pc = "poll" /\ bench'.pc = "patch" /\ cut' = cut
          /\ live' = live \ {Mine("sampler")}
      BY <1>0, <2>4 DEF Steps, PollTerminal, PollCapped, RunPollFails, PollOver, At, Goes, Outside
    <3>2. ASSUME NEW l \in live, l \notin cut, l # Mine("sampler")
          PROVE  l[1] \in {"ws", "run"}
      BY <1>1, <3>1, <3>2 DEF Standing, Mine
    <3> QED
      BY <1>1, <3>1, <3>2 DEF Standing
  <2>5. CASE PollAgain \/ (RunPollFails /\ bench'.pc = "poll")
    <3>1. bench.pc = "poll" /\ bench'.pc = "poll" /\ cut' = cut /\ live' = live
      BY <1>0, <2>5 DEF Steps, PollAgain, RunPollFails, PollOver, At, Goes, Outside
    <3> QED
      BY <1>1, <3>1
  <2>6. CASE PatchScored
    <3>1. bench.pc = "patch" /\ bench'.pc = "deleterun" /\ cut' = cut /\ live' = live
      BY <1>0, <2>6 DEF Steps, PatchScored, At, Outcome, Outside
    <3> QED
      BY <1>1, <3>1 DEF Standing
  <2>7. CASE RunDeleted
    <3>1. /\ bench.pc = "deleterun" /\ bench'.pc = "deletews"
          /\ \/ live' = live \ {Mine("run")} /\ cut' = cut
             \/ live' = live /\ cut' = cut \cup {Mine("run")}
      BY <1>0, <2>7 DEF Steps, RunDeleted, Cleanup, At, Goes
    <3>2. ASSUME NEW l \in live, l \notin cut, l # Mine("run")
          PROVE  l[1] = "ws" /\ l[2] = bench.cur /\ l[3] = sessions
      BY <1>1, <3>1, <3>2 DEF Standing, Mine
    <3>3. "ws" \in Standing("deletews") /\ Mine("run") \in Things
      BY <1>1, <3>1 DEF Standing
    <3> QED
      BY <1>1, <3>1, <3>2, <3>3
  <2>8. CASE WorkspaceDeleted
    <3>1. /\ bench.pc = "deletews" /\ bench'.pc = "write"
          /\ \/ live' = live \ {Mine("ws")} /\ cut' = cut
             \/ live' = live /\ cut' = cut \cup {Mine("ws")}
      BY <1>0, <2>8 DEF Steps, WorkspaceDeleted, Cleanup, At, Goes
    <3>2. ASSUME NEW l \in live, l \notin cut
          PROVE  l = Mine("ws")
      BY <1>1, <3>1, <3>2 DEF Standing, Mine
    <3>3. Mine("ws") \in Things
      BY <1>1, <3>1
    <3> QED
      BY <1>1, <3>1, <3>2, <3>3
  <2>9. CASE WorkspaceRefused
    <3>1. PICK made \in SUBSET {Mine("ws")} :
            bench.pc = "workspace" /\ live' = live \cup made /\ cut' = cut \cup made
      BY <2>9 DEF WorkspaceRefused, At
    <3>2. made \subseteq Things /\ live \subseteq cut
      BY <1>1, <3>1 DEF Standing
    <3> QED
      BY <1>1, <3>1, <3>2
  <2> QED
    BY <2>1, <2>2, <2>3, <2>4, <2>5, <2>6, <2>7, <2>8, <2>9
<1>4. BenchTypeOK'
  BY <1>2, <1>3 DEF BenchInv, BenchTypeOK
<1>5. bench'.pc \in BenchPcs \ {"idle", "next"} /\ InTask
  BY <1>2 DEF BenchPcs, InTask
<1> HIDE DEF Places, Things
<1> QED
  BY <1>2, <1>3, <1>4, <1>5, TaskGoesOn

(* What the agent of the run does is nothing to the books.                 *)
LEMMA AgentSteps ==
  ASSUME BenchInv, AgentCalls \/ AgentRests
  PROVE  BenchInv'
<1>1. /\ bench' = bench /\ disk' = disk /\ clone' = clone /\ live' = live /\ cut' = cut
      /\ mishaps' = mishaps /\ sessions' = sessions
  BY DEF AgentCalls, AgentRests
<1> QED
  BY <1>1 DEF BenchInv, BenchTypeOK, InTask, Counted

(* A session takes up what the directory has and what it has not.          *)
LEMMA SessionStartsRight ==
  ASSUME BenchInv, SessionStarts
  PROVE  BenchInv'
<1> DEFINE Old(p) == {Rec(t, disk[t]) : t \in {t \in Tasks : Restored(p, t)}}
           Todo(p) == {t \in Tasks : ~Skipped(p, t)}
<1>1. /\ bench \in Steps /\ (sessions # 0 => bench.path # "none")
      /\ bench.pc = "idle" /\ bench.cur = "none" /\ sessions < MaxSessions
      /\ sessions \in 0 .. MaxSessions /\ MaxSessions \in Nat
      /\ disk \in [Tasks -> {"none", "torn", "pass", "fail"}] /\ Standing("idle") = {}
  BY BenchConstants DEF BenchInv, BenchTypeOK, SessionStarts, At, InTask, Standing
<1>2. PICK p \in {"A", "B"} :
        bench' = [NoTask EXCEPT !.path = p, !.pc = "next", !.todo = Todo(p),
                                !.recs = SetToSeq(Old(p))]
  <2>1. sessions # 0 => bench.path \in {"A", "B"}
    BY <1>1 DEF Steps
  <2> HIDE DEF Old, Todo
  <2>2. \E p \in IF sessions = 0 THEN {"A", "B"} ELSE {bench.path} :
          bench' = [NoTask EXCEPT !.path = p, !.pc = "next", !.todo = Todo(p),
                                  !.recs = SetToSeq(Old(p))]
    BY Zenon DEF SessionStarts, Old, Todo
  <2> QED
    BY <2>1, <2>2
<1>3. /\ bench'.path = p /\ bench'.pc = "next" /\ bench'.todo = Todo(p) /\ bench'.cur = "none"
      /\ bench'.laps = 0 /\ bench'.out = "none" /\ bench'.recs = SetToSeq(Old(p))
      /\ sessions' = sessions + 1 /\ disk' = disk /\ clone' = clone /\ live' = live /\ cut' = cut
      /\ mishaps' = mishaps
      /\ bench' = [path |-> p, pc |-> "next", todo |-> Todo(p), cur |-> "none", laps |-> 0,
                   out |-> "none", recs |-> SetToSeq(Old(p))]
  BY <1>2 DEF NoTask, SessionStarts
<1>4. IsFiniteSet(Old(p))
  <2> DEFINE T == {t \in Tasks : Restored(p, t)}
             f == [t \in T |-> Rec(t, disk[t])]
  <2>1. IsFiniteSet(T)
    BY TasksAreFinite, FS_Subset
  <2>2. f \in Surjection(T, Old(p))
    BY DEF Surjection
  <2> QED
    BY <2>1, <2>2, FS_Surjection
<1> DEFINE recs == SetToSeq(Old(p))
<1>5. /\ recs \in Seq(Old(p)) /\ DOMAIN recs = 1 .. Len(recs) /\ Len(recs) \in Nat
      /\ \A i, j \in 1 .. Len(recs) : recs[i] = recs[j] => i = j
      /\ \A x \in Old(p) : \E i \in 1 .. Len(recs) : recs[i] = x
  <2> HIDE DEF Old
  <2>1. /\ recs \in Seq(Old(p)) /\ DOMAIN recs = 1 .. Cardinality(Old(p))
        /\ Len(recs) = Cardinality(Old(p)) /\ Cardinality(Old(p)) \in Nat
        /\ \A i, j \in DOMAIN recs : recs[i] = recs[j] => i = j
        /\ \A x \in Old(p) : \E i \in DOMAIN recs : recs[i] = x
    BY <1>4, SetToSeqLists, FS_CardinalityType
  <2> QED
    BY <2>1
<1> HIDE DEF recs
<1>6. \A x \in Old(p) :
        /\ x \in Records /\ disk[x.task] = x.outcome /\ Restored(p, x.task)
  BY <1>1 DEF Rec, Restored, Records
<1>7. \A i \in 1 .. Len(recs) : recs[i] \in Old(p)
  BY <1>5, ElementOfSeq
<1>8. recs \in Seq(Records) /\ bench'.recs = recs
  <2>1. \A i \in 1 .. Len(recs) : recs[i] \in Records
    BY <1>6, <1>7
  <2> QED
    BY <1>3, <1>5, <2>1, SeqDef DEF recs
<1>9. \A i, j \in 1 .. Len(recs) : recs[i].task = recs[j].task => i = j
  <2>1. \A x, y \in Old(p) : x.task = y.task => x = y
    BY DEF Rec
  <2> QED
    BY <1>5, <1>7, <2>1
<1>10. \A t \in Tasks : Restored(p, t) => Skipped(p, t)
  BY DEF Restored, Skipped
<1>11. \A i \in 1 .. Len(recs) : recs[i].task # "none" /\ recs[i].task \notin Todo(p)
  BY <1>6, <1>7, <1>10, TasksAreFinite DEF Records
<1>12. p = "A" => \A t \in Tasks : t \in Todo(p) \/ \E i \in DOMAIN recs : recs[i].task = t
  <2> SUFFICES ASSUME p = "A", NEW t \in Tasks, t \notin Todo(p)
               PROVE  \E i \in DOMAIN recs : recs[i].task = t
    OBVIOUS
  <2>1. Restored(p, t)
    BY DEF Skipped, Restored
  <2>2. Rec(t, disk[t]) \in Old(p) /\ Rec(t, disk[t]).task = t
    BY <2>1 DEF Rec
  <2> QED
    BY <1>5, <2>2
<1> HIDE DEF Old, Todo
<1>13. bench' \in Steps
  <2>1. Todo(p) \in SUBSET Tasks
    BY DEF Todo
  <2> QED
    BY <1>3, <1>8, <2>1 DEF Steps, BenchPcs
<1>14. BenchTypeOK'
  BY <1>1, <1>3 DEF BenchInv, BenchTypeOK
<1>15. ~InTask' /\ bench'.cur \notin bench'.todo
  BY <1>3, TasksAreFinite DEF InTask, Todo
<1>16. live' \subseteq cut' /\ sessions' # 0
  BY <1>1, <1>3 DEF BenchInv
<1>17. \A i \in 1 .. Len(recs) : disk[recs[i].task] = recs[i].outcome
  BY <1>6, <1>7
<1> QED
  BY <1>3, <1>8, <1>9, <1>11, <1>12, <1>13, <1>14, <1>15, <1>16, <1>17 DEF BenchInv, Counted

(* The task that is taken up is counted nowhere yet.                       *)
LEMMA NextTaskIsRight ==
  ASSUME BenchInv, NextTask
  PROVE  BenchInv'
<1>1. /\ bench \in Steps /\ bench.pc = "next" /\ bench.cur = "none"
      /\ Standing("next") = {} /\ "none" \notin Tasks
  BY TasksAreFinite DEF BenchInv, NextTask, At, InTask, Standing
<1>2. PICK t \in bench.todo :
        bench' = [bench EXCEPT !.pc = "repo", !.cur = t, !.todo = @ \ {t}, !.laps = 0,
                               !.out = "none"]
  BY DEF NextTask
<1>3. /\ disk' = disk /\ clone' = clone /\ live' = live /\ cut' = cut
      /\ mishaps' = mishaps /\ sessions' = sessions
  BY DEF NextTask, Outside, Books
<1>4. t \in Tasks /\ bench.todo \subseteq Tasks
  BY <1>1, <1>2 DEF Steps
<1>5. /\ bench'.pc = "repo" /\ bench'.cur = t /\ bench'.todo = bench.todo \ {t}
      /\ bench'.path = bench.path /\ bench'.recs = bench.recs /\ bench' \in Steps
  BY <1>1, <1>2, <1>4 DEF Steps, BenchPcs
<1>6. BenchTypeOK' /\ live' \subseteq cut' /\ sessions' # 0
  BY <1>1, <1>3 DEF BenchInv, BenchTypeOK
<1>7. /\ \A i \in 1 .. Len(bench'.recs) :
           bench'.recs[i].task # bench'.cur /\ bench'.recs[i].task \notin bench'.todo
      /\ bench'.cur \notin bench'.todo
  BY <1>2, <1>5 DEF BenchInv
<1>8. bench'.path = "A" =>
        \A u \in Tasks : u \in bench'.todo \/ u = bench'.cur \/ Counted(u)'
  BY <1>1, <1>4, <1>5 DEF BenchInv, Counted
<1>9. /\ \A i, j \in 1 .. Len(bench'.recs) : bench'.recs[i].task = bench'.recs[j].task => i = j
      /\ \A i \in 1 .. Len(bench'.recs) :
           bench'.recs[i].outcome # "harness_error"
             => disk'[bench'.recs[i].task] = bench'.recs[i].outcome
      /\ bench'.path # "none"
  BY <1>1, <1>3, <1>5 DEF BenchInv
<1>10. InTask' /\ bench'.cur # "none"
  BY <1>1, <1>4, <1>5 DEF InTask
<1> QED
  BY <1>5, <1>6, <1>7, <1>8, <1>9, <1>10 DEF BenchInv

(* What a session has when it leaves a task, or ends, is accounted for.    *)
LEMMA LeavesIsRight ==
  ASSUME BenchInv, bench.pc # "idle", NEW ends, Leaves(ends)
  PROVE  /\ live' \subseteq cut'
         /\ cut' \subseteq {"ws", "run", "sampler"} \X Tasks \X (1 .. MaxSessions)
<1> DEFINE Things == {"ws", "run", "sampler"} \X Tasks \X (1 .. MaxSessions)
<1>1. PICK made \in SUBSET InFlight :
        /\ live' = {l \in live \cup made : l[1] \notin ends}
        /\ cut' = cut \cup made \cup {l \in live : l[2] = bench.cur /\ l[3] = sessions}
  BY DEF Leaves
<1>2. InFlight \subseteq Things
  <2>1. sessions \in 1 .. MaxSessions
    BY BenchConstants DEF BenchInv, BenchTypeOK
  <2>2. InTask => bench.cur \in Tasks
    BY DEF BenchInv, Steps
  <2> QED
    BY <2>1, <2>2 DEF InFlight, Mine, At, InTask
<1>3. live \subseteq Things /\ cut \subseteq Things
  BY DEF BenchInv, BenchTypeOK
<1>4. live \subseteq cut'
  BY <1>1 DEF BenchInv
<1> HIDE DEF Things
<1>5. live' \subseteq cut' /\ cut' \subseteq Things
  BY <1>1, <1>2, <1>3, <1>4
<1> QED
  BY <1>5 DEF Things

(* The memory of a session that has not begun.                             *)
LEMMA NoTaskIsTyped ==
  ASSUME NEW p \in {"none", "A", "B"}
  PROVE  [NoTask EXCEPT !.path = p] \in Steps
<1> DEFINE nothing == <<>>
<1>1. nothing \in Seq(Records) /\ {} \in SUBSET Tasks /\ "idle" \in BenchPcs
  BY DEF BenchPcs
<1>2. NoTask = [path |-> "none", pc |-> "idle", todo |-> {}, cur |-> "none", laps |-> 0,
                out |-> "none", recs |-> nothing]
  BY Zenon DEF NoTask
<1> HIDE DEF nothing
<1> QED
  BY <1>1, <1>2 DEF Steps

(* A session that is over has nothing in memory, and only its path is      *)
(* known to the next one.                                                  *)
LEMMA SessionIsOver ==
  ASSUME BenchInv, bench.pc # "idle", bench' = [NoTask EXCEPT !.path = bench.path],
         BenchTypeOK', live' \subseteq cut'
  PROVE  BenchInv'
<1>1. /\ bench'.path = bench.path /\ bench'.pc = "idle" /\ bench'.todo = {}
      /\ bench'.cur = "none" /\ bench'.laps = 0 /\ bench'.out = "none" /\ bench'.recs = <<>>
  BY DEF NoTask
<1>2. bench.path \in {"none", "A", "B"} /\ bench.path # "none"
  BY DEF BenchInv, Steps
<1>3. bench' \in Steps
  BY <1>2, NoTaskIsTyped
<1>4. ~InTask' /\ Len(bench'.recs) = 0
  BY <1>1 DEF InTask
<1> QED
  BY <1>1, <1>2, <1>3, <1>4 DEF BenchInv

(* A session ends at the end of its list, by a key or by a kill.           *)
LEMMA SessionsEndRight ==
  ASSUME BenchInv, SessionEnds \/ Interrupted \/ Killed
  PROVE  BenchInv'
<1>1. bench.pc # "idle" /\ bench' = [NoTask EXCEPT !.path = bench.path]
  BY DEF SessionEnds, Interrupted, Killed, Ended, At, InTask
<1>2. clone' = clone /\ sessions' = sessions /\ mishaps' \in 0 .. MaxMishaps
  <2>1. mishaps \in 0 .. MaxMishaps /\ MaxMishaps \in Nat
    BY BenchConstants DEF BenchInv, BenchTypeOK
  <2> QED
    BY <2>1 DEF SessionEnds, Interrupted, Killed, Ended, Mishap
<1>3. /\ live' \subseteq cut'
      /\ cut' \subseteq {"ws", "run", "sampler"} \X Tasks \X (1 .. MaxSessions)
  <2>1. CASE SessionEnds
    BY <2>1 DEF BenchInv, BenchTypeOK, SessionEnds, At, Standing
  <2>2. CASE Interrupted \/ Killed
    <3>1. Leaves({"sampler"})
      BY <2>2 DEF Interrupted, Killed
    <3> QED
      BY <1>1, <3>1, LeavesIsRight
  <2> QED
    BY <2>1, <2>2
<1>4. disk' \in [Tasks -> {"none", "torn", "pass", "fail"}]
  BY DEF BenchInv, BenchTypeOK, SessionEnds, Interrupted, Killed
<1>5. BenchTypeOK'
  BY <1>2, <1>3, <1>4 DEF BenchInv, BenchTypeOK
<1> QED
  BY <1>1, <1>2, <1>3, <1>5, SessionIsOver

(* A record of the task at hand is the first of that task, and what the    *)
(* directory holds.                                                        *)
LEMMA TasksEndRight ==
  ASSUME BenchInv, RecordWritten \/ TaskRaises
  PROVE  BenchInv'
<1>1. PICK o \in {"pass", "fail", "harness_error"} :
        /\ Kept(o)
        /\ IF o = "harness_error" THEN disk' = disk ELSE disk' = [disk EXCEPT ![bench.cur] = o]
  <2>1. CASE RecordWritten
    <3>1. bench.out \in {"pass", "fail"}
      BY <2>1 DEF BenchInv, Steps, RecordWritten, At
    <3> QED
      BY <2>1, <3>1 DEF RecordWritten
  <2>2. CASE TaskRaises
    BY <2>2 DEF TaskRaises
  <2> QED
    BY <2>1, <2>2
<1>2. InTask /\ bench.cur \in Tasks /\ bench \in Steps /\ bench.path # "none"
  BY DEF BenchInv, Steps, RecordWritten, TaskRaises, At, InTask
<1>3. clone' = clone /\ sessions' = sessions /\ sessions # 0 /\ mishaps' \in 0 .. MaxMishaps
  <2>1. mishaps \in 0 .. MaxMishaps /\ MaxMishaps \in Nat
    BY BenchConstants DEF BenchInv, BenchTypeOK
  <2> QED
    BY <1>2, <2>1 DEF RecordWritten, TaskRaises, Outside, Mishap, BenchInv, InTask
<1>4. /\ live' \subseteq cut'
      /\ cut' \subseteq {"ws", "run", "sampler"} \X Tasks \X (1 .. MaxSessions)
  <2>1. CASE RecordWritten
    BY <2>1 DEF BenchInv, BenchTypeOK, RecordWritten, Outside, At, Standing
  <2>2. CASE TaskRaises
    <3>1. Leaves({}) /\ bench.pc # "idle"
      BY <1>2, <2>2 DEF TaskRaises, InTask
    <3> QED
      BY <3>1, LeavesIsRight
  <2> QED
    BY <2>1, <2>2
<1>5. BenchTypeOK'
  BY <1>1, <1>2, <1>3, <1>4 DEF BenchInv, BenchTypeOK
<1> DEFINE old == bench.recs
           new == Append(old, Rec(bench.cur, o))
<1>6. /\ bench'.path = bench.path /\ bench'.pc = "next" /\ bench'.todo = bench.todo
      /\ bench'.cur = "none" /\ bench'.laps = bench.laps /\ bench'.out = "none"
      /\ bench'.recs = new
  BY <1>1, <1>2 DEF Kept, Steps
<1>7. old \in Seq(Records) /\ Rec(bench.cur, o) \in Records
  BY <1>2 DEF Steps, Rec, Records
<1>8. /\ new \in Seq(Records) /\ Len(new) = Len(old) + 1 /\ Len(old) \in Nat
      /\ \A i \in 1 .. Len(old) : new[i] = old[i]
      /\ new[Len(old) + 1].task = bench.cur /\ new[Len(old) + 1].outcome = o
  BY <1>7, AppendProperties, LenProperties DEF Rec
<1> HIDE DEF new
<1>9. bench' \in Steps
  BY <1>1, <1>2, <1>6, <1>8 DEF Kept, Steps, BenchPcs, new
<1>10. \A i \in 1 .. Len(new) : i \in 1 .. Len(old) \/ i = Len(old) + 1
  BY <1>8
<1>11. \A i \in 1 .. Len(old) : old[i] \in Records
  BY <1>7, <1>8, ElementOfSeq
<1>12. \A i \in 1 .. Len(new) : new[i].task \in Tasks /\ new[i].task \notin bench.todo
  BY <1>2, <1>8, <1>10, <1>11 DEF BenchInv, Records
<1>13. \A i, j \in 1 .. Len(new) : new[i].task = new[j].task => i = j
  <2>1. \A i, j \in 1 .. Len(old) : old[i].task = old[j].task => i = j
    BY DEF BenchInv
  <2>2. \A i \in 1 .. Len(old) : new[i].task # bench.cur
    BY <1>8 DEF BenchInv
  <2> HIDE DEF old
  <2> QED
    BY <1>8, <1>10, <2>1, <2>2
<1>14. \A i \in 1 .. Len(new) :
         new[i].outcome # "harness_error" => disk'[new[i].task] = new[i].outcome
  <2>1. disk \in [Tasks -> {"none", "torn", "pass", "fail"}]
    BY DEF BenchInv, BenchTypeOK
  <2>2. CASE o = "harness_error"
    BY <1>1, <1>8, <1>10, <2>2 DEF BenchInv
  <2>3. CASE o # "harness_error"
    <3>1. \A i \in 1 .. Len(old) :
            /\ old[i].task # bench.cur /\ old[i].task \in Tasks
            /\ old[i].outcome # "harness_error" => disk[old[i].task] = old[i].outcome
      BY <1>11 DEF BenchInv, Records
    <3>2. disk'[bench.cur] = o /\ \A t \in Tasks \ {bench.cur} : disk'[t] = disk[t]
      BY <1>1, <1>2, <2>1, <2>3
    <3> HIDE DEF old
    <3> QED
      BY <1>8, <1>10, <3>1, <3>2
  <2> QED
    BY <2>2, <2>3
<1>15. bench'.path = "A" => \A t \in Tasks : t \in bench'.todo \/ Counted(t)'
  <2> SUFFICES ASSUME bench.path = "A", NEW t \in Tasks, t \notin bench.todo
               PROVE  \E i \in 1 .. Len(new) : new[i].task = t
    BY <1>6, <1>8 DEF Counted
  <2>1. t = bench.cur \/ \E i \in 1 .. Len(old) : old[i].task = t
    BY <1>2, <1>8 DEF BenchInv, InTask, Counted
  <2> QED
    BY <1>8, <2>1
<1>16. ~InTask' /\ "none" \notin Tasks /\ bench.todo \subseteq Tasks
  BY <1>2, <1>6, TasksAreFinite DEF InTask, Steps
<1> QED
  BY <1>2, <1>3, <1>4, <1>5, <1>6, <1>9, <1>12, <1>13, <1>14, <1>15, <1>16 DEF BenchInv

(* Before the first session there are no books.                            *)
LEMMA BenchStarts == BenchInit => BenchInv
<1> SUFFICES ASSUME BenchInit PROVE BenchInv
  OBVIOUS
<1>1. /\ bench = [path |-> "none", pc |-> "idle", todo |-> {}, cur |-> "none", laps |-> 0,
                  out |-> "none", recs |-> <<>>]
      /\ bench.pc = "idle" /\ bench.cur = "none" /\ bench.path = "none" /\ bench.todo = {}
      /\ bench.recs = <<>> /\ Len(bench.recs) = 0 /\ live = {}
  BY DEF BenchInit, NoTask
<1>2. bench \in Steps
  <2>1. bench = [NoTask EXCEPT !.path = "none"]
    BY DEF BenchInit, NoTask
  <2> QED
    BY <2>1, NoTaskIsTyped
<1>3. BenchTypeOK /\ sessions = 0 /\ ~InTask
  BY <1>1, BenchConstants DEF BenchInit, BenchTypeOK, InTask
<1> QED
  BY <1>1, <1>2, <1>3 DEF BenchInv

(* Every step of the sessions keeps the invariant.                         *)
LEMMA BenchStaysRight == BenchInv /\ [BenchNext]_benchVars => BenchInv'
<1> SUFFICES ASSUME BenchInv, [BenchNext]_benchVars PROVE BenchInv'
  OBVIOUS
<1>1. CASE UNCHANGED benchVars
  BY <1>1 DEF BenchInv, BenchTypeOK, benchVars, InTask, Counted
<1>2. CASE BenchNext
  BY <1>2, PathASteps, PathBSteps, AgentSteps, SessionStartsRight, NextTaskIsRight,
     SessionsEndRight, TasksEndRight DEF BenchNext
<1> QED
  BY <1>1, <1>2

(* In every run of the sessions: a file of the directory is a task's, and  *)
(* what is alive at the BFF is a task's workspace, run or sampler.         *)
THEOREM BenchTypeCorrect == BenchSpec => []BenchTypeOK
BY BenchStarts, BenchStaysRight, PTL DEF BenchSpec, BenchInv

(* Whatever is interrupted, killed or refused, and however often the       *)
(* directory is taken up again, no task is counted twice, what is counted  *)
(* is what the directory holds, path A misses none, and what is left at    *)
(* the BFF belongs to the task at hand or to one that was cut short        *)
(* (main and run_task of bench_pathF_swebench.py and bench_pathB.py).      *)
THEOREM SessionsBalanceTheirBooks == BenchSpec => []SessionsHold
<1>1. BenchInv => SessionsHold
  <2> SUFFICES ASSUME BenchInv PROVE SessionsHold
    OBVIOUS
  <2>1. bench.recs \in Seq(Records) /\ DOMAIN bench.recs = 1 .. Len(bench.recs)
    BY LenProperties DEF BenchInv, Steps
  <2>2. BooksBalance
    <3>1. At("next") => bench.cur = "none"
      BY DEF BenchInv, InTask, At
    <3> QED
      BY <2>1, <3>1, TasksAreFinite DEF BenchInv, BooksBalance, At
  <2>3. NothingLeftBehind
    BY DEF BenchInv, NothingLeftBehind
  <2> QED
    BY <2>2, <2>3 DEF SessionsHold
<1> QED
  BY <1>1, BenchStarts, BenchStaysRight, PTL DEF BenchSpec

-----------------------------------------------------------------------------
(***************************************************************************)
(* DashboardMetrics: a fetch in pages misses no run that stands and has    *)
(* none twice, while runs are created, end and are deleted.                *)
(***************************************************************************)

\* A row of a conversation, and what the agent-server may have under a number.
Row == [status : {"running", "finished", "error", "deleted"}, cost : Nat,
        model : {p[1] : p \in DashPlaces}, space : {p[2] : p \in DashPlaces},
        n : 1 .. MaxConvs, created : Nat, updated : Nat]
Fetch == [pc : {"idle", "page", "done"}, cursor : 0 .. MaxConvs, pages : Nat,
          out : Seq(Row), at : Nat, failed : BOOLEAN, seen : SUBSET (1 .. MaxConvs)]

NoneTwice(rows) == \A i, j \in 1 .. Len(rows) : rows[i].n = rows[j].n => i = j
Has(rows, c)    == \E i \in 1 .. Len(rows) : rows[i].n = c

\* Between two pages: what is above the cursor has been read, and every page before this one
\* was full.
PagesAreRead ==
  /\ NoneTwice(fetch.out)
  /\ \A i \in 1 .. Len(fetch.out) : fetch.out[i].n > fetch.cursor
  /\ \A c \in fetch.seen \cap Listed : c > fetch.cursor => Has(fetch.out, c)
  /\ fetch.pages * PageLimit <= Len(fetch.out)
  /\ fetch.pages <= FetchCap \div PageLimit

DashInv ==
  /\ now \in Nat /\ fetch \in Fetch
  /\ stored \in [1 .. MaxConvs -> Row \cup {Absent}]
  /\ \A c \in Live : stored[c] \in Row /\ stored[c].n = c
  /\ fetch.seen \subseteq Live
  /\ fetch.pc = "page" => PagesAreRead
  /\ fetch.pc = "done" =>
       /\ NoneTwice(fetch.out)
       /\ fetch.failed \/ Len(fetch.out) = FetchCap
          \/ \A c \in fetch.seen \cap Listed : Has(fetch.out, c)

\* A page is full unless it is the last one, and what follows it is below.
PageIsRight(items, next, cursor) ==
  /\ items \subseteq Listed /\ (\A c \in items : c <= cursor)
  /\ IsFiniteSet(items)
  /\ next \in 0 .. MaxConvs /\ next <= cursor
  /\ \A c \in Listed : c <= cursor /\ c > next => c \in items
  /\ next # 0 => PageLimit <= Cardinality(items)
  /\ \A c \in items : c > next

(* What PageOf gives is such a page.                                       *)
LEMMA PageIsTheNewest ==
  ASSUME DashInv, NEW cursor \in 0 .. MaxConvs
  PROVE  PageIsRight(PageOf(cursor).items, PageOf(cursor).next, cursor)
<1> DEFINE items == PageOf(cursor).items
           next == PageOf(cursor).next
           from == {c \in Listed : c <= cursor}
           above(c) == {d \in from : d > c}
           rest == from \ items
<1> SUFFICES PageIsRight(items, next, cursor)
  OBVIOUS
<1>1. /\ items = {c \in from : Cardinality(above(c)) < PageLimit}
      /\ next = IF items = from THEN 0 ELSE Max(rest)
  BY DEF PageOf
<1> HIDE DEF items, next
<1>2. /\ Listed \subseteq 1 .. MaxConvs /\ MaxConvs \in Nat /\ PageLimit \in Nat \ {0}
      /\ IsFiniteSet(1 .. MaxConvs)
  BY DashConstants, FS_Interval DEF Listed, Live
<1>3. /\ IsFiniteSet(from) /\ IsFiniteSet(items)
      /\ items \subseteq from /\ from \subseteq 1 .. MaxConvs
  BY <1>1, <1>2, FS_Subset
<1>4. \A c \in from : IsFiniteSet(above(c)) /\ Cardinality(above(c)) \in Nat
  BY <1>3, FS_Subset, FS_CardinalityType
<1>5. CASE items = from
  BY <1>1, <1>2, <1>3, <1>5 DEF PageIsRight
<1>6. CASE items # from
  <2>1. rest # {} /\ rest \subseteq 0 .. MaxConvs
    BY <1>3, <1>6
  <2>2. next \in rest /\ \A k \in rest : k <= next
    <3>1. next = Max(rest)
      BY <1>1, <1>6
    <3> HIDE DEF rest
    <3> QED
      BY <1>2, <2>1, <3>1, MaxOfBounded
  <2>3. next \in from /\ ~ (Cardinality(above(next)) < PageLimit)
    BY <1>1, <2>2
  <2>4. above(next) \subseteq items
    BY <1>2, <1>3, <2>2
  <2>5. Cardinality(above(next)) <= Cardinality(items) /\ Cardinality(items) \in Nat
    BY <1>3, <2>4, FS_Subset, FS_CardinalityType
  <2>6. PageLimit <= Cardinality(items)
    BY <1>2, <1>4, <2>3, <2>5, SMTT(40)
  <2>7. ASSUME NEW c \in items, ~ (c > next)
        PROVE  FALSE
    <3>1. c \in from /\ c < next
      BY <1>2, <1>3, <2>2, <2>7
    <3>2. above(next) \subseteq above(c)
      BY <1>2, <1>3, <2>3, <3>1
    <3>3. Cardinality(above(next)) <= Cardinality(above(c))
      BY <1>4, <3>1, <3>2, FS_Subset
    <3>4. Cardinality(above(c)) < PageLimit
      BY <1>1
    <3>5. /\ Cardinality(above(c)) \in Nat /\ Cardinality(above(next)) \in Nat
          /\ ~ (Cardinality(above(next)) < PageLimit)
      BY <1>4, <2>3, <3>1
    <3> HIDE DEF above
    <3> QED
      BY <1>2, <3>3, <3>4, <3>5
  <2> QED
    BY <1>2, <1>3, <2>2, <2>3, <2>6, <2>7 DEF PageIsRight
<1> QED
  BY <1>5, <1>6

(* The rows of a page are the records of its conversations, each once.     *)
LEMMA RowsOfAPage ==
  ASSUME DashInv, NEW items, items \subseteq Live, IsFiniteSet(items)
  PROVE  /\ RowsOf(items) \in Seq(Row) /\ Len(RowsOf(items)) = Cardinality(items)
         /\ NoneTwice(RowsOf(items))
         /\ \A i \in 1 .. Len(RowsOf(items)) :
              /\ RowsOf(items)[i].n \in items
              /\ RowsOf(items)[i] = stored[RowsOf(items)[i].n]
         /\ \A c \in items : Has(RowsOf(items), c)
<1> DEFINE order == SetToSeq(items)
           n == Cardinality(items)
           rows == RowsOf(items)
<1>1. /\ order \in Seq(items) /\ DOMAIN order = 1 .. n /\ Len(order) = n /\ n \in Nat
      /\ \A i, j \in 1 .. n : order[i] = order[j] => i = j
      /\ \A x \in items : \E i \in 1 .. n : order[i] = x
  <2>1. DOMAIN order = 1 .. n /\ n \in Nat
    BY SetToSeqLists, FS_CardinalityType
  <2> QED
    BY <2>1, SetToSeqLists
<1>2. rows = [i \in 1 .. n |-> stored[order[i]]]
  BY <1>1 DEF RowsOf
<1> HIDE DEF order, rows
<1>3. \A i \in 1 .. n : order[i] \in items
  BY <1>1, ElementOfSeq
<1>4. \A i \in 1 .. n : rows[i] \in Row /\ rows[i].n = order[i]
  BY <1>2, <1>3 DEF DashInv
<1>5. rows \in Seq(Row) /\ Len(rows) = n
  <2>1. rows \in [1 .. n -> Row]
    BY <1>2, <1>4
  <2> QED
    BY <1>1, <2>1, SeqDef, LenProperties
<1>6. NoneTwice(rows) /\ (\A i \in 1 .. n : rows[i].n \in items) /\ \A c \in items : Has(rows, c)
  BY <1>1, <1>3, <1>4, <1>5 DEF NoneTwice, Has
<1>7. \A i \in 1 .. n : rows[i] = stored[rows[i].n]
  BY <1>2, <1>4
<1> QED
  BY <1>5, <1>6, <1>7 DEF rows

(* The division of the number of pages.                                    *)
LEMMA PagesFillTheCap ==
  ASSUME NEW a \in Nat, NEW b \in Nat \ {0}
  PROVE  a < (a \div b) * b + b /\ a \div b \in Nat
OBVIOUS

(* Before the first fetch nothing has been read.                           *)
LEMMA DashStarts == DashInit => DashInv
<1> SUFFICES ASSUME DashInit PROVE DashInv
  OBVIOUS
<1>1. /\ fetch.pc = "idle" /\ fetch.seen = {} /\ fetch.out = <<>>
      /\ fetch = [pc |-> "idle", cursor |-> 0, pages |-> 0, out |-> <<>>, at |-> 0,
                  failed |-> FALSE, seen |-> {}]
  BY DEF DashInit, NoFetch
<1>2. fetch \in Fetch
  <2> DEFINE nothing == <<>>
  <2>1. nothing \in Seq(Row) /\ 0 \in 0 .. MaxConvs /\ {} \in SUBSET (1 .. MaxConvs)
    BY DashConstants
  <2>2. fetch = [pc |-> "idle", cursor |-> 0, pages |-> 0, out |-> nothing, at |-> 0,
                 failed |-> FALSE, seen |-> {}]
    BY <1>1
  <2> HIDE DEF nothing
  <2> QED
    BY <2>1, <2>2 DEF Fetch
<1> QED
  BY <1>1, <1>2 DEF DashInit, DashInv, Live, Absent

(* What happens at the agent-server takes nothing from what a fetch has    *)
(* read: a run that was there stays a row with its number, and only a      *)
(* deletion makes it not listed.                                           *)
LEMMA WorldMoves ==
  ASSUME DashInv, Awaiting, UNCHANGED fetch, now' \in Nat,
         stored' \in [1 .. MaxConvs -> Row \cup {Absent}],
         \A c \in Live' : stored'[c] \in Row /\ stored'[c].n = c,
         Live \subseteq Live', Listed' \cap Live \subseteq Listed
  PROVE  DashInv'
<1>1. fetch' = fetch /\ fetch.pc # "done" /\ fetch.seen \subseteq Live'
  BY DEF DashInv, Awaiting
<1>2. fetch.seen \cap Listed' \subseteq fetch.seen \cap Listed
  BY DEF DashInv
<1>3. fetch.pc = "page" => PagesAreRead'
  BY <1>1, <1>2 DEF DashInv, PagesAreRead
<1> QED
  BY <1>1, <1>3 DEF DashInv

(* The clock and the runs that come, end and go.                           *)
LEMMA WorldIsRight ==
  ASSUME DashInv, Tick \/ ConvCreated \/ ConvEnds \/ ConvDeleted
  PROVE  DashInv'
<1>1. CASE Tick
  <2>1. Live' = Live /\ Listed' = Listed /\ stored' = stored /\ now' \in Nat /\ fetch' = fetch
    BY <1>1 DEF Tick, Live, Listed, DashInv
  <2> QED
    BY <1>1, <2>1, WorldMoves DEF DashInv, Tick
<1>2. CASE ConvCreated
  <2>1. PICK c \in 1 .. MaxConvs, place \in DashPlaces :
          /\ stored[c] = Absent
          /\ stored' = [stored EXCEPT ![c] =
               [status |-> "running", cost |-> 1, model |-> place[1], space |-> place[2],
                n |-> c, created |-> now, updated |-> now]]
    BY <1>2 DEF ConvCreated
  <2> DEFINE row == [status |-> "running", cost |-> 1, model |-> place[1], space |-> place[2],
                     n |-> c, created |-> now, updated |-> now]
  <2>2. row \in Row /\ row.n = c /\ row.status = "running"
    BY DEF Row, DashInv
  <2> HIDE DEF row
  <2>3. stored' = [stored EXCEPT ![c] = row]
    BY <2>1 DEF row
  <2>4. stored' \in [1 .. MaxConvs -> Row \cup {Absent}]
    BY <2>2, <2>3 DEF DashInv
  <2>5. stored'[c] = row /\ \A d \in 1 .. MaxConvs : d # c => stored'[d] = stored[d]
    BY <2>3 DEF DashInv
  <2>6. c \notin Live
    BY <2>1 DEF Live, Absent
  <2>7. Live' = Live \cup {c}
    BY <2>2, <2>5, <2>6 DEF Live
  <2>8. Listed' \cap Live \subseteq Listed
    BY <2>5, <2>6 DEF Listed, Live
  <2>9. \A d \in Live' : stored'[d] \in Row /\ stored'[d].n = d
    BY <2>2, <2>5, <2>7 DEF DashInv, Live
  <2> QED
    BY <1>2, <2>4, <2>7, <2>8, <2>9, WorldMoves DEF ConvCreated, DashInv
<1>3. CASE ConvEnds \/ ConvDeleted
  <2>1. PICK c \in Live, row \in Row :
          /\ row.n = c
          /\ row.status \in {"finished", "error", "deleted"}
          /\ stored[c].status # "deleted"
          /\ stored' = [stored EXCEPT ![c] = row]
    <3>1. CASE ConvEnds
      <4>1. PICK c \in Live, status \in {"finished", "error"} :
              /\ stored[c].status = "running"
              /\ stored' = [stored EXCEPT ![c].status = status, ![c].cost = 2, ![c].updated = now]
        BY <3>1 DEF ConvEnds
      <4> DEFINE row == [stored[c] EXCEPT !.status = status, !.cost = 2, !.updated = now]
      <4>2. stored[c] \in Row /\ stored[c].n = c /\ now \in Nat /\ c \in 1 .. MaxConvs
            /\ stored \in [1 .. MaxConvs -> Row \cup {Absent}]
        BY DEF DashInv, Live
      <4>3. row \in Row /\ row.n = c /\ row.status = status
        BY <4>2 DEF Row
      <4>4. stored' = [stored EXCEPT ![c] = row]
        BY <4>1, <4>2
      <4> HIDE DEF row
      <4> QED
        BY <4>1, <4>3, <4>4
    <3>2. CASE ConvDeleted
      <4>1. PICK c \in Live :
              /\ stored[c].status \notin {"running", "deleted"}
              /\ stored' = [stored EXCEPT ![c].status = "deleted"]
        BY <3>2 DEF ConvDeleted
      <4> DEFINE row == [stored[c] EXCEPT !.status = "deleted"]
      <4>2. stored[c] \in Row /\ stored[c].n = c /\ c \in 1 .. MaxConvs
            /\ stored \in [1 .. MaxConvs -> Row \cup {Absent}]
        BY DEF DashInv, Live
      <4>3. row \in Row /\ row.n = c /\ row.status = "deleted"
        BY <4>2 DEF Row
      <4>4. stored' = [stored EXCEPT ![c] = row]
        BY <4>1, <4>2
      <4> HIDE DEF row
      <4> QED
        BY <4>1, <4>3, <4>4
    <3> QED
      BY <1>3, <3>1, <3>2
  <2>2. stored' \in [1 .. MaxConvs -> Row \cup {Absent}] /\ c \in 1 .. MaxConvs
    BY <2>1 DEF DashInv, Live
  <2>3. stored'[c] = row /\ \A d \in 1 .. MaxConvs : d # c => stored'[d] = stored[d]
    BY <2>1, <2>2 DEF DashInv
  <2>4. Live' = Live
    BY <2>1, <2>2, <2>3 DEF Live
  <2>5. Listed' \cap Live \subseteq Listed
    BY <2>1, <2>3, <2>4 DEF Listed, Live
  <2>6. \A d \in Live' : stored'[d] \in Row /\ stored'[d].n = d
    BY <2>1, <2>3, <2>4, SMTT(40) DEF DashInv, Live
  <2>7. Awaiting /\ UNCHANGED fetch /\ now' \in Nat
    BY <1>3 DEF ConvEnds, ConvDeleted, DashInv
  <2> QED
    BY <2>2, <2>4, <2>5, <2>6, <2>7, WorldMoves
<1> QED
  BY <1>1, <1>2, <1>3

(* A fetch that is cut off at the cap has the cap, and none twice.         *)
LEMMA CappedRows ==
  ASSUME NEW out \in Seq(Row), NoneTwice(out)
  PROVE  /\ Capped(out) \in Seq(Row) /\ NoneTwice(Capped(out))
         /\ Capped(out) = out \/ Len(Capped(out)) = FetchCap
<1>1. CASE Len(out) > FetchCap
  <2>1. /\ Capped(out) = SubSeq(out, 1, FetchCap) /\ FetchCap \in Nat
        /\ \A i \in 1 .. FetchCap : out[i] \in Row
    BY <1>1, DashConstants, LenProperties, ElementOfSeq DEF Capped
  <2>2. /\ SubSeq(out, 1, FetchCap) \in Seq(Row)
        /\ Len(SubSeq(out, 1, FetchCap)) = FetchCap
        /\ \A i \in 1 .. FetchCap : SubSeq(out, 1, FetchCap)[i] = out[i]
    <3>1. /\ SubSeq(out, 1, FetchCap) \in Seq(Row)
          /\ Len(SubSeq(out, 1, FetchCap)) = IF 1 <= FetchCap THEN FetchCap - 1 + 1 ELSE 0
          /\ \A i \in 1 .. FetchCap - 1 + 1 : SubSeq(out, 1, FetchCap)[i] = out[1 + i - 1]
      BY <2>1, SubSeqProperties
    <3>2. \A i \in 1 .. FetchCap : i \in 1 .. FetchCap - 1 + 1 /\ 1 + i - 1 = i
      BY <2>1
    <3> QED
      BY <2>1, <3>1, <3>2
  <2>3. 1 .. FetchCap \subseteq 1 .. Len(out)
    BY <1>1, <2>1, LenProperties
  <2> QED
    BY <2>1, <2>2, <2>3 DEF NoneTwice
<1>2. CASE ~ (Len(out) > FetchCap)
  BY <1>2 DEF Capped
<1> QED
  BY <1>1, <1>2

(* A page is added to what has been read, and is the last one or not.      *)
LEMMA PageReadIsRight ==
  ASSUME DashInv, PageRead
  PROVE  DashInv'
<1> DEFINE items == PageOf(fetch.cursor).items
           next == PageOf(fetch.cursor).next
           rows == RowsOf(items)
           old == fetch.out
           out == old \o rows
           over == next = 0 \/ Len(out) >= FetchCap \/ fetch.pages = FetchCap \div PageLimit
           done == [fetch EXCEPT !.pc = "done", !.out = Capped(out), !.at = now]
           more == [fetch EXCEPT !.cursor = next, !.out = out, !.pages = @ + 1]
<1>1. /\ fetch.pc = "page" /\ stored' = stored /\ now' = now
      /\ fetch' = IF over THEN done ELSE more
  BY DEF PageRead
<1>2. /\ fetch \in Fetch /\ now \in Nat /\ PagesAreRead /\ old \in Seq(Row) /\ Len(old) \in Nat
      /\ fetch.cursor \in 0 .. MaxConvs /\ fetch.pages \in Nat
      /\ MaxConvs \in Nat /\ PageLimit \in Nat \ {0} /\ FetchCap \in Nat
      /\ Listed \subseteq Live /\ Live \subseteq 1 .. MaxConvs /\ fetch.seen \subseteq Live
  BY <1>1, DashConstants, LenProperties DEF DashInv, Fetch, Listed, Live
<1>3. /\ items \subseteq Listed /\ (\A c \in items : c <= fetch.cursor)
      /\ IsFiniteSet(items) /\ next \in 0 .. MaxConvs /\ next <= fetch.cursor
      /\ \A c \in Listed : c <= fetch.cursor /\ c > next => c \in items
      /\ next # 0 => PageLimit <= Cardinality(items)
      /\ \A c \in items : c > next
  <2>1. PageIsRight(items, next, fetch.cursor)
    BY <1>2, PageIsTheNewest
  <2> HIDE DEF items, next
  <2> QED
    BY <2>1 DEF PageIsRight
<1> HIDE DEF items, next
<1>4. /\ rows \in Seq(Row) /\ Len(rows) = Cardinality(items) /\ Len(rows) \in Nat
      /\ NoneTwice(rows) /\ (\A i \in 1 .. Len(rows) : rows[i].n \in items)
      /\ \A c \in items : Has(rows, c)
  <2>1. items \subseteq Live /\ IsFiniteSet(items) /\ Cardinality(items) \in Nat
    BY <1>2, <1>3, FS_CardinalityType
  <2> QED
    BY <2>1, RowsOfAPage
<1> HIDE DEF rows
<1> DEFINE cur == fetch.cursor
<1>5. /\ NoneTwice(old) /\ cur \in Nat
      /\ \A i \in 1 .. Len(old) : old[i].n > cur /\ old[i].n \in Nat
      /\ \A c \in fetch.seen \cap Listed : c > cur => Has(old, c)
      /\ fetch.pages * PageLimit <= Len(old)
  <2>1. \A i \in 1 .. Len(old) : old[i] \in Row
    BY <1>2, ElementOfSeq
  <2>2. \A r \in Row : r.n \in Nat
    BY DEF Row
  <2> QED
    BY <1>2, <2>1, <2>2 DEF PagesAreRead
<1>6. \A k \in 1 .. Len(rows) : rows[k].n <= cur /\ rows[k].n \in Nat /\ rows[k].n > next
  <2>1. \A c \in items : c <= cur /\ c \in Nat /\ c > next
    BY <1>2, <1>3
  <2> QED
    BY <1>4, <2>1
<1>7. /\ out \in Seq(Row) /\ Len(out) = Len(old) + Len(rows)
      /\ \A i \in 1 .. Len(old) : i \in 1 .. Len(out) /\ out[i] = old[i]
      /\ \A i \in 1 .. Len(rows) : Len(old) + i \in 1 .. Len(out) /\ out[Len(old) + i] = rows[i]
  <2> HIDE DEF old
  <2>1. /\ out \in Seq(Row) /\ Len(out) = Len(old) + Len(rows)
        /\ \A i \in 1 .. Len(old) + Len(rows) :
             out[i] = IF i <= Len(old) THEN old[i] ELSE rows[i - Len(old)]
    BY <1>2, <1>4, ConcatProperties
  <2>2. \A i \in 1 .. Len(rows) :
          /\ Len(old) + i \in 1 .. Len(old) + Len(rows) /\ ~ (Len(old) + i <= Len(old))
          /\ Len(old) + i - Len(old) = i
    BY <1>2, <1>4
  <2> HIDE DEF out
  <2> QED
    BY <1>2, <1>4, <2>1, <2>2
<1> HIDE DEF out, old, cur
<1>14. \A i \in 1 .. Len(out) :
         \/ i \in 1 .. Len(old) /\ out[i] = old[i]
         \/ \E k \in 1 .. Len(rows) : i = Len(old) + k /\ out[i] = rows[k]
  <2> SUFFICES ASSUME NEW i \in 1 .. Len(out), i \notin 1 .. Len(old)
               PROVE  \E k \in 1 .. Len(rows) : i = Len(old) + k
    BY <1>7
  <2>1. i - Len(old) \in 1 .. Len(rows) /\ i = Len(old) + (i - Len(old))
    BY <1>2, <1>4, <1>7
  <2> QED
    BY <2>1
<1>15. NoneTwice(out)
  <2>1. \A i \in 1 .. Len(old), k \in 1 .. Len(rows) : old[i].n # rows[k].n
    BY <1>5, <1>6
  <2> SUFFICES ASSUME NEW i \in 1 .. Len(out), NEW j \in 1 .. Len(out), out[i].n = out[j].n
               PROVE  i = j
    BY DEF NoneTwice
  <2>2. CASE i \in 1 .. Len(old) /\ out[i] = old[i]
    <3>1. j \in 1 .. Len(old) /\ out[j] = old[j]
      BY <1>14, <2>1, <2>2
    <3> QED
      BY <1>5, <2>2, <3>1 DEF NoneTwice
  <2>3. CASE \E k \in 1 .. Len(rows) : i = Len(old) + k /\ out[i] = rows[k]
    <3>1. \E k \in 1 .. Len(rows) : j = Len(old) + k /\ out[j] = rows[k]
      BY <1>14, <2>1, <2>3
    <3> QED
      BY <1>4, <2>3, <3>1 DEF NoneTwice
  <2> QED
    BY <1>14, <2>2, <2>3
<1>16. \A c \in Listed : c \in Nat /\ c > 0
  BY <1>2
<1>8. \A c \in fetch.seen \cap Listed : c > next => Has(out, c)
  <2> SUFFICES ASSUME NEW c \in fetch.seen \cap Listed, c > next PROVE Has(out, c)
    OBVIOUS
  <2>1. CASE c > cur
    <3>1. Has(old, c)
      BY <1>5, <2>1
    <3> QED
      BY <1>7, <3>1 DEF Has
  <2>2. CASE c <= cur
    <3>1. c \in items
      BY <1>3, <2>2 DEF cur
    <3>2. PICK k \in 1 .. Len(rows) : rows[k].n = c
      BY <1>4, <3>1 DEF Has
    <3> QED
      BY <1>7, <3>2 DEF Has
  <2>3. c \in Nat /\ cur \in Nat
    BY <1>5, <1>16
  <2> QED
    BY <2>1, <2>2, <2>3
<1>9. next # 0 => fetch.pages * PageLimit + PageLimit <= Len(out)
  <2>1. fetch.pages * PageLimit <= Len(old) /\ fetch.pages * PageLimit \in Nat
    BY <1>2, <1>5
  <2> DEFINE f == fetch.pages * PageLimit
  <2> HIDE DEF f
  <2>2. f <= Len(old) /\ f \in Nat
    BY <2>1 DEF f
  <2>3. next # 0 => f + PageLimit <= Len(out)
    BY <1>2, <1>3, <1>4, <1>7, <2>2
  <2> QED
    BY <2>3 DEF f
<1>10. \A i \in 1 .. Len(out) : out[i].n > next
  <2>1. \A i \in 1 .. Len(old) : old[i].n > next
    BY <1>2, <1>3, <1>5 DEF cur
  <2> QED
    BY <1>6, <1>14, <2>1
<1>11. Live' = Live /\ Listed' = Listed
  BY <1>1 DEF Live, Listed
<1>12. CASE over
  <2>1. /\ fetch'.pc = "done" /\ fetch'.seen = fetch.seen /\ fetch'.failed = fetch.failed
        /\ fetch'.out = Capped(out) /\ fetch' = done
    BY <1>1, <1>2, <1>12 DEF Fetch
  <2>2. /\ Capped(out) \in Seq(Row) /\ NoneTwice(Capped(out))
        /\ Capped(out) = out \/ Len(Capped(out)) = FetchCap
    BY <1>7, <1>15, CappedRows
  <2>3. fetch' \in Fetch
    BY <1>2, <2>1, <2>2 DEF Fetch
  <2>4. ASSUME Len(Capped(out)) # FetchCap
        PROVE  \A c \in fetch.seen \cap Listed : Has(Capped(out), c)
    <3>1. Capped(out) = out /\ ~ (Len(out) >= FetchCap)
      <4>1. Capped(out) = out /\ Len(out) \in Nat /\ Len(out) # FetchCap
        BY <1>2, <1>4, <1>7, <2>2, <2>4
      <4>2. Len(out) > FetchCap => Len(Capped(out)) = FetchCap
        <5>1. ASSUME Len(out) > FetchCap PROVE Len(SubSeq(out, 1, FetchCap)) = FetchCap
          BY <1>2, <1>7, <5>1, SubSeqProperties, ElementOfSeq
        <5> QED
          BY <5>1 DEF Capped
      <4> QED
        BY <1>2, <2>4, <4>1, <4>2
    <3>2. next = 0
      <4> SUFFICES ASSUME next # 0 PROVE FALSE
        OBVIOUS
      <4>1. fetch.pages = FetchCap \div PageLimit
        BY <1>12, <3>1
      <4>2. FetchCap < fetch.pages * PageLimit + PageLimit
        BY <1>2, <4>1, PagesFillTheCap
      <4>3. fetch.pages * PageLimit + PageLimit \in Nat /\ Len(out) \in Nat
        BY <1>2, <1>4, <1>7
      <4> QED
        BY <1>2, <1>9, <3>1, <4>2, <4>3
    <3> QED
      BY <1>8, <1>16, <3>1, <3>2
  <2> QED
    BY <1>1, <1>2, <1>11, <2>1, <2>2, <2>3, <2>4 DEF DashInv
<1>13. CASE ~over
  <2>1. /\ fetch'.pc = "page" /\ fetch'.seen = fetch.seen /\ fetch'.out = out
        /\ fetch'.cursor = next /\ fetch'.pages = fetch.pages + 1 /\ fetch' = more
    BY <1>1, <1>2, <1>13 DEF Fetch
  <2>2. fetch' \in Fetch
    <3>1. fetch.pages + 1 \in Nat /\ next \in 0 .. MaxConvs /\ out \in Seq(Row)
      BY <1>2, <1>3, <1>7
    <3> QED
      BY <1>2, <2>1, <3>1 DEF Fetch
  <2>3. fetch'.pages <= FetchCap \div PageLimit
    BY <1>2, <1>13, <2>1, PagesFillTheCap DEF PagesAreRead
  <2>4. fetch'.pages * PageLimit <= Len(out)
    <3>1. (fetch.pages + 1) * PageLimit = fetch.pages * PageLimit + PageLimit
      BY <1>2
    <3> QED
      BY <1>9, <1>13, <2>1, <3>1
  <2>5. PagesAreRead'
    BY <1>15, <1>8, <1>10, <1>11, <2>1, <2>3, <2>4 DEF PagesAreRead
  <2> QED
    BY <1>1, <1>2, <1>11, <2>1, <2>2, <2>5 DEF DashInv
<1> QED
  BY <1>12, <1>13

(* A fetch begins, fails or is served.                                     *)
LEMMA FetchIsRight ==
  ASSUME DashInv, DashRequested \/ PageFails \/ DashServed
  PROVE  DashInv'
<1> DEFINE nothing == <<>>
<1>0. /\ nothing \in Seq(Row) /\ Len(nothing) = 0 /\ 0 \in 0 .. MaxConvs
      /\ MaxConvs \in 0 .. MaxConvs
      /\ {} \in SUBSET (1 .. MaxConvs) /\ FetchCap \div PageLimit \in Nat
      /\ PageLimit \in Nat /\ Listed \subseteq Live /\ Live \subseteq 1 .. MaxConvs
  BY DashConstants, PagesFillTheCap DEF Listed, Live
<1>1. stored' = stored /\ now' = now /\ Live' = Live /\ Listed' = Listed
  BY DEF DashRequested, PageFails, DashServed, Live, Listed
<1>2. CASE DashRequested
  <2>1. fetch' = [pc |-> "page", cursor |-> MaxConvs, pages |-> 0, out |-> nothing, at |-> 0,
                  failed |-> FALSE, seen |-> Listed]
    BY <1>2 DEF DashRequested, NoFetch
  <2> HIDE DEF nothing
  <2>2. fetch' \in Fetch
    BY <1>0, <2>1 DEF Fetch
  <2>3. PagesAreRead'
    <3>1. /\ fetch'.out = nothing /\ fetch'.pages = 0 /\ fetch'.cursor = MaxConvs
          /\ fetch'.seen = Listed
      BY <2>1
    <3>2. \A c \in Listed : ~ (c > MaxConvs)
      BY <1>0, DashConstants
    <3>3. 0 * PageLimit = 0 /\ 0 <= FetchCap \div PageLimit
      BY <1>0
    <3>4. NoneTwice(nothing) /\ 1 .. Len(nothing) = {}
      BY <1>0 DEF NoneTwice
    <3>5. NoneTwice(fetch.out)' /\ \A c \in (fetch.seen \cap Listed)' : ~ (c > fetch'.cursor)
      BY <1>1, <3>1, <3>2, <3>4 DEF NoneTwice
    <3>6. fetch'.pages * PageLimit <= Len(fetch'.out) /\ fetch'.pages <= FetchCap \div PageLimit
      BY <1>0, <3>1, <3>3
    <3> QED
      BY <3>1, <3>4, <3>5, <3>6 DEF PagesAreRead
  <2> QED
    BY <1>0, <1>1, <2>1, <2>2, <2>3 DEF DashInv
<1>3. CASE PageFails
  <2>1. /\ fetch'.pc = "done" /\ fetch'.failed /\ fetch'.out = fetch.out
        /\ fetch'.seen = fetch.seen /\ fetch' \in Fetch
    BY <1>3 DEF PageFails, DashInv, Fetch
  <2>2. NoneTwice(fetch.out)
    BY <1>3 DEF PageFails, DashInv, PagesAreRead
  <2> QED
    BY <1>1, <2>1, <2>2 DEF DashInv
<1>4. CASE DashServed
  <2>1. fetch' = [pc |-> "idle", cursor |-> 0, pages |-> 0, out |-> nothing, at |-> 0,
                  failed |-> FALSE, seen |-> {}]
    BY <1>4 DEF DashServed, NoFetch
  <2> HIDE DEF nothing
  <2>2. fetch' \in Fetch
    BY <1>0, <2>1 DEF Fetch
  <2> QED
    BY <1>1, <2>1, <2>2 DEF DashInv
<1> QED
  BY <1>2, <1>3, <1>4

(* Every step keeps the invariant.                                         *)
LEMMA DashStaysRight == DashInv /\ [DashNext]_dashVars => DashInv'
<1> SUFFICES ASSUME DashInv, [DashNext]_dashVars PROVE DashInv'
  OBVIOUS
<1>1. CASE UNCHANGED dashVars
  BY <1>1 DEF DashInv, dashVars, Live, Listed, PagesAreRead
<1>2. CASE DashNext
  BY <1>2, WorldIsRight, PageReadIsRight, FetchIsRight DEF DashNext
<1> QED
  BY <1>1, <1>2

(* For every number of runs, size of a page and cap: whatever is created,  *)
(* ended or deleted between two pages of _fetch_all_conversations, no run  *)
(* is in the answer twice, and none that stood from the first page to the  *)
(* last is missing, unless the fetch failed or has the cap's number.       *)
THEOREM StandingRunsAreCounted == DashSpec => []EveryStandingRunCounted
<1>1. DashInv => EveryStandingRunCounted
  <2> SUFFICES ASSUME DashInv PROVE EveryStandingRunCounted
    OBVIOUS
  <2>1. DOMAIN fetch.out = 1 .. Len(fetch.out)
    BY LenProperties DEF DashInv, Fetch
  <2> QED
    BY <2>1 DEF DashInv, EveryStandingRunCounted, NoneTwice, Has
<1> QED
  BY <1>1, DashStarts, DashStaysRight, PTL DEF DashSpec

(* In every run of the dashboard: a fetch asks for no more pages than the  *)
(* cap has, and one more, and what is alive has a status.                  *)
THEOREM DashTypeCorrect == DashSpec => []DashTypeOK
<1> DEFINE FewPages == fetch.pages <= FetchCap \div PageLimit
<1>0. FetchCap \div PageLimit \in Nat
  BY DashConstants, PagesFillTheCap
<1>1. DashInit => FewPages
  BY <1>0 DEF DashInit, NoFetch
<1>2. ASSUME DashInv, DashInv', FewPages, [DashNext]_dashVars PROVE FewPages'
  <2>1. CASE fetch'.pc = "page"
    BY <1>2, <2>1 DEF DashInv, PagesAreRead
  <2>2. CASE fetch'.pc # "page" /\ (PageRead \/ PageFails)
    BY <1>2, <2>2, ZenonT(60) DEF PageRead, PageFails, DashInv, Fetch
  <2>3. CASE DashServed
    BY <1>0, <2>3 DEF DashServed, NoFetch
  <2>4. CASE Tick \/ ConvCreated \/ ConvEnds \/ ConvDeleted \/ UNCHANGED dashVars
    BY <1>2, <2>4 DEF Tick, ConvCreated, ConvEnds, ConvDeleted, dashVars
  <2>5. CASE DashRequested
    BY <1>0, <2>5 DEF DashRequested, NoFetch
  <2> QED
    BY <1>2, <2>1, <2>2, <2>3, <2>4, <2>5 DEF DashNext
<1>3. ASSUME DashInv, FewPages PROVE DashTypeOK
  BY <1>3 DEF DashInv, Fetch, Row, DashTypeOK
<1> QED
  BY <1>1, <1>2, <1>3, DashStarts, DashStaysRight, PTL DEF DashSpec
=============================================================================
