---------------------------- MODULE SidecarFile ----------------------------
(***************************************************************************)
(* The trajectory sidecar of one workspace (bff/services/sidecar.py): a    *)
(* JSON file with one slot per session, which create_run seeds and the     *)
(* relays update, from more than one process when a BFF is replaced while  *)
(* it runs.  A change is a read, a merge and a rename under a flock on a   *)
(* file beside it; the kernel frees the lock of a process that dies.       *)
(***************************************************************************)
EXTENDS Naturals

CONSTANTS
  Writers,          \* threads of BFF processes
  Sessions,         \* conversations that share the workspace
  MaxWrites,        \* bound: changes that are begun
  MaxSidecarFaults  \* bound: processes that die, disks that are full, files that cannot be read

\* A lock nobody holds is told from one that is held.
ASSUME WritersAndBounds ==
  /\ "free" \notin Writers
  /\ MaxWrites \in Nat /\ MaxSidecarFaults \in Nat

VARIABLES
  sidecar,   \* the file: per session its slot
  lockFile,  \* the inode the lock's name leads to, 0 if there is no such file
  lockOwner, \* per inode, the writer that holds its flock, or "free"
  writer,    \* per writer: [pc, inode, change, payload]
  tmpFiles,  \* temporary files on disk
  merged,    \* history: the file, had every change met the one before it
  writes, sidecarFaults

sidecarVars ==
  <<sidecar, lockFile, lockOwner, writer, tmpFiles, merged, writes, sidecarFaults>>

SlotFields   == {"task", "plan"}
Values    == {"", "prompt", "produced"}
EmptySlot == [f \in SlotFields |-> ""]
EmptyFile == [s \in Sessions |-> EmptySlot]
Inodes    == 0..MaxWrites

IdleWriter == [pc |-> "idle", inode |-> 0, change |-> [kind |-> "none"], payload |-> EmptyFile,
               fresh |-> FALSE]

SidecarInit ==
  /\ sidecar = EmptyFile /\ merged = EmptyFile /\ lockFile = 0
  /\ lockOwner = [i \in Inodes |-> "free"] /\ writer = [w \in Writers |-> IdleWriter]
  /\ tmpFiles = {} /\ writes = 0 /\ sidecarFaults = 0

SidecarFault == sidecarFaults < MaxSidecarFaults /\ sidecarFaults' = sidecarFaults + 1

\* seed_sidecar fills a task that is missing or empty; update_sidecar overwrites.
Applied(change, payload) ==
  IF change.kind = "seed"
  THEN [payload EXCEPT ![change.session].task = IF @ = "" THEN "prompt" ELSE @]
  ELSE [payload EXCEPT ![change.session][change.field] = change.value]

\* A change without fields or session returns before it comes here.
Changes ==
  [kind : {"seed"}, session : Sessions]
    \cup [kind : {"update"}, session : Sessions, field : SlotFields, value : {"", "produced"}]

\* _rmw opens the lock file, and makes it when there is none.
OpensLock(w, change) ==
  /\ writer[w].pc = "idle" /\ writes < MaxWrites /\ writes' = writes + 1
  /\ lockFile' = IF lockFile = 0 THEN 1 + writes ELSE lockFile
  /\ writer' = [writer EXCEPT ![w] = [IdleWriter EXCEPT !.pc = "wait", !.inode = lockFile',
                                                        !.change = change]]
  /\ UNCHANGED <<sidecar, lockOwner, tmpFiles, merged, sidecarFaults>>

Locks(w) ==
  /\ writer[w].pc = "wait" /\ lockOwner[writer[w].inode] = "free"
  /\ lockOwner' = [lockOwner EXCEPT ![writer[w].inode] = w]
  /\ writer' = [writer EXCEPT ![w].pc = "read"]
  /\ UNCHANGED <<sidecar, lockFile, tmpFiles, merged, writes, sidecarFaults>>

\* _read_payload_locked: what cannot be read or parsed is an empty file.
ReadsPayload(w) ==
  /\ writer[w].pc = "read"
  /\ \E fresh \in BOOLEAN :
       /\ IF fresh THEN SidecarFault ELSE UNCHANGED sidecarFaults
       /\ writer' = [writer EXCEPT ![w].pc = "merge", ![w].fresh = fresh,
            ![w].payload = Applied(writer[w].change, IF fresh THEN EmptyFile ELSE sidecar)]
  /\ UNCHANGED <<sidecar, lockFile, lockOwner, tmpFiles, merged, writes>>

\* The temporary file has the writer's name; a full disk takes it away again.
WritesTmp(w) ==
  /\ writer[w].pc = "merge"
  /\ \/ writer' = [writer EXCEPT ![w].pc = "replace"] /\ tmpFiles' = tmpFiles \cup {w}
        /\ UNCHANGED sidecarFaults
     \/ SidecarFault /\ writer' = [writer EXCEPT ![w].pc = "unlock"] /\ tmpFiles' = tmpFiles \ {w}
  /\ UNCHANGED <<sidecar, lockFile, lockOwner, merged, writes>>

Replaces(w) ==
  /\ writer[w].pc = "replace"
  /\ sidecar' = writer[w].payload /\ tmpFiles' = tmpFiles \ {w}
  /\ merged' = Applied(writer[w].change, IF writer[w].fresh THEN EmptyFile ELSE merged)
  /\ writer' = [writer EXCEPT ![w].pc = "unlock"]
  /\ UNCHANGED <<lockFile, lockOwner, writes, sidecarFaults>>

\* Mutated: the lock file is tidied away.
UnlocksAndUnlinks(w) ==
  /\ writer[w].pc = "unlock" /\ lockFile' = 0
  /\ lockOwner' = [lockOwner EXCEPT ![writer[w].inode] = "free"]
  /\ writer' = [writer EXCEPT ![w] = IdleWriter]
  /\ UNCHANGED <<sidecar, tmpFiles, merged, writes, sidecarFaults>>
Unlocks(w) ==
  /\ writer[w].pc = "unlock"
  /\ lockOwner' = [lockOwner EXCEPT ![writer[w].inode] = "free"]
  /\ writer' = [writer EXCEPT ![w] = IdleWriter]
  /\ UNCHANGED <<sidecar, lockFile, tmpFiles, merged, writes, sidecarFaults>>

\* external: the process dies; its lock is freed, its temporary file stays.
WriterDies(w) ==
  /\ writer[w].pc # "idle" /\ SidecarFault
  /\ lockOwner' = [i \in Inodes |-> IF lockOwner[i] = w THEN "free" ELSE lockOwner[i]]
  /\ writer' = [writer EXCEPT ![w] = IdleWriter]
  /\ UNCHANGED <<sidecar, lockFile, tmpFiles, merged, writes>>

SidecarNext ==
  \E w \in Writers :
    \/ \E change \in Changes : OpensLock(w, change)
    \/ Locks(w) \/ ReadsPayload(w) \/ WritesTmp(w) \/ Replaces(w) \/ Unlocks(w) \/ WriterDies(w)

SidecarSpec == SidecarInit /\ [][SidecarNext]_sidecarVars

----------------------------------------------------------------------------

SidecarTypeOK ==
  /\ sidecar \in [Sessions -> [SlotFields -> Values]] /\ lockFile \in Inodes
  /\ lockOwner \in [Inodes -> Writers \cup {"free"}] /\ tmpFiles \subseteq Writers
  /\ writes \in 0..MaxWrites /\ sidecarFaults \in 0..MaxSidecarFaults

(* No change is lost to another writer: the file is what the changes make  *)
(* that have reached it, one after the other, over processes that die at   *)
(* any step, full disks and, from the file that could not be read on, what *)
(* came after it.                                                          *)
NoLostChange == sidecar = merged

(* A session's slots are lost only to a file that could not be read: the   *)
(* log line "starting fresh" stands for every other session of the file.   *)
OthersAreKept ==
  [][\A w \in Writers, s \in Sessions :
       /\ Replaces(w) /\ ~writer[w].fresh /\ s # writer[w].change.session
       => sidecar'[s] = sidecar[s]]_sidecarVars
=============================================================================
