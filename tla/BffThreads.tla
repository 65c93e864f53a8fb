----------------------------- MODULE BffThreads -----------------------------
(***************************************************************************)
(* The handlers FastAPI runs on threads of a pool, because they are not    *)
(* coroutines: the agent presets (bff/routers/agent_presets.py), a dict in *)
(* the process, and the settings (bff/routers/settings.py), one object in  *)
(* it.  Neither has a lock, so the threads meet between any two accesses.  *)
(*                                                                         *)
(* The dict is a sequence of its keys, in the order of their insertion,    *)
(* and the records they lead to.                                           *)
(***************************************************************************)
EXTENDS Naturals, Sequences, FiniteSets, SequencesExt

CONSTANTS
  Threads,   \* of the pool
  Seeded,    \* presets at start, 1..Seeded; the first is the default
  MaxOps     \* bound: handlers that are begun

ASSUME ThreadConstants == Seeded \in Nat \ {0} /\ MaxOps \in Nat

VARIABLES
  keys,      \* the keys of _PRESETS, in order
  preset,    \* per key, its record: whether it is the default
  settings,  \* _SETTINGS: per field, the patch that it is from, 0 at first
  thread,    \* per thread: what it does and where it is
  crossed,   \* history: a write of the presets has overlapped a set-default
  patched,   \* history: per field, the last patch that has been answered
  mixed,     \* history: two writes of the settings have overlapped
  ops

threadVars == <<keys, preset, settings, thread, crossed, patched, mixed, ops>>

Ids         == 1..(Seeded + MaxOps)
SettingFields     == {"defaultModel", "autoApprove"}
IdleThread  == [op |-> "none", pc |-> "idle", num |-> 0, id |-> 0, at |-> 0, size |-> 0,
                held |-> FALSE, data |-> [f \in SettingFields |-> 0]]
HasKey(k)   == k \in {keys[i] : i \in DOMAIN keys}
NewKey(num) == Seeded + num    \* a fresh uuid4

\* Assignment to a key: a new one comes last.  Mutated: it always is a new one.
KeyedAnew(k) == Append(keys, k)
Keyed(k)    == IF HasKey(k) THEN keys ELSE Append(keys, k)

ThreadsInit ==
  /\ keys = [i \in 1..Seeded |-> i] /\ preset = [k \in Ids |-> k = 1]
  /\ settings = [f \in SettingFields |-> 0] /\ patched = [f \in SettingFields |-> 0]
  /\ thread = [t \in Threads |-> IdleThread]
  /\ crossed = FALSE /\ mixed = FALSE /\ ops = 0

PresetVars   == <<keys, preset, crossed>>
SettingsVars == <<settings, patched, mixed>>
ThreadAt(t, op, pc)  == thread[t].op = op /\ thread[t].pc = pc
Step(t, r)      == thread' = [thread EXCEPT ![t] = r]
Done(t)         == Step(t, IdleThread)
Busy(t, O)      == \E u \in Threads \ {t} : thread[u].op \in O
PresetOps       == {"create", "patch", "delete", "duplicate", "set-default"}

\* A handler begins with its first access, and is noted if it meets another one.
Begins(t, op) == thread[t].pc = "idle" /\ ops < MaxOps /\ ops' = ops + 1
PresetBegins(t, op) ==
  /\ Begins(t, op) /\ UNCHANGED SettingsVars
  /\ crossed' = (crossed \/ Busy(t, {"set-default"}) \/ (op = "set-default" /\ Busy(t, PresetOps)))

----------------------------------------------------------------------------
(* The presets.                                                            *)

\* One assignment.
CreatePreset(t) ==
  /\ PresetBegins(t, "create")
  /\ keys' = Append(keys, NewKey(ops')) /\ preset' = [preset EXCEPT ![NewKey(ops')] = FALSE]
  /\ UNCHANGED thread

\* The others read their record first.  404 if there is none, 400 for the
\* deletion of the default.
ReadsPreset(t, op, k) ==
  /\ op \in PresetOps \ {"create"} /\ PresetBegins(t, op)
  /\ IF HasKey(k) /\ ~(op = "delete" /\ preset[k])
     THEN Step(t, [IdleThread EXCEPT !.op = op, !.pc = "read", !.id = k, !.held = preset[k],
                                     !.size = Len(keys), !.num = ops'])
     ELSE UNCHANGED thread
  /\ UNCHANGED <<keys, preset>>

\* model_copy of what was read: a field the body does not have is the old one.
PatchesPreset(t) ==
  /\ ThreadAt(t, "patch", "read") /\ Done(t)
  /\ keys' = Keyed(thread[t].id) /\ preset' = [preset EXCEPT ![thread[t].id] = thread[t].held]
  /\ UNCHANGED <<SettingsVars, crossed, ops>>

\* A key that is gone by now is a KeyError, which changes nothing either.
DeletesPreset(t) ==
  /\ ThreadAt(t, "delete", "read") /\ Done(t)
  /\ keys' = RemoveFirst(keys, thread[t].id)
  /\ UNCHANGED <<SettingsVars, preset, crossed, ops>>

\* Mutated: the copy is as default as its original.
DuplicatesAll(t) ==
  /\ ThreadAt(t, "duplicate", "read") /\ Done(t)
  /\ keys' = Append(keys, NewKey(thread[t].num))
  /\ preset' = [preset EXCEPT ![NewKey(thread[t].num)] = thread[t].held]
  /\ UNCHANGED <<SettingsVars, crossed, ops>>
DuplicatesPreset(t) ==
  /\ ThreadAt(t, "duplicate", "read") /\ Done(t)
  /\ keys' = Append(keys, NewKey(thread[t].num))
  /\ preset' = [preset EXCEPT ![NewKey(thread[t].num)] = FALSE]
  /\ UNCHANGED <<SettingsVars, crossed, ops>>

\* set_default walks over the dict.  The iterator takes the next entry, and
\* raises when the dict has another size than at the start.
SetDefaultNext(t) ==
  /\ ThreadAt(t, "set-default", "read")
  /\ CASE Len(keys) # thread[t].size -> Done(t)
       [] Len(keys) = thread[t].size /\ thread[t].at < Len(keys) ->
            Step(t, [thread[t] EXCEPT !.pc = "assign", !.at = @ + 1,
                                      !.num = keys[thread[t].at + 1]])
       [] OTHER -> Done(t)
  /\ UNCHANGED <<SettingsVars, PresetVars, ops>>
SetDefaultAssigns(t) ==
  /\ ThreadAt(t, "set-default", "assign") /\ Step(t, [thread[t] EXCEPT !.pc = "read"])
  /\ keys' = Keyed(thread[t].num)
  /\ preset' = [preset EXCEPT ![thread[t].num] = thread[t].num = thread[t].id]
  /\ UNCHANGED <<SettingsVars, crossed, ops>>

----------------------------------------------------------------------------
(* The settings.                                                           *)

ReadsSettings(t) ==
  /\ Begins(t, "settings")
  /\ Step(t, [IdleThread EXCEPT !.op = "settings", !.pc = "read", !.data = settings, !.id = ops'])
  /\ mixed' = (mixed \/ Busy(t, {"settings"}))
  /\ UNCHANGED <<PresetVars, settings, patched>>

\* Mutated: the patch replaces the object, with defaults for what it lacks.
MergedAfresh(data, F, id) == [f \in SettingFields |-> IF f \in F THEN id ELSE 0]
MergedSettings(data, F, id) == [f \in SettingFields |-> IF f \in F THEN id ELSE data[f]]

PatchesSettings(t, F) ==
  /\ ThreadAt(t, "settings", "read") /\ Done(t)
  /\ settings' = MergedSettings(thread[t].data, F, thread[t].id)
  /\ patched' = [f \in SettingFields |-> IF f \in F THEN thread[t].id ELSE patched[f]]
  /\ UNCHANGED <<PresetVars, mixed, ops>>

ResetsSettings(t) ==
  /\ Begins(t, "reset") /\ mixed' = (mixed \/ Busy(t, {"settings"}))
  /\ settings' = [f \in SettingFields |-> 0] /\ patched' = [f \in SettingFields |-> 0]
  /\ UNCHANGED <<PresetVars, thread>>

ThreadsNext ==
  \E t \in Threads :
    \/ CreatePreset(t) \/ PatchesPreset(t) \/ DeletesPreset(t) \/ DuplicatesPreset(t)
    \/ SetDefaultNext(t) \/ SetDefaultAssigns(t) \/ ReadsSettings(t) \/ ResetsSettings(t)
    \/ \E op \in PresetOps, k \in Ids : ReadsPreset(t, op, k)
    \/ \E F \in SUBSET SettingFields : PatchesSettings(t, F)

ThreadsSpec == ThreadsInit /\ [][ThreadsNext]_threadVars

----------------------------------------------------------------------------

Defaults    == {k \in Ids : HasKey(k) /\ preset[k]}
ThreadsRest == \A t \in Threads : thread[t].pc = "idle"

ThreadsTypeOK ==
  /\ \A i \in DOMAIN keys : keys[i] \in Ids /\ \A j \in DOMAIN keys : keys[i] = keys[j] => i = j
  /\ settings \in [SettingFields -> 0..MaxOps] /\ ops \in 0..MaxOps

(* Exactly one preset is the default, whatever handlers have overlapped,   *)
(* as long as none of them overlapped a set-default.                       *)
OneDefault == ThreadsRest /\ ~crossed => Cardinality(Defaults) = 1

(* The settings hold every patch that was answered, as long as no two      *)
(* writes of them overlapped.                                              *)
PatchesKept == ~mixed => settings = patched

(* What the pool's handlers keep without a lock.                           *)
ThreadsKeep == OneDefault /\ PatchesKept
=============================================================================
