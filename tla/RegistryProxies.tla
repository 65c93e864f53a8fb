--------------------------- MODULE RegistryProxies ---------------------------
(***************************************************************************)
(* The routers that keep nothing of their own but edit what the agent-     *)
(* server keeps, in more than one call: secrets (rotate), workspaces       *)
(* (update), MCP servers (register, toggle, delete, ping) and, when the    *)
(* BFF starts, the registration of Serena.  Requests interleave between    *)
(* the calls; a call may be refused, and it may take effect although its   *)
(* answer is lost.                                                         *)
(*                                                                         *)
(* store stands for the secrets and for the workspaces, which are changed  *)
(* alike: by a deletion and a creation.  servers stands for mcp_config.    *)
(***************************************************************************)
EXTENDS Naturals, FiniteSets

CONSTANTS
  RegistryCalls,       \* requests, numbered: each does one thing
  MaxRefusals      \* bound: calls refused or not answered, directories that cannot be made

ASSUME RegistryConstants == RegistryCalls \subseteq Nat \ {0} /\ MaxRefusals \in Nat

VARIABLES
  store,     \* the entry: 0 if it is absent, else the request that wrote it
  server,    \* the server, at the agent-server: [gen, enabled], gen 0 if absent
  pinged,    \* _PING_CACHE of it: status, and the generation that was probed
  handler,   \* per request: what it is, where it is, what it has read
  due,       \* history: why the entry is there or not: absent, present,
             \* deleted on request, or dropped by a replacement that failed
  stray,     \* history: servers that went while a probe of them was on its
             \* way, by a deletion nobody heard of, or by being overwritten
  refusals

registryVars == <<store, server, pinged, handler, due, stray, refusals>>

NoHandler ==
  [kind |-> "none", pc |-> "idle", read |-> [gen |-> 0, enabled |-> FALSE], answer |-> ""]
NotPinged == [status |-> "disconnected", gen |-> 0]
NoServer  == [gen |-> 0, enabled |-> FALSE]
StoreVars  == <<store, due>>
ServerVars == <<server, pinged, stray>>

\* The entry and the server may be there already; 99 is who made them.
RegistryInit ==
  /\ store \in {0, 99} /\ due = (IF store = 0 THEN "absent" ELSE "present")
  /\ server \in [gen : {0, 99}, enabled : BOOLEAN]
  /\ server.gen = 0 => ~server.enabled
  /\ pinged = NotPinged /\ handler = [r \in RegistryCalls |-> NoHandler]
  /\ stray = {} /\ refusals = 0

\* Requests are taken when the start-up is over.
Serving == \A r \in RegistryCalls : handler[r].kind = "serena" => handler[r].pc = "done"
TakesUp(r, kind, pc) ==
  /\ handler[r].pc = "idle" /\ Serving
  /\ handler' = [handler EXCEPT ![r].kind = kind, ![r].pc = pc, ![r].read = server]
HandlerAt(r, kind, pc)   == handler[r].kind = kind /\ handler[r].pc = pc
GoesTo(r, pc)     == handler' = [handler EXCEPT ![r].pc = pc]
Ends(r, answer)   == handler' = [handler EXCEPT ![r].pc = "done", ![r].answer = answer]
UpstreamRefuses          == refusals < MaxRefusals /\ refusals' = refusals + 1
CallAnswered(r)   == Ends(r, "ok") /\ UNCHANGED refusals
CallLost(r)       == Ends(r, "502") /\ UpstreamRefuses

----------------------------------------------------------------------------
(* Secrets and workspaces.                                                 *)

\* Whether the call that changes the entry is answered or not, it may be done.
CreateEntry(r) ==
  /\ TakesUp(r, "create", "done") /\ UNCHANGED ServerVars
  /\ \/ store' = r /\ due' = "present" /\ (UNCHANGED refusals \/ UpstreamRefuses)
     \/ UNCHANGED StoreVars /\ UpstreamRefuses

DeleteEntry(r) ==
  /\ TakesUp(r, "delete", "done") /\ UNCHANGED ServerVars
  /\ \/ /\ store' = 0 /\ due' = (IF store = 0 THEN due ELSE "deleted")
        /\ (UNCHANGED refusals \/ UpstreamRefuses)
     \/ UNCHANGED StoreVars /\ UpstreamRefuses

\* rotate_secret and update_workspace: the list, which may be without it,
ReplaceAsked(r) ==
  /\ TakesUp(r, "replace", IF store = 0 THEN "done" ELSE "remove")
  /\ UNCHANGED <<StoreVars, ServerVars, refusals>>

\* the deletion, which another request may have made vain or which is refused;
\* if only its answer is lost, or the directory of the workspace cannot be made
\* after it, the entry is gone and the request ends there;
ReplaceRemoves(r) ==
  /\ HandlerAt(r, "replace", "remove") /\ UNCHANGED ServerVars
  /\ \/ store # 0 /\ store' = 0 /\ GoesTo(r, "add") /\ UNCHANGED <<due, refusals>>
     \/ store = 0 /\ Ends(r, "404") /\ UNCHANGED <<StoreVars, refusals>>
     \/ CallLost(r) /\ UNCHANGED StoreVars
     \/ store # 0 /\ store' = 0 /\ due' = "dropped" /\ CallLost(r)

\* Mutated: the list is looked up once more before the creation.
ReplaceAddsToListed(r) ==
  /\ HandlerAt(r, "replace", "add") /\ UNCHANGED ServerVars
  /\ \/ store # 0 /\ store' = r /\ due' = "present" /\ CallAnswered(r)
     \/ store = 0 /\ Ends(r, "404") /\ UNCHANGED <<StoreVars, refusals>>

\* and the creation, which may be refused when something of the name has come up.
ReplaceAdds(r) ==
  /\ HandlerAt(r, "replace", "add") /\ UNCHANGED ServerVars
  /\ \/ store' = r /\ due' = "present" /\ (CallAnswered(r) \/ CallLost(r))
     \/ CallLost(r) /\ UNCHANGED store /\ due' = (IF store = 0 THEN "dropped" ELSE due)
     \/ store # 0 /\ Ends(r, "409") /\ UNCHANGED <<StoreVars, refusals>>

----------------------------------------------------------------------------
(* MCP servers.                                                            *)

Shown == IF ~server.enabled THEN "disabled" ELSE pinged.status

Puts(r) == server' = [gen |-> r, enabled |-> TRUE] /\ stray' = stray \cup {server.gen}
RegisterServer(r) ==
  /\ UNCHANGED <<StoreVars, pinged>>
  /\ \/ TakesUp(r, "register", "get") /\ Puts(r) /\ UNCHANGED refusals
     \/ TakesUp(r, "register", "done") /\ UpstreamRefuses /\ (Puts(r) \/ UNCHANGED <<server, stray>>)

\* _get_server_or_404, for the probe that follows.
ReadsServer(r) ==
  /\ \/ HandlerAt(r, "register", "get") /\ UNCHANGED refusals
     \/ handler[r].kind = "none" /\ Serving /\ UNCHANGED refusals
  /\ handler' = [handler EXCEPT ![r].kind = IF @ = "none" THEN "ping" ELSE @,
       ![r].pc = IF server.gen = 0 THEN "done" ELSE "probe", ![r].read = server]
  /\ UNCHANGED <<StoreVars, ServerVars>>

\* _probe_and_cache writes whatever it hears; an exception leaves the cache alone.
Probed(r) ==
  /\ handler[r].pc = "probe" /\ Ends(r, "ok") /\ UNCHANGED <<StoreVars, server, stray>>
  /\ \/ \E status \in {"connected", "error"} :
          pinged' = [status |-> status, gen |-> handler[r].read.gen] /\ UNCHANGED refusals
     \/ UpstreamRefuses /\ UNCHANGED pinged

\* delete_mcp: the deletion at the agent-server; a 404 or no answer ends it there,
Probing(gen) == \E q \in RegistryCalls : handler[q].pc = "probe" /\ handler[q].read.gen = gen
DeleteServer(r) ==
  /\ UNCHANGED <<StoreVars, pinged>>
  /\ \/ /\ server.gen # 0 /\ TakesUp(r, "drop", "pop") /\ server' = NoServer
        /\ stray' = (IF Probing(server.gen) THEN stray \cup {server.gen} ELSE stray)
        /\ UNCHANGED refusals
     \/ /\ server.gen # 0 /\ TakesUp(r, "drop", "done") /\ server' = NoServer
        /\ stray' = stray \cup {server.gen} /\ UpstreamRefuses
     \/ TakesUp(r, "drop", "done") /\ UpstreamRefuses /\ UNCHANGED <<server, stray>>
     \/ server.gen = 0 /\ TakesUp(r, "drop", "done") /\ UNCHANGED <<server, stray, refusals>>
\* and the cache forgets the server, whichever is there by now.
PopsPing(r) ==
  /\ HandlerAt(r, "drop", "pop") /\ CallAnswered(r) /\ pinged' = NotPinged
  /\ UNCHANGED <<StoreVars, server, stray>>
\* Mutated: the cache outlives the server.
KeepsPing(r) ==
  HandlerAt(r, "drop", "pop") /\ CallAnswered(r) /\ UNCHANGED <<StoreVars, ServerVars>>

\* toggle_mcp sends the opposite of what it has read.
ToggleAsked(r) ==
  /\ server.gen # 0 /\ TakesUp(r, "toggle", "patch")
  /\ UNCHANGED <<StoreVars, ServerVars, refusals>>
TogglePatches(r) ==
  /\ HandlerAt(r, "toggle", "patch") /\ UNCHANGED <<StoreVars, pinged, stray>>
  /\ \/ /\ server' = IF server.gen = 0 THEN server
                     ELSE [server EXCEPT !.enabled = ~handler[r].read.enabled]
        /\ (CallAnswered(r) \/ CallLost(r))
     \/ server' = server /\ CallLost(r)

----------------------------------------------------------------------------
(* register_serena_if_missing, when the BFF starts.                        *)

SerenaLooks(r) ==
  /\ \A q \in RegistryCalls : handler[q].kind = "none"
  /\ handler' = [handler EXCEPT ![r].kind = "serena", ![r].read = server,
                                ![r].pc = IF server.gen = 0 THEN "post" ELSE "done"]
  /\ UNCHANGED <<StoreVars, ServerVars, refusals>>
SerenaPosts(r) ==
  /\ HandlerAt(r, "serena", "post") /\ UNCHANGED <<StoreVars, pinged>>
  /\ \/ Puts(r) /\ (CallAnswered(r) \/ CallLost(r))
     \/ UNCHANGED <<server, stray>> /\ CallLost(r)

RegistryNext ==
  \E r \in RegistryCalls :
    \/ CreateEntry(r) \/ DeleteEntry(r) \/ ReplaceAsked(r) \/ ReplaceRemoves(r) \/ ReplaceAdds(r)
    \/ RegisterServer(r) \/ ReadsServer(r) \/ Probed(r) \/ DeleteServer(r) \/ PopsPing(r)
    \/ ToggleAsked(r) \/ TogglePatches(r) \/ SerenaLooks(r) \/ SerenaPosts(r)

RegistrySpec == RegistryInit /\ [][RegistryNext]_registryVars

----------------------------------------------------------------------------

RegistryTypeOK ==
  /\ store \in {0, 99} \cup RegistryCalls /\ server.gen \in {0, 99} \cup RegistryCalls
  /\ pinged.status \in {"disconnected", "connected", "error"} /\ refusals \in 0..MaxRefusals

(* However rotations and updates of an entry overlap, one that nobody has  *)
(* asked to delete is there, or in the hands of a request that is about to *)
(* put it back, or else somebody who asked to replace it was told that the *)
(* replacement had failed.                                                 *)
EntryIsNotLost ==
  /\ due = "present" => store # 0 \/ \E r \in RegistryCalls : HandlerAt(r, "replace", "add")
  /\ due = "dropped" => \E r \in RegistryCalls : handler[r].kind = "replace" /\ handler[r].answer = "502"

(* The status kept is that of the server that is there, which no earlier   *)
(* one of its name has left to it: unless the earlier one was overwritten, *)
(* went while a probe of it was on its way, or went by a deletion whose    *)
(* answer was lost, or its deletion is about to drop the status.           *)
PingOfItsOwn ==
  pinged.gen \notin {0, server.gen} \cup stray => \E r \in RegistryCalls : HandlerAt(r, "drop", "pop")

(* What the two-call edits keep.                                           *)
RegistryKeeps == EntryIsNotLost /\ PingOfItsOwn
=============================================================================
