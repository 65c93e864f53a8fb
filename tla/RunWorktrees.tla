---------------------------- MODULE RunWorktrees ----------------------------
(***************************************************************************)
(* The life of runs and of their git worktrees: create, message, delete,   *)
(* fork (bff/routers/runs.py) and restart-from-here (bff/services/         *)
(* restart.py), over the worktrees of bff/services/worktree.py and the     *)
(* (event -> HEAD) rows of bff/services/event_commit_ledger.py.            *)
(*                                                                         *)
(* Every handler is a sequence of awaits, so handlers, the agents that     *)
(* move the HEAD of their directory and failures interleave.  A request is *)
(* named by its number; the worktree, the conversation and the user        *)
(* message it makes carry the same number.  So does a HEAD carry that of   *)
(* the move, a commit or a reset, that put it where it is: a sha stands    *)
(* for the time at which it was HEAD, not for its place in the history.    *)
(* The agent-server is external: conversations, their events, running.  An *)
(* early return that changes nothing is a stutter and has no action.       *)
(***************************************************************************)
EXTENDS Integers, Sequences, FiniteSets

CONSTANTS
  MaxOps,       \* bound: requests
  MaxCreates,   \* bound: those of them that create a run
  MaxMoves,     \* bound: commits and resets the agents make
  MaxFaults     \* bound: failed or lost calls, failed removals, BFF crashes

ASSUME BoundsAssumption == {MaxOps, MaxCreates, MaxMoves, MaxFaults} \subseteq Nat

Ops == 1 .. MaxOps
RawPath == 0    \* the workspace's own directory: no worktree
Dirs == Ops \cup {RawPath}
None == 0       \* no conversation, event or anchor
NoSha == -1

VARIABLES
  op,           \* request -> its kind, where it stands and its local variables
  tree,         \* worktree -> "none", "half" (made), "live" or "gone"; a workspace
                \* that is a git repository is "live", one that is not "none"
  head,         \* directory -> its HEAD
  conv,         \* conversation -> "none", "live" or "gone", on the agent-server
  dir,          \* conversation -> its working_dir: a worktree or RawPath
  log,          \* the user MessageEvents, in order, with the HEAD they were born at
  running,      \* conversations whose agent works
  stamp,        \* the ledger: event -> sha
  moves, faults,
  excused       \* history: worktrees that a failure left, or kept from being removed

vars == <<op, tree, head, conv, dir, log, running, stamp, moves, faults, excused>>
files == <<tree, head, excused>>
server == <<conv, dir, log, running>>

Kinds == {"create", "message", "delete", "fork", "restart"}
Idle == [kind |-> "none", pc |-> "new", conv |-> None, anchor |-> None,
         found |-> None, sha |-> NoSha]

Init ==
  /\ op = [o \in Ops |-> Idle]
  /\ \E repo \in {"live", "none"} :
       tree = [d \in Dirs |-> IF d = RawPath THEN repo ELSE "none"]
  /\ head = [d \in Dirs |-> 0]
  /\ conv = [o \in Ops |-> "none"]
  /\ dir = [o \in Ops |-> RawPath]
  /\ log = <<>>
  /\ running = {}
  /\ stamp = [o \in Ops |-> NoSha]
  /\ moves = 0
  /\ faults = 0
  /\ excused = {}

-----------------------------------------------------------------------------
At(o, kind, pc) == op[o].kind = kind /\ op[o].pc = pc
Over == {"ok", "failed"}
\* A handler that is over keeps none of its local variables.
AtPc(r, pc) == IF pc \in Over THEN [Idle EXCEPT !.kind = r.kind, !.conv = r.conv, !.pc = pc]
               ELSE [r EXCEPT !.pc = pc]
Goto(o, pc) == op' = [op EXCEPT ![o] = AtPc(@, pc)]
Arrives(o, kind, pc, c, e) ==
  /\ op[o].pc = "new" /\ \A p \in 1 .. o - 1 : op[p].pc # "new"
  /\ op' = [op EXCEPT ![o] = [kind |-> kind, pc |-> pc, conv |-> c, anchor |-> e,
                              found |-> None, sha |-> NoSha]]
Fault == faults < MaxFaults /\ faults' = faults + 1

HeadOf(w) == IF tree[w] = "live" THEN head[w] ELSE NoSha
EventsOf(c) == {i \in DOMAIN log : log[i].conv = c}
Oldest(I) == {log[i].event : i \in {i \in I : \A j \in I : i <= j}}
Newest(I) == {log[i].event : i \in {i \in I : \A j \in I : j <= i}}

OnDisk(w) == tree[w] \in {"live", "half"}

\* worktree.remove_worktree(missing_ok=True)
Removed(w) == IF w # RawPath /\ OnDisk(w) THEN [tree EXCEPT ![w] = "gone"] ELSE tree

\* worktree.provision_worktree of the worktree of o, at a commit
Provisioned(o, sha) ==
  /\ tree' = [tree EXCEPT ![o] = "live"]
  /\ head' = [head EXCEPT ![o] = sha]
  /\ UNCHANGED <<faults, excused>>

\* `git worktree add` fails, or is killed at its timeout half-way: the caller takes it
\* for a worktree that was never made.
NotProvisioned(o) ==
  /\ Fault
  /\ \/ UNCHANGED <<tree, excused>>
     \/ tree' = [tree EXCEPT ![o] = "half"] /\ excused' = excused \cup {o}
  /\ UNCHANGED head

\* The agent-server adds a user message to a conversation.
Posted(o, c) == log' = Append(log, [conv |-> c, event |-> o, born |-> HeadOf(dir'[c])])

-----------------------------------------------------------------------------
(* create_run *)

\* Routed, the workspace looked up, and the worktree provisioned; a workspace that is
\* not a git repository, or whose worktree could not be made, is used as it is.
CreateProvision(o) ==
  /\ Cardinality({p \in Ops : op[p].kind = "create"}) < MaxCreates
  /\ \/ /\ tree[RawPath] = "live"
        /\ Arrives(o, "create", "post", o, None) /\ Provisioned(o, head[RawPath])
     \/ /\ tree[RawPath] = "live"
        /\ Arrives(o, "create", "postRaw", o, None) /\ NotProvisioned(o)
     \/ /\ tree[RawPath] = "none"
        /\ Arrives(o, "create", "postRaw", o, None) /\ UNCHANGED <<tree, head, faults, excused>>
  /\ UNCHANGED <<server, stamp, moves>>

\* POST /api/conversations of create_run and of restart_from_here: done; done or not,
\* but the answer an error, lost or without an id, and the worktree rolled back; the same,
\* but the rollback fails, or the answer is unreadable, which nothing catches.
Made(o) ==
  /\ conv' = [conv EXCEPT ![o] = "live"]
  /\ dir' = [dir EXCEPT ![o] = IF op[o].pc = "post" THEN o ELSE RawPath]
  /\ IF op[o].kind = "create" THEN Posted(o, o) ELSE UNCHANGED log
NotMade == UNCHANGED <<conv, dir, log>>
\* Mutated: no rollback when the call fails.
PostConversationKeeps(o) ==
  /\ op[o].pc \in {"post", "postRaw"}
  /\ \/ /\ Made(o)
        /\ Goto(o, IF op[o].kind = "restart" THEN "seed"
                   ELSE IF op[o].pc = "post" THEN "search" ELSE "run")
        /\ UNCHANGED faults
     \/ /\ NotMade /\ Fault
        /\ Goto(o, "failed")
  /\ UNCHANGED <<files, running, stamp, moves>>

PostConversation(o) ==
  /\ op[o].pc \in {"post", "postRaw"}
  /\ \/ /\ Made(o)
        /\ Goto(o, IF op[o].kind = "restart" THEN "seed"
                   ELSE IF op[o].pc = "post" THEN "search" ELSE "run")
        /\ UNCHANGED <<tree, faults, excused>>
     \/ /\ Made(o) \/ NotMade
        /\ Fault
        /\ excused' = excused \cup {o}
        /\ Goto(o, "failed")
        /\ UNCHANGED tree
     \/ /\ Made(o) \/ NotMade
        /\ Fault
        /\ tree' = IF op[o].pc = "post" THEN Removed(o) ELSE tree
        /\ Goto(o, "failed")
        /\ UNCHANGED excused
  /\ UNCHANGED <<head, running, stamp, moves>>

\* POST /run, and the relay starts.
CreateRun(o) ==
  /\ At(o, "create", "run")
  /\ running' = IF conv[o] = "live" THEN running \cup {o} ELSE running
  /\ Goto(o, "ok")
  /\ UNCHANGED <<files, conv, dir, log, stamp, moves, faults>>

-----------------------------------------------------------------------------
(* The best-effort capture of create_run, send_run_message, restart_from_here *)

Captured(o) == IF op[o].kind = "create" THEN "run" ELSE "ok"

\* The search: create_run takes the first user message, send_run_message the newest,
\* restart_from_here whatever event is the newest (which may be none of the user's).
Hits(o) ==
  LET events == EventsOf(op[o].conv) IN
  IF events = {} \/ conv[op[o].conv] # "live" THEN {None}
  ELSE CASE op[o].kind = "create"  -> Oldest(events)
         [] op[o].kind = "message" -> Newest(events)
         [] OTHER                  -> Newest(events) \cup {None}
\* Mutated: a failed capture is treated as a failed create.
SearchRollsBack(o) ==
  /\ op[o].pc = "search"
  /\ Fault
  /\ tree' = Removed(o)
  /\ Goto(o, Captured(o))
  /\ UNCHANGED <<head, excused, server, stamp, moves>>

Search(o) ==
  /\ op[o].pc = "search"
  /\ \/ /\ \E e \in Hits(o) :
             op' = [op EXCEPT ![o] = AtPc([@ EXCEPT !.found = e],
                                          IF e = None THEN Captured(o) ELSE "head")]
        /\ UNCHANGED faults
     \/ Fault /\ Goto(o, Captured(o))
  /\ UNCHANGED <<files, server, stamp, moves>>

\* Mutated: HEAD of the workspace, not of the worktree.
ReadHeadOfWorkspace(o) ==
  /\ op[o].pc = "head"
  /\ LET sha == HeadOf(RawPath) IN
     op' = [op EXCEPT ![o] = AtPc([@ EXCEPT !.sha = sha],
                                  IF sha = NoSha THEN Captured(o) ELSE "record")]
  /\ UNCHANGED <<files, server, stamp, moves, faults>>

\* head_sha of the working_dir, once the search has answered
ReadHead(o) ==
  /\ op[o].pc = "head"
  /\ LET sha == HeadOf(dir[op[o].conv]) IN
     op' = [op EXCEPT ![o] = AtPc([@ EXCEPT !.sha = sha],
                                  IF sha = NoSha THEN Captured(o) ELSE "record")]
  /\ UNCHANGED <<files, server, stamp, moves, faults>>

\* record_sha: INSERT OR REPLACE
Record(o) ==
  /\ op[o].pc = "record"
  /\ stamp' = [stamp EXCEPT ![op[o].found] = op[o].sha]
  /\ Goto(o, Captured(o))
  /\ UNCHANGED <<files, server, moves, faults>>

-----------------------------------------------------------------------------
(* send_run_message *)

MessageArrives(o) ==
  /\ \E c \in Ops : conv[c] = "live" /\ Arrives(o, "message", "say", c, None)
  /\ UNCHANGED <<files, server, stamp, moves, faults>>

\* POST /events; if it fails or its answer is lost, nothing is captured.
MessagePost(o) ==
  /\ At(o, "message", "say")
  /\ LET c == op[o].conv
         said == conv[c] = "live" /\ UNCHANGED dir /\ Posted(o, c) IN
     \/ said /\ Goto(o, "search") /\ UNCHANGED faults
     \/ said /\ Goto(o, "failed") /\ Fault
     \/ conv[c] # "live" /\ Goto(o, "failed") /\ UNCHANGED <<dir, log, faults>>
  /\ UNCHANGED <<files, conv, running, stamp, moves>>

-----------------------------------------------------------------------------
(* delete_run *)

\* GET the conversation, for the name of its worktree.
DeleteArrives(o) ==
  /\ \E c \in Ops : conv[c] = "live" /\ Arrives(o, "delete", "del", c, None)
  /\ UNCHANGED <<files, server, stamp, moves, faults>>

\* DELETE: a failure is logged, and the worktree is reaped all the same.
DeleteConversation(o) ==
  /\ At(o, "delete", "del")
  /\ \/ /\ conv' = [conv EXCEPT ![op[o].conv] = "gone"]
        /\ running' = running \ {op[o].conv}
        /\ UNCHANGED faults
     \/ Fault /\ UNCHANGED <<conv, running>>
  /\ Goto(o, "reap")
  /\ UNCHANGED <<files, dir, log, stamp, moves>>

DeleteReap(o) ==
  /\ At(o, "delete", "reap")
  /\ LET w == dir[op[o].conv] IN
     \/ tree' = Removed(w) /\ UNCHANGED <<faults, excused>>
     \/ Fault /\ w # RawPath /\ excused' = excused \cup {w} /\ UNCHANGED tree
  /\ Goto(o, "purge")
  /\ UNCHANGED <<head, server, stamp, moves>>

\* event_commit_ledger.delete_run
Purged(c) == [e \in Ops |-> IF \E i \in DOMAIN log : log[i].event = e /\ log[i].conv = c
                            THEN NoSha ELSE stamp[e]]
DeletePurge(o) ==
  /\ At(o, "delete", "purge")
  /\ \/ stamp' = Purged(op[o].conv) /\ UNCHANGED faults
     \/ Fault /\ UNCHANGED stamp
  /\ Goto(o, "ok")
  /\ UNCHANGED <<files, server, moves>>

-----------------------------------------------------------------------------
(* fork_run: the agent-server gives the fork its parent's working_dir. *)

Fork(o) ==
  /\ \E c \in Ops :
       /\ conv[c] = "live"
       /\ Arrives(o, "fork", "ok", c, None)
       /\ conv' = [conv EXCEPT ![o] = "live"]
       /\ dir' = [dir EXCEPT ![o] = dir[c]]
  /\ UNCHANGED <<files, log, running, stamp, moves, faults>>

-----------------------------------------------------------------------------
(* restart_from_here *)

\* Mutated: no check that the anchor has a sha.
RestartUnanchored(o) ==
  /\ \E c \in Ops, i \in DOMAIN log :
       /\ conv[c] = "live"
       /\ log[i].conv = c
       /\ Arrives(o, "restart", "provision", o, log[i].event)
       /\ head' = [head EXCEPT ![o] = stamp[log[i].event]]
  /\ UNCHANGED <<tree, excused, server, stamp, moves, faults>>

\* The source conversation, the anchor and its sha are looked up.
RestartArrives(o) ==
  /\ \E c \in Ops, i \in DOMAIN log :
       /\ conv[c] = "live"
       /\ log[i].conv = c
       /\ stamp[log[i].event] # NoSha
       /\ Arrives(o, "restart", "provision", o, log[i].event)
       /\ head' = [head EXCEPT ![o] = stamp[log[i].event]]
  /\ UNCHANGED <<tree, excused, server, stamp, moves, faults>>

AnchorDir(o) == LET i == CHOOSE j \in DOMAIN log : log[j].event = op[o].anchor IN dir[log[i].conv]

\* The repository is found through the source's worktree, or is the source's directory:
\* without it, the restart fails, as when the worktree cannot be made.
RestartProvision(o) ==
  /\ At(o, "restart", "provision")
  /\ \/ /\ tree[AnchorDir(o)] = "live"
        /\ Provisioned(o, head[o]) /\ Goto(o, "post")
     \/ NotProvisioned(o) /\ Goto(o, "failed")
     \/ /\ tree[AnchorDir(o)] # "live"
        /\ Goto(o, "failed") /\ UNCHANGED <<tree, head, faults, excused>>
  /\ UNCHANGED <<server, stamp, moves>>

\* The seed message, with run: true.  If it fails, or its answer is lost, the worktree
\* is rolled back, unless that fails too, and the conversation stays.
RestartSeed(o) ==
  /\ At(o, "restart", "seed")
  /\ LET seeded == conv[o] = "live" /\ UNCHANGED dir /\ Posted(o, o) /\ running' = running \cup {o}
         not == UNCHANGED <<dir, log, running>>
         rolledBack == tree' = Removed(o) /\ UNCHANGED excused
         left == excused' = excused \cup {o} /\ UNCHANGED tree IN
     \/ seeded /\ Goto(o, "search") /\ UNCHANGED <<tree, faults, excused>>
     \/ (seeded \/ not) /\ Goto(o, "failed") /\ Fault /\ (rolledBack \/ left)
     \/ conv[o] # "live" /\ not /\ Goto(o, "failed") /\ rolledBack /\ UNCHANGED faults
  /\ UNCHANGED <<head, conv, stamp, moves>>

-----------------------------------------------------------------------------
(* The agents, and crashes of the BFF *)

\* An agent commits, resets or checks out: a move of HEAD, with a number of its own.
AgentMovesHead(c) ==
  /\ c \in running
  /\ moves < MaxMoves
  /\ HeadOf(dir[c]) # NoSha
  /\ moves' = moves + 1
  /\ head' = [head EXCEPT ![dir[c]] = moves + 1]
  /\ UNCHANGED <<op, tree, server, stamp, faults, excused>>

\* The worktrees a handler in flight was to remove, or to hand over, stay.
InFlight(o) == op[o].pc \notin {"new"} \cup Over
Handled(w) == \E o \in Ops : InFlight(o) /\ (o = w \/ (op[o].conv # None /\ dir[op[o].conv] = w))
Crash ==
  /\ Fault
  /\ \E o \in Ops : InFlight(o)
  /\ excused' = excused \cup {w \in Ops : OnDisk(w) /\ Handled(w)}
  /\ op' = [o \in Ops |-> IF InFlight(o) THEN AtPc(op[o], "failed") ELSE op[o]]
  /\ UNCHANGED <<tree, head, server, stamp, moves>>

Next ==
  \/ \E o \in Ops :
       \/ CreateProvision(o) \/ PostConversation(o) \/ CreateRun(o)
       \/ Search(o) \/ ReadHead(o) \/ Record(o)
       \/ MessageArrives(o) \/ MessagePost(o)
       \/ DeleteArrives(o) \/ DeleteConversation(o) \/ DeleteReap(o) \/ DeletePurge(o)
       \/ Fork(o)
       \/ RestartArrives(o) \/ RestartProvision(o) \/ RestartSeed(o)
  \/ \E c \in Ops : AgentMovesHead(c)
  \/ Crash

Spec == Init /\ [][Next]_vars

-----------------------------------------------------------------------------
Shas == -1 .. MaxMoves

Handler ==
  [kind : Kinds \cup {"none"},
   pc : {"new", "post", "postRaw", "seed", "search", "head", "record", "run", "say", "del",
         "reap", "purge", "provision"} \cup Over,
   conv : Ops \cup {None}, anchor : Ops \cup {None}, found : Ops \cup {None}, sha : Shas]

TypeOK ==
  /\ op \in [Ops -> Handler]
  /\ tree \in [Dirs -> {"none", "half", "live", "gone"}]
  /\ head \in [Dirs -> 0 .. MaxMoves]
  /\ conv \in [Ops -> {"none", "live", "gone"}]
  /\ dir \in [Ops -> Dirs]
  /\ log \in Seq([conv : Ops, event : Ops, born : Shas])
  /\ running \subseteq Ops
  /\ stamp \in [Ops -> Shas]
  /\ moves \in 0 .. MaxMoves /\ faults \in 0 .. MaxFaults
  /\ excused \subseteq Ops

\* A restart never lands on what the directory was before the message it restarts from:
\* the sha of an event is a HEAD that its directory had when the message was there,
\* whichever handler captured it and whatever the agents commit or reset meanwhile.
NoStaleStamp ==
  \A i \in DOMAIN log : stamp[log[i].event] # NoSha => log[i].born <= stamp[log[i].event]

\* No worktree leaks (C1) but by a failure of its own making or removal: one, whole or
\* half-made, that no conversation uses and no handler is about to use or to remove is
\* there because `git worktree add` was cut short, because its removal failed, because
\* its handler crashed, or because the answer that named its conversation was unreadable.
InUse(w) == \E c \in Ops : conv[c] = "live" /\ dir[c] = w
NoWorktreeLeak ==
  \A w \in Ops : OnDisk(w) => InUse(w) \/ Handled(w) \/ w \in excused

\* A run that was answered for has its files until somebody deletes it, or a run that
\* shares them: no rollback takes them away.
Deleted(w) == \E o \in Ops : op[o].kind = "delete" /\ dir[op[o].conv] = w
AnsweredRunHasItsFiles ==
  \A o \in Ops :
    (op[o].kind \in {"create", "restart"} /\ op[o].pc = "ok" /\ dir[o] = o /\ ~Deleted(o))
      => tree[o] = "live"

\* Worktrees and stamps as a whole, of what the handlers do to them by themselves.
WorktreesHold == TypeOK /\ NoStaleStamp /\ NoWorktreeLeak

\* Fork is "a non-destructive operation: the original run is preserved" (ADR 025):
\* a run that nobody deletes keeps its files.
OriginalPreserved ==
  \A c \in Ops :
    (/\ op[c].kind = "create" /\ op[c].pc = "ok" /\ conv[c] = "live" /\ dir[c] = c
     /\ \A o \in Ops : op[o].kind = "delete" => op[o].conv # c)
      => tree[c] = "live"
=============================================================================
