------------------------- MODULE RunWorktrees_proofs -------------------------
(***************************************************************************)
(* Proofs about RunWorktrees, for any number of requests, moves and      *)
(* faults: no stamp is older than its message, no worktree leaks, and no   *)
(* rollback takes the files of a run that was answered for.                *)
(*                                                                         *)
(* What makes the three inductive is who has been made by when.  A         *)
(* conversation or a worktree carries the number of the request that makes *)
(* it, so a request that has not come that far is nobody's conversation,   *)
(* nobody's working_dir and nobody's message (MadeInTime); a worktree is   *)
(* live only in hands that can be named (Accounted); and the HEAD that a   *)
(* capture holds is no older than any message it may be recorded for       *)
(* (Ledger).                                                               *)
(***************************************************************************)
EXTENDS RunWorktrees, SequenceTheorems, TLAPS

USE DEF Dirs

\* Places of a handler before its worktree, its conversation and its message are there.
Unprovisioned == {"new", "provision"}
Unmade == Unprovisioned \cup {"post", "postRaw"}
Unposted == Unmade \cup {"seed", "say"}

\* A handler's kind says whose conversation it names.
NamesTheirs(o) ==
  /\ op[o].kind = "none" <=> op[o].pc = "new"
  /\ op[o].pc = "new" => op[o].conv = None
  /\ op[o].kind \in {"create", "restart"} => op[o].conv = o
  /\ op[o].kind \in {"message", "delete", "fork"} =>
       op[o].conv \in Ops /\ conv[op[o].conv] # "none"
  /\ op[o].pc \in {"post", "postRaw"} => op[o].kind \in {"create", "restart"}
  /\ op[o].pc \in {"del", "reap", "purge"} => op[o].kind = "delete"
HandlersNameTheirs == \A o \in Ops : NamesTheirs(o)

\* What is there was made by a request that has come so far.
MadeInTime ==
  /\ \A c \in Ops : conv[c] # "none" => op[c].pc \notin Unmade
  /\ \A c \in Ops : dir[c] # RawPath => op[dir[c]].pc \notin Unmade
  /\ \A w \in Ops : tree[w] # "none" => op[w].pc \notin Unprovisioned
  /\ \A i \in DOMAIN log :
       /\ op[log[i].event].pc \notin Unposted
       /\ op[log[i].event].conv = log[i].conv
       /\ conv[log[i].conv] # "none"

\* A worktree on disk is a live conversation's, or about to be one's, or about to be removed.
Reaping(w) == \E d \in Ops : At(d, "delete", "reap") /\ dir[op[d].conv] = w
Accounted ==
  \A w \in Ops : OnDisk(w) =>
    InUse(w) \/ Reaping(w) \/ op[w].pc = "post" \/ w \in excused

\* A run keeps its files from the time it is provisioned.
HasFiles(o) ==
  op[o].kind \in {"create", "restart"} =>
    /\ op[o].pc = "post" => tree[o] = "live"
    /\ (/\ op[o].pc \in {"seed", "search", "head", "record", "run", "ok"}
        /\ dir[o] = o /\ ~Deleted(o))
         => tree[o] = "live"
FilesKept == \A o \in Ops : HasFiles(o)

\* Commits are numbered as they are made.
MovesBound ==
  /\ \A w \in Dirs : head[w] <= moves
  /\ \A e \in Ops : stamp[e] <= moves
  /\ \A o \in Ops : op[o].sha <= moves

\* A live worktree is no older than the messages of its conversations.
BornBelowHead ==
  \A i \in DOMAIN log :
    tree[dir[log[i].conv]] = "live" => log[i].born <= head[dir[log[i].conv]]

\* What is stamped, or about to be, is a message that is there, of the handler's conversation.
Captures ==
  /\ \A e \in Ops : stamp[e] # NoSha => \E i \in DOMAIN log : log[i].event = e
  /\ \A o \in Ops : op[o].pc \in {"head", "record"} =>
       \E i \in DOMAIN log : log[i].event = op[o].found /\ log[i].conv = op[o].conv
  /\ \A o \in Ops : op[o].pc = "record" =>
       \A i \in DOMAIN log : log[i].event = op[o].found => log[i].born <= op[o].sha

Ledger == BornBelowHead /\ Captures /\ NoStaleStamp

IInv ==
  /\ TypeOK /\ MovesBound
  /\ HandlersNameTheirs /\ MadeInTime /\ Accounted /\ FilesKept
  /\ Ledger

-----------------------------------------------------------------------------
(***************************************************************************)
(* Handlers and messages.                                                  *)
(***************************************************************************)

Place == {"new", "post", "postRaw", "seed", "search", "head", "record", "run", "say", "del",
          "reap", "purge", "provision"} \cup Over
Message == [conv : Ops, event : Ops, born : Shas]

\* A handler that goes on keeps its kind and its conversation, and its other local
\* variables unless it is over.
LEMMA AtPcIs ==
  ASSUME NEW r \in Handler, NEW pc \in Place
  PROVE  /\ AtPc(r, pc) \in Handler
         /\ AtPc(r, pc).pc = pc /\ AtPc(r, pc).kind = r.kind /\ AtPc(r, pc).conv = r.conv
         /\ pc \notin Over => AtPc(r, pc).found = r.found /\ AtPc(r, pc).sha = r.sha
         /\ pc \in Over => AtPc(r, pc).sha = NoSha
<1>1. CASE pc \in Over
  <2>1. AtPc(r, pc) = [kind |-> r.kind, pc |-> pc, conv |-> r.conv, anchor |-> None,
                       found |-> None, sha |-> NoSha]
    BY <1>1 DEF AtPc, Idle
  <2>2. NoSha \in Shas /\ None \in Ops \cup {None}
    BY BoundsAssumption DEF NoSha, Shas, None
  <2> QED
    BY <1>1, <2>1, <2>2 DEF Handler, Place
<1>2. CASE pc \notin Over
  <2>1. AtPc(r, pc) = [r EXCEPT !.pc = pc]
    BY <1>2 DEF AtPc
  <2> QED
    BY <1>2, <2>1 DEF Handler, Place
<1> QED
  BY <1>1, <1>2

\* What Goto does.
LEMMA GotoIs ==
  ASSUME op \in [Ops -> Handler], NEW o \in Ops, NEW pc \in Place, Goto(o, pc)
  PROVE  /\ op' \in [Ops -> Handler]
         /\ op'[o].pc = pc /\ op'[o].kind = op[o].kind /\ op'[o].conv = op[o].conv
         /\ pc \notin Over => op'[o].found = op[o].found /\ op'[o].sha = op[o].sha
         /\ pc \in Over => op'[o].sha = NoSha
         /\ \A p \in Ops : p # o => op'[p] = op[p]
<1>1. op' = [op EXCEPT ![o] = AtPc(op[o], pc)] /\ op[o] \in Handler
  BY DEF Goto
<1>2. AtPc(op[o], pc) \in Handler
  BY <1>1, AtPcIs
<1> QED
  BY <1>1, <1>2, AtPcIs

\* What an arrival does.
LEMMA ArrivesIs ==
  ASSUME op \in [Ops -> Handler], NEW o \in Ops, NEW kind \in Kinds, NEW pc \in Place,
         NEW c \in Ops, NEW e \in Ops \cup {None}, Arrives(o, kind, pc, c, e)
  PROVE  /\ op[o].pc = "new"
         /\ op' \in [Ops -> Handler]
         /\ op'[o].pc = pc /\ op'[o].kind = kind /\ op'[o].conv = c /\ op'[o].sha = NoSha
         /\ \A p \in Ops : p # o => op'[p] = op[p]
<1> DEFINE r == [kind |-> kind, pc |-> pc, conv |-> c, anchor |-> e, found |-> None, sha |-> NoSha]
<1>1. op[o].pc = "new" /\ op' = [op EXCEPT ![o] = r]
  BY DEF Arrives
<1>2. NoSha \in Shas /\ None \in Ops \cup {None}
  BY BoundsAssumption DEF NoSha, Shas, None
<1>3. r \in Handler
  BY <1>2 DEF Handler, Place
<1>4. r.pc = pc /\ r.kind = kind /\ r.conv = c /\ r.sha = NoSha
  OBVIOUS
<1> HIDE DEF r
<1> QED
  BY <1>1, <1>3, <1>4

\* HEAD of a working_dir: of one that is there, no newer than the last move.
LEMMA HeadOfIs ==
  ASSUME TypeOK, MovesBound, NEW w \in Dirs
  PROVE  /\ HeadOf(w) \in Shas /\ HeadOf(w) <= moves
         /\ HeadOf(w) # NoSha => tree[w] = "live" /\ HeadOf(w) = head[w]
         /\ tree[w] = "live" => HeadOf(w) = head[w]
<1>1. NoSha \in Shas /\ NoSha <= moves
  BY BoundsAssumption DEF NoSha, Shas, TypeOK
<1>2. CASE tree[w] = "live"
  <2>1. HeadOf(w) = head[w] /\ head[w] \in 0..MaxMoves
    BY <1>2 DEF HeadOf, TypeOK
  <2> QED
    BY <1>2, <2>1 DEF Shas, MovesBound
<1>3. CASE tree[w] # "live"
  BY <1>1, <1>3 DEF HeadOf
<1> QED
  BY <1>2, <1>3

\* The log with one message more.
LEMMA PostedIs ==
  ASSUME TypeOK, MovesBound, NEW o \in Ops, NEW c \in Ops, dir'[c] \in Dirs,
         Posted(o, c)
  PROVE  /\ log' \in Seq(Message)
         /\ \E n : /\ n \notin DOMAIN log /\ DOMAIN log' = DOMAIN log \cup {n}
                   /\ log'[n].conv = c /\ log'[n].event = o /\ log'[n].born = HeadOf(dir'[c])
         /\ \A i \in DOMAIN log : log'[i] = log[i]
<1> DEFINE m == [conv |-> c, event |-> o, born |-> HeadOf(dir'[c])]
<1>1. m \in Message
  BY HeadOfIs DEF Message
<1>2. m.conv = c /\ m.event = o /\ m.born = HeadOf(dir'[c])
  OBVIOUS
<1>3. log \in Seq(Message) /\ log' = Append(log, m)
  BY DEF TypeOK, Message, Posted
<1> HIDE DEF m
<1>4. /\ log' \in Seq(Message) /\ Len(log') = Len(log) + 1 /\ Len(log) \in Nat
      /\ DOMAIN log = 1..Len(log) /\ DOMAIN log' = 1..Len(log')
      /\ \A i \in 1..Len(log) : log'[i] = log[i]
      /\ log'[Len(log) + 1] = m
  BY <1>1, <1>3, AppendProperties, LenProperties
<1>5. /\ Len(log) + 1 \notin DOMAIN log
      /\ DOMAIN log' = DOMAIN log \cup {Len(log) + 1}
  BY <1>4
<1> QED
  BY <1>2, <1>4, <1>5

\* Removing a worktree removes that one, if any.
LEMMA RemovedIs ==
  ASSUME TypeOK, NEW w \in Dirs, tree' = Removed(w)
  PROVE  /\ tree' \in [Dirs -> {"none", "half", "live", "gone"}]
         /\ w \in Ops => ~OnDisk(w)'
         /\ \A x \in Dirs :
              tree'[x] = tree[x] \/ (x \in Ops /\ x = w /\ OnDisk(x) /\ tree'[x] = "gone")
  BY DEF TypeOK, Removed, OnDisk, RawPath, Ops

\* A worktree that could not be made leaves nothing, or an excused half.
LEMMA NotProvisionedIs ==
  ASSUME TypeOK, NEW o \in Ops, tree[o] = "none", NotProvisioned(o)
  PROVE  /\ tree' \in [Dirs -> {"none", "half", "live", "gone"}]
         /\ head' = head /\ faults' \in 0 .. MaxFaults
         /\ excused \subseteq excused' /\ excused' \subseteq Ops
         /\ tree'[o] # "live" /\ (OnDisk(o)' => o \in excused')
         /\ \A w \in Dirs : w # o => tree'[w] = tree[w]
<1>1. head' = head /\ faults' \in 0 .. MaxFaults
  BY BoundsAssumption DEF NotProvisioned, Fault, TypeOK
<1>2. CASE tree' = tree /\ excused' = excused
  BY <1>1, <1>2 DEF TypeOK, OnDisk
<1>3. CASE tree' = [tree EXCEPT ![o] = "half"] /\ excused' = excused \cup {o}
  BY <1>1, <1>3 DEF TypeOK
<1> QED
  BY <1>2, <1>3 DEF NotProvisioned

-----------------------------------------------------------------------------
(***************************************************************************)
(* What is kept of the parts of the invariant, whatever the action.        *)
(***************************************************************************)

\* Handlers only go forward, and what they have named stays.
Onward ==
  \A p \in Ops :
    /\ op'[p].pc \in Unprovisioned => op[p].pc \in Unprovisioned
    /\ op'[p].pc \in Unmade => op[p].pc \in Unmade
    /\ op'[p].pc \in Unposted => op[p].pc \in Unposted
    /\ op[p].pc # "new" => op'[p].kind = op[p].kind /\ op'[p].conv = op[p].conv

\* Conversations and worktrees are made by handlers that have come so far, and a
\* conversation that has been made keeps its working_dir.
MadeByOwner ==
  /\ \A c \in Ops : conv[c] # "none" => conv'[c] # "none" /\ dir'[c] = dir[c]
  /\ \A c \in Ops : conv'[c] # "none" => conv[c] # "none" \/ op'[c].pc \notin Unmade
  /\ \A c \in Ops : dir'[c] # RawPath =>
       \/ dir'[c] = dir[c]
       \/ dir'[c] \in Ops /\ op'[dir'[c]].pc \notin Unmade
  /\ \A w \in Ops : tree'[w] # "none" => tree[w] # "none" \/ op'[w].pc \notin Unprovisioned

\* The log keeps its messages; a new one is of a handler that has come so far.
LogGrows ==
  /\ \A i \in DOMAIN log : i \in DOMAIN log' /\ log'[i] = log[i]
  /\ \A i \in DOMAIN log' \ DOMAIN log :
       /\ log'[i].event \in Ops /\ log'[i].conv \in Ops
       /\ op[log'[i].event].pc \in Unposted /\ op'[log'[i].event].pc \notin Unposted
       /\ op'[log'[i].event].conv = log'[i].conv
       /\ conv'[log'[i].conv] # "none"

\* The members of the log.
LEMMA LogIs ==
  ASSUME TypeOK, NEW i \in DOMAIN log
  PROVE  log[i].event \in Ops /\ log[i].conv \in Ops /\ log[i].born \in Shas
<1>1. log \in Seq(Message)
  BY DEF TypeOK, Message
<1>2. i \in 1 .. Len(log)
  BY <1>1, LenProperties
<1>3. log[i] \in Message
  BY <1>1, <1>2, ElementOfSeq
<1> QED
  BY <1>3 DEF Message

\* Such a step keeps MadeInTime.
LEMMA MadeStays ==
  ASSUME TypeOK, HandlersNameTheirs, MadeInTime, Onward, MadeByOwner, LogGrows
  PROVE  MadeInTime'
<1>1. \A c \in Ops : conv'[c] # "none" => op'[c].pc \notin Unmade
  BY DEF MadeInTime, Onward, MadeByOwner
<1>2. \A c \in Ops : dir'[c] # RawPath => op'[dir'[c]].pc \notin Unmade
  <2> SUFFICES ASSUME NEW c \in Ops, dir'[c] # RawPath, dir'[c] = dir[c]
               PROVE  op'[dir'[c]].pc \notin Unmade
    BY DEF MadeByOwner
  <2>1. dir[c] \in Ops /\ op[dir[c]].pc \notin Unmade
    BY DEF TypeOK, MadeInTime
  <2> QED
    BY <2>1 DEF Onward
<1>3. \A w \in Ops : tree'[w] # "none" => op'[w].pc \notin Unprovisioned
  BY DEF MadeInTime, Onward, MadeByOwner
<1>4. ASSUME NEW i \in DOMAIN log'
      PROVE  /\ op'[log'[i].event].pc \notin Unposted
             /\ op'[log'[i].event].conv = log'[i].conv
             /\ conv'[log'[i].conv] # "none"
  <2>1. CASE i \in DOMAIN log
    <3>1. log'[i] = log[i] /\ log[i].event \in Ops /\ log[i].conv \in Ops
      BY <2>1, LogIs DEF LogGrows
    <3>2. /\ op[log[i].event].pc \notin Unposted
          /\ op[log[i].event].conv = log[i].conv
          /\ conv[log[i].conv] # "none"
      BY <2>1 DEF MadeInTime
    <3>3. op[log[i].event].pc # "new"
      BY <3>2 DEF Unposted, Unmade, Unprovisioned
    <3> QED
      BY <3>1, <3>2, <3>3 DEF Onward, MadeByOwner
  <2>2. CASE i \notin DOMAIN log
    BY <2>2 DEF LogGrows
  <2> QED
    BY <2>1, <2>2
<1> QED
  BY <1>1, <1>2, <1>3, <1>4 DEF MadeInTime

\* A worktree whose run was deleted stays so.
LEMMA DeletedStays ==
  ASSUME HandlersNameTheirs, Onward, MadeByOwner, NEW w \in Ops, Deleted(w)
  PROVE  Deleted(w)'
<1>1. PICK p \in Ops : op[p].kind = "delete" /\ dir[op[p].conv] = w
  BY DEF Deleted
<1>2. op[p].conv \in Ops /\ conv[op[p].conv] # "none" /\ op[p].pc # "new"
  BY <1>1 DEF HandlersNameTheirs, NamesTheirs
<1>3. op'[p].kind = "delete" /\ dir'[op'[p].conv] = w
  BY <1>1, <1>2 DEF Onward, MadeByOwner
<1> QED
  BY <1>3 DEF Deleted

\* A step of one handler alone.
StepOf(o) == \A p \in Ops : p # o => op'[p] = op[p] /\ dir'[p] = dir[p]

\* It keeps what is true of the others, unless a worktree of theirs is removed for a delete.
LEMMA OthersStay ==
  ASSUME HandlersNameTheirs, FilesKept, Onward, MadeByOwner, NEW o \in Ops, StepOf(o),
         \A p \in Ops : p # o => tree'[p] = tree[p] \/ (Deleted(p)' /\ op[p].pc # "post"),
         NamesTheirs(o)', HasFiles(o)'
  PROVE  HandlersNameTheirs' /\ FilesKept'
<1>1. ASSUME NEW p \in Ops, p # o
      PROVE  NamesTheirs(p)'
  <2>1. op'[p] = op[p] /\ NamesTheirs(p)
    BY <1>1 DEF StepOf, HandlersNameTheirs
  <2> QED
    BY <2>1 DEF NamesTheirs, MadeByOwner
<1>2. ASSUME NEW p \in Ops, p # o
      PROVE  HasFiles(p)'
  <2>1. op'[p] = op[p] /\ dir'[p] = dir[p] /\ HasFiles(p)
    BY <1>2 DEF StepOf, FilesKept
  <2>2. Deleted(p) => Deleted(p)'
    BY DeletedStays
  <2>3. CASE tree'[p] = tree[p]
    BY <2>1, <2>2, <2>3 DEF HasFiles
  <2>4. CASE Deleted(p)' /\ op[p].pc # "post"
    BY <2>1, <2>4 DEF HasFiles
  <2> QED
    BY <1>2, <2>3, <2>4
<1> QED
  BY <1>1, <1>2 DEF HandlersNameTheirs, FilesKept

\* A worktree stays in the hands it was in, unless they let it go.
LEMMA HandsStay ==
  ASSUME HandlersNameTheirs, Accounted, Onward, MadeByOwner, NEW o \in Ops,
         \A p \in Ops : p # o => op'[p] = op[p],
         \A c \in Ops : conv[c] = "live" => conv'[c] = "live",
         excused \subseteq excused',
         NEW w \in Ops, OnDisk(w),
         ~(At(o, "delete", "reap") /\ dir[op[o].conv] = w),
         ~(w = o /\ op[o].pc = "post")
  PROVE  InUse(w)' \/ Reaping(w)' \/ op'[w].pc = "post" \/ w \in excused'
<1>1. CASE InUse(w)
  <2>1. PICK c \in Ops : conv[c] = "live" /\ dir[c] = w
    BY <1>1 DEF InUse
  <2>2. conv'[c] = "live" /\ dir'[c] = w
    BY <2>1 DEF MadeByOwner
  <2> QED
    BY <2>2 DEF InUse
<1>2. CASE Reaping(w)
  <2>1. PICK d \in Ops : At(d, "delete", "reap") /\ dir[op[d].conv] = w
    BY <1>2 DEF Reaping
  <2>2. d # o /\ op'[d] = op[d]
    BY <2>1
  <2>3. op[d].conv \in Ops /\ conv[op[d].conv] # "none"
    BY <2>1 DEF HandlersNameTheirs, NamesTheirs, At
  <2>4. At(d, "delete", "reap")' /\ dir'[op'[d].conv] = w
    BY <2>1, <2>2, <2>3 DEF MadeByOwner, At
  <2> QED
    BY <2>4 DEF Reaping
<1>3. CASE op[w].pc = "post"
  BY <1>3
<1>4. CASE w \in excused
  BY <1>4
<1> QED
  BY <1>1, <1>2, <1>3, <1>4 DEF Accounted

\* Whatever keeps the working_dirs of what is there, the stamps and the captures keeps the
\* ledger right: worktrees only move forward, and a new message is born at their HEAD.
LEMMA LedgerStays ==
  ASSUME TypeOK, MadeInTime, Ledger, LogGrows, stamp' = stamp,
         \A c \in Ops : conv[c] # "none" => dir'[c] = dir[c],
         \A w \in Dirs : tree'[w] = "live" =>
           \/ tree[w] = "live" /\ head[w] <= head'[w]
           \/ w \in Ops /\ op[w].pc \in Unprovisioned,
         \A w \in Dirs : head[w] \in Int /\ head'[w] \in Int,
         \A i \in DOMAIN log' \ DOMAIN log :
           LET w == dir'[log'[i].conv] IN
           tree'[w] = "live" => log'[i].born <= head'[w],
         \A p \in Ops : op'[p].pc \in {"head", "record"} => op'[p] = op[p]
  PROVE  Ledger'
<1>1. BornBelowHead'
  <2> SUFFICES ASSUME NEW i \in DOMAIN log', tree'[dir'[log'[i].conv]] = "live"
               PROVE  log'[i].born <= head'[dir'[log'[i].conv]]
    BY DEF BornBelowHead
  <2>1. CASE i \in DOMAIN log
    <3> DEFINE w == dir[log[i].conv]
    <3>1. /\ log'[i] = log[i] /\ log[i].conv \in Ops /\ log[i].born \in Int
          /\ conv[log[i].conv] # "none"
      BY <2>1, LogIs DEF LogGrows, MadeInTime, Shas
    <3>2. dir'[log'[i].conv] = w /\ w \in Dirs /\ (w \in Ops => op[w].pc \notin Unmade)
      <4>1. dir'[log'[i].conv] = w
        BY <3>1
      <4>2. w \in Dirs /\ (w # RawPath => op[w].pc \notin Unmade)
        BY <3>1 DEF TypeOK, MadeInTime
      <4>3. RawPath \notin Ops
        BY DEF RawPath, Ops
      <4> QED
        BY <4>1, <4>2, <4>3
    <3>3. tree[w] = "live" /\ head[w] <= head'[w] /\ head[w] \in Int /\ head'[w] \in Int
      <4>1. tree'[w] = "live" /\ w \in Dirs
        BY <3>2
      <4>2. w \in Ops => op[w].pc \notin Unprovisioned
        BY <3>2 DEF Unmade
      <4> HIDE DEF w
      <4> QED
        BY <4>1, <4>2
    <3>4. log[i].born <= head[w]
      BY <2>1, <3>2, <3>3 DEF Ledger, BornBelowHead
    <3> HIDE DEF w
    <3> QED
      BY <3>1, <3>2, <3>3, <3>4
  <2>2. CASE i \notin DOMAIN log
    BY <2>2
  <2> QED
    BY <2>1, <2>2
<1>2. ASSUME NEW e \in Ops, stamp'[e] # NoSha
      PROVE  \E i \in DOMAIN log : log[i].event = e
  BY <1>2 DEF Ledger, Captures
<1>3. ASSUME NEW p \in Ops, op'[p].pc \in {"head", "record"}
      PROVE  \E i \in DOMAIN log : log[i].event = op[p].found /\ log[i].conv = op[p].conv
  BY <1>3 DEF Ledger, Captures
\* No new message is of an event that is stamped or found.
<1>4. ASSUME NEW i \in DOMAIN log' \ DOMAIN log, NEW j \in DOMAIN log
      PROVE  log'[i].event # log[j].event
  BY DEF LogGrows, MadeInTime
<1>5. Captures'
  <2>1. \A e \in Ops : stamp'[e] # NoSha => \E i \in DOMAIN log' : log'[i].event = e
    BY <1>2 DEF LogGrows
  <2>2. \A p \in Ops : op'[p].pc \in {"head", "record"} =>
          \E i \in DOMAIN log' : log'[i].event = op'[p].found /\ log'[i].conv = op'[p].conv
    BY <1>3 DEF LogGrows
  <2>3. ASSUME NEW p \in Ops, op'[p].pc = "record",
               NEW i \in DOMAIN log', log'[i].event = op'[p].found
        PROVE  log'[i].born <= op'[p].sha
    <3>1. op'[p] = op[p] /\ op[p].pc = "record"
      BY <2>3
    <3>2. i \in DOMAIN log
      BY <1>3, <1>4, <2>3, <3>1
    <3> QED
      BY <2>3, <3>1, <3>2 DEF LogGrows, Ledger, Captures
  <2> QED
    BY <2>1, <2>2, <2>3 DEF Captures
<1>6. NoStaleStamp'
  <2> SUFFICES ASSUME NEW i \in DOMAIN log', stamp'[log'[i].event] # NoSha
               PROVE  log'[i].born <= stamp'[log'[i].event]
    BY DEF NoStaleStamp
  <2>1. i \in DOMAIN log
    BY <1>2, <1>4 DEF LogGrows
  <2> QED
    BY <2>1 DEF LogGrows, Ledger, NoStaleStamp
<1> QED
  BY <1>1, <1>5, <1>6 DEF Ledger

\* Without a new message, nothing of the log changes.
LEMMA LogStays ==
  ASSUME log' = log
  PROVE  LogGrows
  BY DEF LogGrows

-----------------------------------------------------------------------------
(***************************************************************************)
(* The actions that touch neither worktrees nor conversations.             *)
(***************************************************************************)

\* The integers of a state.
LEMMA NumbersAre ==
  ASSUME TypeOK
  PROVE  /\ moves \in Nat /\ NoSha \in Shas /\ NoSha <= moves
         /\ \A w \in Dirs : head[w] \in Nat
         /\ \A e \in Ops : stamp[e] \in Int
         /\ \A o \in Ops : op[o].sha \in Int /\ op[o].found \in Ops \cup {None}
  BY BoundsAssumption DEF TypeOK, NoSha, Shas, Handler

Quietly(o) ==
  /\ op' \in [Ops -> Handler]
  /\ \A p \in Ops : p # o => op'[p] = op[p]
  /\ tree' = tree /\ excused' = excused /\ conv' = conv /\ dir' = dir /\ log' = log

\* A handler whose conversation and message are there goes on, or one arrives.
LEMMA QuietKeeps ==
  ASSUME IInv, NEW o \in Ops, Quietly(o),
         \/ /\ op[o].pc \in {"search", "head", "record", "run", "purge"}
            /\ op'[o].pc \in {"head", "record", "run", "ok"}
            /\ op'[o].kind = op[o].kind /\ op'[o].conv = op[o].conv
         \/ /\ op[o].pc = "new"
            /\ op'[o].pc \in {"say", "del"} /\ op'[o].kind \in {"message", "delete"}
            /\ op'[o].pc = "del" <=> op'[o].kind = "delete"
            /\ op'[o].conv \in Ops /\ conv[op'[o].conv] # "none"
  PROVE  HandlersNameTheirs' /\ MadeInTime' /\ Accounted' /\ FilesKept'
<1>1. TypeOK /\ HandlersNameTheirs /\ MadeInTime /\ Accounted /\ FilesKept
  BY DEF IInv
<1>2. Onward
  BY DEF Quietly, Onward, Unposted, Unmade, Unprovisioned
<1>3. MadeByOwner /\ LogGrows
  BY DEF Quietly, MadeByOwner, LogGrows
<1>4. MadeInTime'
  BY <1>1, <1>2, <1>3, MadeStays
<1>5. NamesTheirs(o)'
  BY <1>1 DEF Quietly, NamesTheirs, HandlersNameTheirs, Handler, TypeOK
<1>6. HasFiles(o)'
  <2>1. HasFiles(o) /\ NamesTheirs(o) /\ (Deleted(o) => Deleted(o)')
    BY <1>1, <1>2, <1>3, DeletedStays DEF FilesKept, HandlersNameTheirs
  <2> QED
    BY <2>1 DEF HasFiles, NamesTheirs, Quietly
<1>7. HandlersNameTheirs' /\ FilesKept'
  BY <1>1, <1>2, <1>3, <1>5, <1>6, OthersStay DEF Quietly, StepOf
<1>8. Accounted'
  <2> SUFFICES ASSUME NEW w \in Ops, OnDisk(w)
               PROVE  InUse(w)' \/ Reaping(w)' \/ op'[w].pc = "post" \/ w \in excused'
    BY DEF Accounted, Quietly, OnDisk
  <2> QED
    BY <1>1, <1>2, <1>3, HandsStay DEF Quietly, At
<1> QED
  BY <1>4, <1>7, <1>8

\* create_run starts the conversation it made, if it is still there.
LEMMA CreateRunKeeps ==
  ASSUME IInv, NEW o \in Ops, CreateRun(o)
  PROVE  IInv'
<1>1. TypeOK /\ MovesBound /\ NamesTheirs(o) /\ MadeInTime /\ Ledger
  BY DEF IInv, HandlersNameTheirs
<1>2. /\ op' \in [Ops -> Handler]
      /\ op'[o].pc = "ok" /\ op'[o].kind = op[o].kind /\ op'[o].conv = op[o].conv
      /\ op'[o].sha = NoSha
      /\ \A p \in Ops : p # o => op'[p] = op[p]
  BY <1>1, GotoIs DEF TypeOK, CreateRun, Place, Over
<1>3. /\ op[o].pc = "run"
      /\ UNCHANGED <<tree, head, excused, conv, dir, log, stamp, moves, faults>>
      /\ running' \subseteq Ops
  BY <1>1 DEF CreateRun, At, files, TypeOK
<1>4. TypeOK'
  BY <1>1, <1>2, <1>3 DEF TypeOK
<1>5. MovesBound'
  BY <1>1, <1>2, <1>3, NumbersAre DEF MovesBound
<1>6. HandlersNameTheirs' /\ MadeInTime' /\ Accounted' /\ FilesKept'
  BY <1>2, <1>3, QuietKeeps DEF Quietly
<1>7. Ledger'
  BY <1>1, <1>2, <1>3, LogStays, NumbersAre, LedgerStays
<1> QED
  BY <1>4, <1>5, <1>6, <1>7 DEF IInv

\* The events of a conversation are messages of the log that are of it.
LEMMA HitsAre ==
  ASSUME TypeOK, NEW o \in Ops, NEW e \in Hits(o), e # None
  PROVE  \E i \in DOMAIN log : log[i].event = e /\ log[i].conv = op[o].conv
<1> DEFINE events == EventsOf(op[o].conv)
<1>1. e \in Oldest(events) \cup Newest(events)
  BY DEF Hits
<1>2. \E i \in events : log[i].event = e
  BY <1>1 DEF Oldest, Newest
<1> QED
  BY <1>2 DEF EventsOf

\* What a search finds is a message of the conversation it was made in.
LEMMA SearchKeeps ==
  ASSUME IInv, NEW o \in Ops, Search(o)
  PROVE  IInv'
<1>1. /\ TypeOK /\ MovesBound /\ NamesTheirs(o) /\ MadeInTime /\ Ledger
      /\ op[o] \in Handler
  BY DEF IInv, HandlersNameTheirs, TypeOK
<1>2. /\ op[o].pc = "search"
      /\ UNCHANGED <<tree, head, excused, conv, dir, log, running, stamp, moves>>
      /\ faults' \in 0 .. MaxFaults
  BY <1>1, BoundsAssumption DEF Search, files, server, Fault, TypeOK
<1>3. /\ op' \in [Ops -> Handler]
      /\ op'[o].pc \in {"head", "run", "ok"}
      /\ op'[o].kind = op[o].kind /\ op'[o].conv = op[o].conv
      /\ op'[o].sha \in {op[o].sha, NoSha}
      /\ op'[o].pc = "head" =>
           \E i \in DOMAIN log : log[i].event = op'[o].found /\ log[i].conv = op[o].conv
      /\ \A p \in Ops : p # o => op'[p] = op[p]
  <2>1. CASE Goto(o, Captured(o))
    <3>1. Captured(o) \in {"run", "ok"}
      BY DEF Captured
    <3> QED
      BY <1>1, <2>1, <3>1, GotoIs DEF TypeOK, Place, Over
  <2>2. ASSUME NEW e \in Hits(o),
               op' = [op EXCEPT ![o] = AtPc([op[o] EXCEPT !.found = e],
                                            IF e = None THEN Captured(o) ELSE "head")]
        PROVE  <1>3
    <3> DEFINE pc == IF e = None THEN Captured(o) ELSE "head"
               r == [op[o] EXCEPT !.found = e]
    <3>1. e = None \/ \E i \in DOMAIN log : log[i].event = e /\ log[i].conv = op[o].conv
      BY <1>1, HitsAre
    <3>2. e \in Ops \cup {None}
      BY <1>1, <3>1, LogIs
    <3>3. r \in Handler /\ r.kind = op[o].kind /\ r.conv = op[o].conv /\ r.found = e
          /\ r.sha = op[o].sha
      BY <1>1, <3>2 DEF Handler
    <3>4. pc \in {"run", "ok", "head"} /\ (pc = "head" => e # None)
      BY DEF Captured
    <3>5. op' = [op EXCEPT ![o] = AtPc(r, pc)]
      BY <2>2
    <3> HIDE DEF r, pc
    <3>6. /\ AtPc(r, pc) \in Handler
          /\ AtPc(r, pc).pc = pc /\ AtPc(r, pc).kind = r.kind /\ AtPc(r, pc).conv = r.conv
          /\ pc \notin Over => AtPc(r, pc).found = r.found /\ AtPc(r, pc).sha = r.sha
          /\ pc \in Over => AtPc(r, pc).sha = NoSha
      BY <3>3, <3>4, AtPcIs DEF Place, Over
    <3>7. op[o] \in Handler /\ op \in [Ops -> Handler]
      BY <1>1 DEF TypeOK
    <3>8. op'[o] = AtPc(r, pc) /\ op' \in [Ops -> Handler]
          /\ \A p \in Ops : p # o => op'[p] = op[p]
      BY <3>5, <3>6, <3>7
    <3> QED
      BY <3>1, <3>3, <3>4, <3>6, <3>8 DEF Over
  <2> QED
    BY <2>1, <2>2 DEF Search
<1>4. TypeOK'
  BY <1>1, <1>2, <1>3 DEF TypeOK
<1>5. MovesBound'
  BY <1>1, <1>2, <1>3, NumbersAre DEF MovesBound
<1>6. HandlersNameTheirs' /\ MadeInTime' /\ Accounted' /\ FilesKept'
  BY <1>2, <1>3, QuietKeeps DEF Quietly
<1>7. Ledger'
  <2>1. BornBelowHead' /\ NoStaleStamp'
    BY <1>1, <1>2 DEF Ledger, BornBelowHead, NoStaleStamp
  <2>2. Captures'
    BY <1>1, <1>2, <1>3 DEF Ledger, Captures
  <2> QED
    BY <2>1, <2>2 DEF Ledger
<1> QED
  BY <1>4, <1>5, <1>6, <1>7 DEF IInv

\* The HEAD that is read is no older than what was born in the worktree so far.
LEMMA ReadHeadKeeps ==
  ASSUME IInv, NEW o \in Ops, ReadHead(o)
  PROVE  IInv'
<1>1. /\ TypeOK /\ MovesBound /\ NamesTheirs(o) /\ MadeInTime /\ Ledger
      /\ op \in [Ops -> Handler] /\ op[o] \in Handler
  BY DEF IInv, HandlersNameTheirs, TypeOK
<1>2. /\ op[o].pc = "head"
      /\ UNCHANGED <<tree, head, excused, conv, dir, log, running, stamp, moves, faults>>
  BY DEF ReadHead, files, server
<1> DEFINE w == dir[op[o].conv]
           sha == HeadOf(w)
           pc == IF sha = NoSha THEN Captured(o) ELSE "record"
           r == [op[o] EXCEPT !.sha = sha]
<1>3. PICK j \in DOMAIN log : log[j].event = op[o].found /\ log[j].conv = op[o].conv
  BY <1>1, <1>2 DEF Ledger, Captures
<1>4. op[o].conv \in Ops /\ w \in Dirs
  BY <1>1, <1>3, LogIs DEF TypeOK
<1>5. /\ sha \in Shas /\ sha <= moves
      /\ sha # NoSha => tree[w] = "live" /\ sha = head[w]
  BY <1>1, <1>4, HeadOfIs
<1>6. op' = [op EXCEPT ![o] = AtPc(r, pc)]
  BY DEF ReadHead
<1>7. r \in Handler /\ r.kind = op[o].kind /\ r.conv = op[o].conv /\ r.found = op[o].found
      /\ r.sha = sha
  BY <1>1, <1>5 DEF Handler
<1>8. pc \in {"record", "run", "ok"} /\ (pc = "record" => sha # NoSha)
  BY DEF Captured
<1> HIDE DEF r, pc, sha
<1>9. /\ AtPc(r, pc) \in Handler
      /\ AtPc(r, pc).pc = pc /\ AtPc(r, pc).kind = r.kind /\ AtPc(r, pc).conv = r.conv
      /\ pc \notin Over => AtPc(r, pc).found = r.found /\ AtPc(r, pc).sha = r.sha
      /\ pc \in Over => AtPc(r, pc).sha = NoSha
  BY <1>7, <1>8, AtPcIs DEF Place, Over
<1>10. op'[o] = AtPc(r, pc) /\ op' \in [Ops -> Handler]
       /\ \A p \in Ops : p # o => op'[p] = op[p]
  BY <1>1, <1>6, <1>9
<1>11. /\ op'[o].pc = pc /\ op'[o].kind = op[o].kind /\ op'[o].conv = op[o].conv
       /\ op'[o].sha \in {sha, NoSha}
       /\ pc = "record" => op'[o].found = op[o].found /\ op'[o].sha = sha
  BY <1>7, <1>8, <1>9, <1>10 DEF Over
<1>12. TypeOK'
  BY <1>1, <1>2, <1>10 DEF TypeOK
<1>13. MovesBound'
  BY <1>1, <1>2, <1>5, <1>10, <1>11, NumbersAre DEF MovesBound
<1>14. HandlersNameTheirs' /\ MadeInTime' /\ Accounted' /\ FilesKept'
  BY <1>2, <1>8, <1>10, <1>11, QuietKeeps DEF Quietly
<1>15. Ledger'
  <2>1. BornBelowHead' /\ NoStaleStamp'
    BY <1>1, <1>2 DEF Ledger, BornBelowHead, NoStaleStamp
  <2>2. ASSUME pc = "record", NEW i \in DOMAIN log, log[i].event = op[o].found
        PROVE  log[i].born <= sha
    <3>1. log[i].conv = op[o].conv
      BY <1>1, <1>3, <2>2 DEF MadeInTime
    <3> QED
      BY <1>1, <1>5, <1>8, <2>2, <3>1 DEF Ledger, BornBelowHead, RawPath, Ops
  <2>3. \A e \in Ops : stamp'[e] # NoSha => \E i \in DOMAIN log' : log'[i].event = e
    BY <1>1, <1>2 DEF Ledger, Captures
  <2>4. \A p \in Ops : op'[p].pc \in {"head", "record"} =>
          \E i \in DOMAIN log' : log'[i].event = op'[p].found /\ log'[i].conv = op'[p].conv
    BY <1>1, <1>2, <1>3, <1>8, <1>10, <1>11 DEF Ledger, Captures
  <2>5. \A p \in Ops : op'[p].pc = "record" =>
          \A i \in DOMAIN log' : log'[i].event = op'[p].found => log'[i].born <= op'[p].sha
    BY <1>1, <1>2, <1>10, <1>11, <2>2 DEF Ledger, Captures
  <2> QED
    BY <2>1, <2>3, <2>4, <2>5 DEF Ledger, Captures
<1> QED
  BY <1>12, <1>13, <1>14, <1>15 DEF IInv

\* The HEAD that is recorded is no older than the message it is recorded for.
LEMMA RecordKeeps ==
  ASSUME IInv, NEW o \in Ops, Record(o)
  PROVE  IInv'
<1>1. /\ TypeOK /\ MovesBound /\ NamesTheirs(o) /\ MadeInTime /\ Ledger
      /\ op[o] \in Handler
  BY DEF IInv, HandlersNameTheirs, TypeOK
<1>2. /\ op[o].pc = "record"
      /\ stamp' = [stamp EXCEPT ![op[o].found] = op[o].sha]
      /\ UNCHANGED <<tree, head, excused, conv, dir, log, running, moves, faults>>
  BY DEF Record, files, server
<1>3. Captured(o) \in {"run", "ok"}
  BY DEF Captured
<1>4. /\ op' \in [Ops -> Handler]
      /\ op'[o].pc \in {"run", "ok"}
      /\ op'[o].kind = op[o].kind /\ op'[o].conv = op[o].conv
      /\ op'[o].sha \in {op[o].sha, NoSha}
      /\ \A p \in Ops : p # o => op'[p] = op[p]
  BY <1>1, <1>3, GotoIs DEF TypeOK, Record, Place, Over
<1>5. PICK j \in DOMAIN log : log[j].event = op[o].found
  BY <1>1, <1>2 DEF Ledger, Captures
<1>6. op[o].found \in Ops /\ op[o].sha \in Shas /\ op[o].sha <= moves
  BY <1>1, <1>5, LogIs DEF Handler, MovesBound
<1>7. /\ stamp'[op[o].found] = op[o].sha
      /\ \A e \in Ops : e # op[o].found => stamp'[e] = stamp[e]
      /\ stamp' \in [Ops -> Shas]
  BY <1>1, <1>2, <1>6 DEF TypeOK
<1>8. TypeOK'
  BY <1>1, <1>2, <1>4, <1>7 DEF TypeOK
<1>9. MovesBound'
  <2>1. \A w \in Ops : stamp'[w] <= moves
    BY <1>1, <1>6, <1>7 DEF MovesBound
  <2> QED
    BY <1>1, <1>2, <1>4, <1>6, <2>1, NumbersAre DEF MovesBound
<1>10. HandlersNameTheirs' /\ MadeInTime' /\ Accounted' /\ FilesKept'
  BY <1>2, <1>4, QuietKeeps DEF Quietly
<1>11. Ledger'
  <2>1. BornBelowHead'
    BY <1>1, <1>2 DEF Ledger, BornBelowHead
  <2>2. \A e \in Ops : stamp'[e] # NoSha => \E i \in DOMAIN log' : log'[i].event = e
    BY <1>1, <1>2, <1>5, <1>7 DEF Ledger, Captures
  <2>3. Captures'
    BY <1>1, <1>2, <1>4, <2>2 DEF Ledger, Captures
  <2>4. NoStaleStamp'
    <3> SUFFICES ASSUME NEW i \in DOMAIN log, stamp'[log[i].event] # NoSha
                 PROVE  log[i].born <= stamp'[log[i].event]
      BY <1>2 DEF NoStaleStamp
    <3>1. log[i].event \in Ops
      BY <1>1, LogIs
    <3>2. CASE log[i].event = op[o].found
      BY <1>1, <1>2, <1>7, <3>2 DEF Ledger, Captures
    <3>3. CASE log[i].event # op[o].found
      BY <1>1, <1>7, <3>1, <3>3 DEF Ledger, NoStaleStamp
    <3> QED
      BY <3>2, <3>3
  <2> QED
    BY <2>1, <2>3, <2>4 DEF Ledger
<1> QED
  BY <1>8, <1>9, <1>10, <1>11 DEF IInv

\* A purge takes stamps away, and adds none.
LEMMA DeletePurgeKeeps ==
  ASSUME IInv, NEW o \in Ops, DeletePurge(o)
  PROVE  IInv'
<1>1. TypeOK /\ MovesBound /\ NamesTheirs(o) /\ MadeInTime /\ Ledger
  BY DEF IInv, HandlersNameTheirs
<1>2. /\ op[o].pc = "purge"
      /\ UNCHANGED <<tree, head, excused, conv, dir, log, running, moves>>
      /\ faults' \in 0 .. MaxFaults
  BY <1>1, BoundsAssumption DEF DeletePurge, At, files, server, Fault, TypeOK
<1>3. /\ op' \in [Ops -> Handler]
      /\ op'[o].pc = "ok" /\ op'[o].kind = op[o].kind /\ op'[o].conv = op[o].conv
      /\ op'[o].sha = NoSha
      /\ \A p \in Ops : p # o => op'[p] = op[p]
  BY <1>1, GotoIs DEF TypeOK, DeletePurge, Place, Over
<1>4. stamp' \in [Ops -> Shas] /\ \A e \in Ops : stamp'[e] \in {stamp[e], NoSha}
  <2>1. CASE stamp' = Purged(op[o].conv)
    BY <1>1, <2>1, NumbersAre DEF Purged, TypeOK
  <2> QED
    BY <1>1, <2>1 DEF DeletePurge, TypeOK
<1>5. TypeOK'
  BY <1>1, <1>2, <1>3, <1>4 DEF TypeOK
<1>6. MovesBound'
  BY <1>1, <1>2, <1>3, <1>4, NumbersAre DEF MovesBound
<1>7. HandlersNameTheirs' /\ MadeInTime' /\ Accounted' /\ FilesKept'
  BY <1>2, <1>3, QuietKeeps DEF Quietly
<1>8. Ledger'
  <2>1. BornBelowHead'
    BY <1>1, <1>2 DEF Ledger, BornBelowHead
  <2>2. Captures'
    BY <1>1, <1>2, <1>3, <1>4 DEF Ledger, Captures
  <2>3. NoStaleStamp'
    <3> SUFFICES ASSUME NEW i \in DOMAIN log, stamp'[log[i].event] # NoSha
                 PROVE  log[i].born <= stamp'[log[i].event]
      BY <1>2 DEF NoStaleStamp
    <3>1. log[i].event \in Ops
      BY <1>1, LogIs
    <3> QED
      BY <1>1, <1>4, <3>1 DEF Ledger, NoStaleStamp
  <2> QED
    BY <2>1, <2>2, <2>3 DEF Ledger
<1> QED
  BY <1>5, <1>6, <1>7, <1>8 DEF IInv

\* A message or a delete names a conversation that is there.
LEMMA MessageOrDeleteArrives ==
  ASSUME IInv, NEW o \in Ops, MessageArrives(o) \/ DeleteArrives(o)
  PROVE  IInv'
<1>1. TypeOK /\ MovesBound /\ MadeInTime /\ Ledger
  BY DEF IInv
<1>2. UNCHANGED <<tree, head, excused, conv, dir, log, running, stamp, moves, faults>>
  BY DEF MessageArrives, DeleteArrives, files, server
<1>3. PICK c \in Ops :
        /\ conv[c] = "live"
        /\ Arrives(o, "message", "say", c, None) \/ Arrives(o, "delete", "del", c, None)
  BY DEF MessageArrives, DeleteArrives
<1>4. /\ op' \in [Ops -> Handler]
      /\ op[o].pc = "new"
      /\ op'[o].pc \in {"say", "del"} /\ op'[o].kind \in {"message", "delete"}
      /\ op'[o].pc = "del" <=> op'[o].kind = "delete"
      /\ op'[o].conv = c /\ op'[o].sha = NoSha
      /\ \A p \in Ops : p # o => op'[p] = op[p]
  <2>1. op \in [Ops -> Handler] /\ None \in Ops \cup {None}
    BY <1>1 DEF TypeOK
  <2>2. CASE Arrives(o, "message", "say", c, None)
    BY <2>1, <2>2, ArrivesIs DEF Kinds, Place
  <2>3. CASE Arrives(o, "delete", "del", c, None)
    BY <2>1, <2>3, ArrivesIs DEF Kinds, Place
  <2> QED
    BY <1>3, <2>2, <2>3
<1>5. TypeOK'
  BY <1>1, <1>2, <1>4 DEF TypeOK
<1>6. MovesBound'
  BY <1>1, <1>2, <1>4, NumbersAre DEF MovesBound
<1>7. HandlersNameTheirs' /\ MadeInTime' /\ Accounted' /\ FilesKept'
  BY <1>2, <1>3, <1>4, QuietKeeps DEF Quietly
<1>8. Ledger'
  BY <1>1, <1>2, <1>4, LogStays, NumbersAre, LedgerStays
<1> QED
  BY <1>5, <1>6, <1>7, <1>8 DEF IInv

-----------------------------------------------------------------------------
(***************************************************************************)
(* The actions that make worktrees, conversations and messages.            *)
(***************************************************************************)

\* create_run's worktree is in its own hands until the conversation is posted.
LEMMA CreateProvisionKeeps ==
  ASSUME IInv, NEW o \in Ops, CreateProvision(o)
  PROVE  IInv'
<1>1. /\ TypeOK /\ MovesBound /\ HandlersNameTheirs /\ MadeInTime /\ Accounted
      /\ FilesKept /\ Ledger
  BY DEF IInv
<1>2. UNCHANGED <<conv, dir, log, running, stamp, moves>>
  BY DEF CreateProvision, server
<1> DEFINE h == head[RawPath]
<1>3. \/ Arrives(o, "create", "post", o, None) /\ Provisioned(o, h)
      \/ Arrives(o, "create", "postRaw", o, None) /\ NotProvisioned(o)
      \/ /\ Arrives(o, "create", "postRaw", o, None)
         /\ UNCHANGED <<tree, head, faults, excused>>
  BY DEF CreateProvision
<1>4. h \in 0 .. MaxMoves /\ h <= moves
  BY <1>1 DEF TypeOK, MovesBound
<1> HIDE DEF h
<1>5. /\ op' \in [Ops -> Handler]
      /\ op[o].pc = "new"
      /\ op'[o].pc \in {"post", "postRaw"} /\ op'[o].kind = "create"
      /\ op'[o].conv = o /\ op'[o].sha = NoSha
      /\ \A p \in Ops : p # o => op'[p] = op[p]
      /\ op'[o].pc = "post" => Provisioned(o, h)
      /\ op'[o].pc = "postRaw" =>
           NotProvisioned(o) \/ UNCHANGED <<tree, head, faults, excused>>
  <2>1. op \in [Ops -> Handler] /\ None \in Ops \cup {None}
    BY <1>1 DEF TypeOK
  <2>2. CASE Arrives(o, "create", "post", o, None) /\ Provisioned(o, h)
    BY <2>1, <2>2, ArrivesIs DEF Kinds, Place
  <2>3. CASE /\ Arrives(o, "create", "postRaw", o, None)
             /\ NotProvisioned(o) \/ UNCHANGED <<tree, head, faults, excused>>
    BY <2>1, <2>3, ArrivesIs DEF Kinds, Place
  <2> QED
    BY <1>3, <2>2, <2>3
<1>6. tree[o] = "none"
  BY <1>1, <1>5 DEF MadeInTime, Unprovisioned, TypeOK
<1>7. /\ op'[o].pc = "post" => tree'[o] = "live"
      /\ op'[o].pc = "postRaw" =>
           tree'[o] # "live" /\ (OnDisk(o)' => o \in excused')
      /\ \A w \in Dirs : w # o => tree'[w] = tree[w] /\ head'[w] = head[w]
      /\ tree' \in [Dirs -> {"none", "half", "live", "gone"}]
      /\ head' \in [Dirs -> 0 .. MaxMoves] /\ head'[o] <= moves
      /\ excused \subseteq excused' /\ excused' \subseteq Ops /\ faults' \in 0 .. MaxFaults
  <2>1. CASE op'[o].pc = "post"
    <3>1. /\ tree' = [tree EXCEPT ![o] = "live"] /\ head' = [head EXCEPT ![o] = h]
          /\ faults' = faults /\ excused' = excused
      BY <1>5, <2>1 DEF Provisioned
    <3>2. /\ tree \in [Dirs -> {"none", "half", "live", "gone"}]
          /\ head \in [Dirs -> 0 .. MaxMoves] /\ o \in Dirs
          /\ excused \subseteq Ops /\ faults \in 0 .. MaxFaults
      BY <1>1 DEF TypeOK
    <3> QED
      BY <1>4, <2>1, <3>1, <3>2
  <2>2. CASE NotProvisioned(o) /\ op'[o].pc = "postRaw"
    BY <1>1, <1>6, <2>2, NotProvisionedIs DEF TypeOK, MovesBound
  <2>3. CASE UNCHANGED <<tree, head, faults, excused>> /\ op'[o].pc = "postRaw"
    BY <1>1, <1>6, <2>3 DEF TypeOK, MovesBound, OnDisk
  <2> QED
    BY <1>5, <2>1, <2>2, <2>3
<1>8. Onward
  BY <1>5 DEF Onward, Unposted, Unmade, Unprovisioned
<1>9. MadeByOwner /\ LogGrows
  BY <1>2, <1>5, <1>6, <1>7 DEF MadeByOwner, LogGrows, Unprovisioned
<1>10. TypeOK'
  BY <1>1, <1>2, <1>5, <1>7 DEF TypeOK
<1>11. MovesBound'
  BY <1>1, <1>2, <1>5, <1>7, NumbersAre DEF MovesBound
<1>12. MadeInTime'
  BY <1>1, <1>8, <1>9, MadeStays
<1>13. NamesTheirs(o)' /\ HasFiles(o)'
  BY <1>5, <1>7 DEF NamesTheirs, HasFiles
<1>14. HandlersNameTheirs' /\ FilesKept'
  BY <1>1, <1>2, <1>5, <1>7, <1>8, <1>9, <1>13, OthersStay DEF StepOf
<1>15. Accounted'
  <2> SUFFICES ASSUME NEW w \in Ops, OnDisk(w)', op'[w].pc # "post", w \notin excused'
               PROVE  InUse(w)' \/ Reaping(w)'
    BY DEF Accounted
  <2>1. w # o
    BY <1>5, <1>7
  <2>2. OnDisk(w)
    BY <1>7, <2>1 DEF OnDisk
  <2> QED
    BY <1>1, <1>2, <1>5, <1>7, <1>8, <1>9, <2>1, <2>2, HandsStay DEF At
<1>16. Ledger'
  <2>1. \A w \in Dirs : tree'[w] = "live" =>
          \/ tree[w] = "live" /\ head[w] <= head'[w]
          \/ w \in Ops /\ op[w].pc \in Unprovisioned
    BY <1>1, <1>5, <1>7, NumbersAre DEF Unprovisioned
  <2>2. \A w \in Dirs : head[w] \in Int /\ head'[w] \in Int
    BY <1>1, <1>7, NumbersAre
  <2>3. \A i \in DOMAIN log' \ DOMAIN log : FALSE
    BY <1>2
  <2> QED
    BY <1>1, <1>2, <1>5, <1>9, <2>1, <2>2, <2>3, LedgerStays
<1> QED
  BY <1>10, <1>11, <1>12, <1>14, <1>15, <1>16 DEF IInv

\* A conversation made: its number was nobody's, and it runs in its own worktree or in none.
LEMMA PostingKeeps ==
  ASSUME IInv, NEW o \in Ops, PostConversation(o)
  PROVE  IInv'
<1>1. /\ TypeOK /\ MovesBound /\ HandlersNameTheirs /\ MadeInTime /\ Accounted
      /\ FilesKept /\ Ledger /\ NamesTheirs(o) /\ HasFiles(o)
  BY DEF IInv, HandlersNameTheirs, FilesKept
<1>2. /\ op[o].pc \in {"post", "postRaw"} /\ op[o].kind \in {"create", "restart"}
      /\ op[o].conv = o
      /\ UNCHANGED <<head, running, stamp, moves>>
  BY <1>1 DEF PostConversation, NamesTheirs
<1>3. conv[o] = "none"
  BY <1>1, <1>2 DEF MadeInTime, Unmade, TypeOK
<1>4. /\ op' \in [Ops -> Handler]
      /\ op'[o].pc \in {"seed", "search", "run", "failed"}
      /\ op'[o].pc = "seed" => op[o].kind = "restart"
      /\ op[o].kind = "restart" => op'[o].pc \in {"seed", "failed"}
      /\ op'[o].kind = op[o].kind /\ op'[o].conv = op[o].conv
      /\ op'[o].sha \in {op[o].sha, NoSha}
      /\ \A p \in Ops : p # o => op'[p] = op[p]
  <2>1. PICK pc \in {"seed", "search", "run", "failed"} :
          /\ Goto(o, pc) /\ (pc = "seed" => op[o].kind = "restart")
          /\ op[o].kind = "restart" => pc \in {"seed", "failed"}
    BY DEF PostConversation
  <2> QED
    BY <1>1, <2>1, GotoIs DEF TypeOK, Place, Over
<1>5. /\ Made(o) \/ (NotMade /\ op'[o].pc = "failed")
      /\ \/ Made(o) /\ tree' = tree /\ faults' = faults /\ excused' = excused
         \/ op'[o].pc = "failed" /\ Fault /\ tree' = tree /\ excused' = excused \cup {o}
         \/ /\ op'[o].pc = "failed" /\ Fault /\ excused' = excused
            /\ tree' = IF op[o].pc = "post" THEN Removed(o) ELSE tree
  <2>1. Goto(o, "failed") => op'[o].pc = "failed"
    BY <1>1, GotoIs DEF TypeOK, Place, Over
  <2> QED
    BY <2>1, Zenon DEF PostConversation
<1>6. /\ tree' \in [Dirs -> {"none", "half", "live", "gone"}]
      /\ \A w \in Dirs : w # o => tree'[w] = tree[w]
      /\ tree' = tree \/ op'[o].pc = "failed"
      /\ \A w \in Dirs : tree'[w] = "live" => tree[w] = "live"
      /\ \A w \in Ops : OnDisk(w)' => OnDisk(w)
      /\ \A w \in Ops : tree'[w] # "none" => tree[w] # "none"
      /\ op[o].pc = "post" => ~OnDisk(o)' \/ o \in excused' \/ Made(o)
      /\ excused' \subseteq Ops /\ excused \subseteq excused'
      /\ faults' \in 0 .. MaxFaults
  <2>1. CASE tree' = tree /\ (Made(o) \/ o \in excused' \/ op[o].pc # "post")
    BY <1>1, <1>5, <2>1, BoundsAssumption DEF TypeOK, Fault, OnDisk
  <2>2. CASE tree' = Removed(o) /\ op'[o].pc = "failed" /\ Fault /\ excused' = excused
    <3>1. tree' \in [Dirs -> {"none", "half", "live", "gone"}] /\ ~OnDisk(o)'
      BY <1>1, <2>2, RemovedIs
    <3>2. \A w \in Dirs : w # o => tree'[w] = tree[w]
      BY <1>1, <2>2, RemovedIs
    <3>3. faults' \in 0 .. MaxFaults
      BY <1>1, <2>2, BoundsAssumption DEF Fault, TypeOK
    <3>4. \A w \in Dirs : tree'[w] = "live" => tree[w] = "live"
      BY <3>1, <3>2 DEF OnDisk
    <3>5. \A w \in Ops : OnDisk(w)' => OnDisk(w)
      BY <3>1, <3>2 DEF OnDisk
    <3>6. \A w \in Ops : tree'[w] # "none" => tree[w] # "none"
      BY <1>1, <2>2, RemovedIs DEF OnDisk
    <3> QED
      BY <1>1, <2>2, <3>1, <3>2, <3>3, <3>4, <3>5, <3>6 DEF TypeOK
  <2> QED
    BY <1>5, <2>1, <2>2
<1>7. /\ conv' \in [Ops -> {"none", "live", "gone"}] /\ dir' \in [Ops -> Dirs]
      /\ \A c \in Ops : c # o => conv'[c] = conv[c] /\ dir'[c] = dir[c]
      /\ conv'[o] \in {"live", conv[o]}
      /\ Made(o) => conv'[o] = "live" /\ dir'[o] = IF op[o].pc = "post" THEN o ELSE RawPath
      /\ \/ dir'[o] = dir[o] /\ log' = log /\ op'[o].pc = "failed"
         \/ /\ conv'[o] = "live"
            /\ dir'[o] = IF op[o].pc = "post" THEN o ELSE RawPath
            /\ log' = log \/ (op[o].kind = "create" /\ Posted(o, o))
  <2>1. CASE Made(o)
    BY <1>1, <2>1 DEF Made, TypeOK
  <2>2. CASE NotMade /\ op'[o].pc = "failed" /\ ~Made(o)
    BY <1>1, <2>2 DEF NotMade, TypeOK
  <2> QED
    BY <1>5, <2>1, <2>2
<1>8. /\ log' \in Seq(Message) /\ LogGrows
      /\ \A i \in DOMAIN log' \ DOMAIN log :
           log'[i].conv = o /\ log'[i].born = HeadOf(dir'[o])
  <2>1. CASE log' = log
    BY <1>1, <2>1, LogStays DEF TypeOK, Message
  <2>2. CASE op[o].kind = "create" /\ Posted(o, o) /\ conv'[o] = "live"
    <3>1. dir'[o] \in Dirs
      BY <1>7
    <3>2. /\ log' \in Seq(Message)
          /\ \E n : /\ n \notin DOMAIN log /\ DOMAIN log' = DOMAIN log \cup {n}
                    /\ log'[n].conv = o /\ log'[n].event = o /\ log'[n].born = HeadOf(dir'[o])
          /\ \A i \in DOMAIN log : log'[i] = log[i]
      BY <1>1, <2>2, <3>1, PostedIs
    <3>3. op[o].pc \in Unposted /\ op'[o].pc \notin Unposted /\ op'[o].conv = o
      BY <1>2, <1>4, <2>2 DEF Unposted, Unmade, Unprovisioned
    <3> QED
      BY <2>2, <3>2, <3>3 DEF LogGrows
  <2> QED
    BY <1>7, <2>1, <2>2
<1>9. Onward
  BY <1>2, <1>4 DEF Onward, Unposted, Unmade, Unprovisioned
<1>10. MadeByOwner
  <2>1. op'[o].pc \notin Unmade
    BY <1>4 DEF Unmade, Unprovisioned
  <2> QED
    BY <1>3, <1>6, <1>7, <2>1 DEF MadeByOwner
<1>11. TypeOK'
  BY <1>1, <1>2, <1>4, <1>6, <1>7, <1>8 DEF TypeOK, Message
<1>12. MovesBound'
  BY <1>1, <1>2, <1>4, NumbersAre DEF MovesBound
<1>13. MadeInTime'
  BY <1>1, <1>8, <1>9, <1>10, MadeStays
<1>14. NamesTheirs(o)'
  BY <1>1, <1>2, <1>4 DEF NamesTheirs
<1>15. HasFiles(o)'
  <2>1. CASE tree' = tree
    BY <1>1, <1>2, <1>4, <1>7, <2>1 DEF HasFiles, RawPath, Ops
  <2>2. CASE op'[o].pc = "failed"
    BY <2>2 DEF HasFiles
  <2> QED
    BY <1>6, <2>1, <2>2
<1>16. HandlersNameTheirs' /\ FilesKept'
  BY <1>1, <1>4, <1>6, <1>7, <1>9, <1>10, <1>14, <1>15, OthersStay DEF StepOf
<1>17. Accounted'
  <2> SUFFICES ASSUME NEW w \in Ops, OnDisk(w)'
               PROVE  InUse(w)' \/ Reaping(w)' \/ op'[w].pc = "post" \/ w \in excused'
    BY DEF Accounted
  <2>1. OnDisk(w)
    BY <1>6
  <2>2. CASE w = o /\ op[o].pc = "post"
    <3>1. o \in excused' \/ (conv'[o] = "live" /\ dir'[o] = o)
      BY <1>6, <1>7, <2>2
    <3> QED
      BY <2>2, <3>1 DEF InUse
  <2>3. CASE ~(w = o /\ op[o].pc = "post")
    BY <1>1, <1>2, <1>3, <1>4, <1>6, <1>7, <1>9, <1>10, <2>1, <2>3, HandsStay DEF At
  <2> QED
    BY <2>2, <2>3
<1>18. Ledger'
  <2>1. \A w \in Dirs : tree'[w] = "live" => tree[w] = "live" /\ head[w] <= head'[w]
    BY <1>1, <1>2, <1>6, NumbersAre
  <2>2. \A w \in Dirs : head[w] \in Int /\ head'[w] \in Int
    BY <1>1, <1>2, NumbersAre
  <2>3. \A c \in Ops : conv[c] # "none" => dir'[c] = dir[c]
    BY <1>3, <1>7
  <2>4. ASSUME NEW i \in DOMAIN log' \ DOMAIN log, tree'[dir'[log'[i].conv]] = "live"
        PROVE  log'[i].born <= head'[dir'[log'[i].conv]]
    <3>1. log'[i].conv = o /\ log'[i].born = HeadOf(dir'[o])
      BY <1>8
    <3>2. dir'[o] \in Dirs /\ tree[dir'[o]] = "live"
      BY <1>6, <1>7, <2>4, <3>1
    <3>3. log'[i].born = head[dir'[o]] /\ head[dir'[o]] \in Int
      BY <1>1, <3>1, <3>2, HeadOfIs, NumbersAre
    <3> QED
      BY <1>2, <3>1, <3>3
  <2>5. \A p \in Ops : op'[p].pc \in {"head", "record"} => op'[p] = op[p]
    BY <1>4
  <2> QED
    BY <1>1, <1>2, <1>8, <2>1, <2>2, <2>3, <2>4, <2>5, LedgerStays
<1> QED
  BY <1>11, <1>12, <1>13, <1>16, <1>17, <1>18 DEF IInv

\* A handler comes to the point where its message to a conversation is there.
Says(o, c) ==
  op[o].pc \in Unposted /\ op'[o].pc \notin Unposted /\ op'[o].conv = c /\ conv'[c] # "none"

\* A message posted to a conversation that is there: of the handler, born at its HEAD.
LEMMA SaidIs ==
  ASSUME TypeOK, MovesBound, NEW o \in Ops, NEW c \in Ops, dir'[c] \in Dirs,
         Posted(o, c), Says(o, c)
  PROVE  /\ log' \in Seq(Message) /\ LogGrows
         /\ \A i \in DOMAIN log' \ DOMAIN log :
              LET w == dir'[log'[i].conv] IN
              tree[w] = "live" => log'[i].born = head[w]
<1>1. /\ log' \in Seq(Message)
      /\ \E n : /\ n \notin DOMAIN log /\ DOMAIN log' = DOMAIN log \cup {n}
                /\ log'[n].conv = c /\ log'[n].event = o /\ log'[n].born = HeadOf(dir'[c])
      /\ \A i \in DOMAIN log : log'[i] = log[i]
  BY PostedIs
<1>2. LogGrows
  BY <1>1 DEF LogGrows, Says
<1>3. tree[dir'[c]] = "live" => HeadOf(dir'[c]) = head[dir'[c]]
  BY HeadOfIs
<1> QED
  BY <1>1, <1>2, <1>3

\* A message is born at the HEAD of a conversation that is there.
LEMMA MessagePostKeeps ==
  ASSUME IInv, NEW o \in Ops, MessagePost(o)
  PROVE  IInv'
<1>1. /\ TypeOK /\ MovesBound /\ HandlersNameTheirs /\ MadeInTime /\ Accounted
      /\ FilesKept /\ Ledger /\ NamesTheirs(o)
  BY DEF IInv, HandlersNameTheirs
<1>2. /\ op[o].kind = "message" /\ op[o].pc = "say" /\ op[o].conv \in Ops
      /\ UNCHANGED <<tree, head, excused, conv, dir, running, stamp, moves>>
      /\ faults' \in 0 .. MaxFaults
  BY <1>1, BoundsAssumption DEF MessagePost, At, NamesTheirs, files, Fault, TypeOK
<1>3. /\ op' \in [Ops -> Handler]
      /\ op'[o].pc \in {"search", "failed"}
      /\ op'[o].kind = "message" /\ op'[o].conv = op[o].conv
      /\ op'[o].sha \in {op[o].sha, NoSha}
      /\ \A p \in Ops : p # o => op'[p] = op[p]
  <2>1. PICK pc \in {"search", "failed"} : Goto(o, pc)
    BY DEF MessagePost
  <2> QED
    BY <1>1, <1>2, <2>1, GotoIs DEF TypeOK, Place, Over
<1>4. /\ log' \in Seq(Message) /\ LogGrows
      /\ \A i \in DOMAIN log' \ DOMAIN log :
           LET w == dir'[log'[i].conv] IN
           tree[w] = "live" => log'[i].born = head[w]
  <2>1. CASE log' = log
    BY <1>1, <2>1, LogStays DEF TypeOK, Message
  <2>2. CASE conv[op[o].conv] = "live" /\ Posted(o, op[o].conv)
    <3>1. Says(o, op[o].conv)
      BY <1>2, <1>3, <2>2 DEF Says, Unposted, Unmade, Unprovisioned
    <3>2. dir'[op[o].conv] \in Dirs
      BY <1>1, <1>2 DEF TypeOK
    <3> QED
      BY <1>1, <1>2, <1>3, <2>2, <3>1, <3>2, SaidIs
  <2> QED
    BY <2>1, <2>2 DEF MessagePost
<1>5. Onward /\ MadeByOwner
  BY <1>2, <1>3 DEF Onward, MadeByOwner, Unposted, Unmade, Unprovisioned
<1>6. TypeOK'
  BY <1>1, <1>2, <1>3, <1>4 DEF TypeOK, Message
<1>7. MovesBound'
  BY <1>1, <1>2, <1>3, NumbersAre DEF MovesBound
<1>8. MadeInTime'
  BY <1>1, <1>4, <1>5, MadeStays
<1>9. NamesTheirs(o)' /\ HasFiles(o)'
  BY <1>1, <1>2, <1>3 DEF NamesTheirs, HasFiles
<1>10. HandlersNameTheirs' /\ FilesKept'
  BY <1>1, <1>2, <1>3, <1>5, <1>9, OthersStay DEF StepOf
<1>11. Accounted'
  <2> SUFFICES ASSUME NEW w \in Ops, OnDisk(w)
               PROVE  InUse(w)' \/ Reaping(w)' \/ op'[w].pc = "post" \/ w \in excused'
    BY <1>2 DEF Accounted, OnDisk
  <2> QED
    BY <1>1, <1>2, <1>3, <1>5, HandsStay DEF At
<1>12. Ledger'
  <2>1. \A i \in DOMAIN log' \ DOMAIN log :
          LET w == dir'[log'[i].conv] IN
          tree'[w] = "live" => log'[i].born <= head'[w]
    <3> SUFFICES ASSUME NEW i \in DOMAIN log' \ DOMAIN log,
                        tree'[dir'[log'[i].conv]] = "live"
                 PROVE  log'[i].born <= head'[dir'[log'[i].conv]]
      OBVIOUS
    <3>1. dir'[log'[i].conv] \in Dirs
      BY <1>1, <1>2, <1>4 DEF LogGrows, TypeOK
    <3> QED
      BY <1>1, <1>2, <1>4, <3>1, NumbersAre
  <2>2. \A w \in Dirs : head[w] \in Int /\ head'[w] \in Int /\ head[w] <= head'[w]
    BY <1>1, <1>2, NumbersAre
  <2> QED
    BY <1>1, <1>2, <1>3, <1>4, <2>1, <2>2, LedgerStays
<1> QED
  BY <1>6, <1>7, <1>8, <1>10, <1>11, <1>12 DEF IInv

\* The seed message is the first of its conversation; a rollback makes no claim.
LEMMA RestartSeedKeeps ==
  ASSUME IInv, NEW o \in Ops, RestartSeed(o)
  PROVE  IInv'
<1>1. /\ TypeOK /\ MovesBound /\ HandlersNameTheirs /\ MadeInTime /\ Accounted
      /\ FilesKept /\ Ledger /\ NamesTheirs(o) /\ HasFiles(o)
  BY DEF IInv, HandlersNameTheirs, FilesKept
<1>2. /\ op[o].kind = "restart" /\ op[o].pc = "seed" /\ op[o].conv = o
      /\ UNCHANGED <<head, conv, dir, stamp, moves>>
      /\ faults' \in 0 .. MaxFaults
      /\ running' \subseteq Ops
      /\ excused \subseteq excused' /\ excused' \subseteq Ops
  BY <1>1, BoundsAssumption DEF RestartSeed, At, NamesTheirs, Fault, TypeOK
<1>3. /\ op' \in [Ops -> Handler]
      /\ op'[o].pc \in {"search", "failed"}
      /\ op'[o].kind = "restart" /\ op'[o].conv = o
      /\ op'[o].sha \in {op[o].sha, NoSha}
      /\ \A p \in Ops : p # o => op'[p] = op[p]
  <2>1. PICK pc \in {"search", "failed"} : Goto(o, pc)
    BY DEF RestartSeed
  <2> QED
    BY <1>1, <1>2, <2>1, GotoIs DEF TypeOK, Place, Over
<1>4. /\ tree' \in [Dirs -> {"none", "half", "live", "gone"}]
      /\ \A w \in Dirs : w # o => tree'[w] = tree[w]
      /\ \A w \in Dirs : tree'[w] = "live" => tree[w] = "live"
      /\ \A w \in Ops : OnDisk(w)' => OnDisk(w)
      /\ \A w \in Ops : tree'[w] # "none" => tree[w] # "none"
      /\ tree' = tree \/ op'[o].pc = "failed"
  <2>1. CASE tree' = tree
    BY <1>1, <2>1 DEF TypeOK, OnDisk
  <2>2. CASE tree' = Removed(o) /\ Goto(o, "failed")
    <3>1. op'[o].pc = "failed"
      BY <1>1, <2>2, GotoIs DEF TypeOK, Place, Over
    <3>2. /\ tree' \in [Dirs -> {"none", "half", "live", "gone"}] /\ ~OnDisk(o)'
          /\ \A w \in Dirs : w # o => tree'[w] = tree[w]
      BY <1>1, <2>2, RemovedIs
    <3>3. \A w \in Ops : tree'[w] # "none" => tree[w] # "none"
      BY <1>1, <2>2, RemovedIs DEF OnDisk
    <3> QED
      BY <3>1, <3>2, <3>3 DEF OnDisk
  <2> QED
    BY <2>1, <2>2 DEF RestartSeed
<1>5. /\ log' \in Seq(Message) /\ LogGrows
      /\ \A i \in DOMAIN log' \ DOMAIN log :
           LET w == dir'[log'[i].conv] IN
           tree[w] = "live" => log'[i].born = head[w]
  <2>1. CASE log' = log
    BY <1>1, <2>1, LogStays DEF TypeOK, Message
  <2>2. CASE conv[o] = "live" /\ Posted(o, o)
    <3>1. Says(o, o)
      BY <1>2, <1>3, <2>2 DEF Says, Unposted, Unmade, Unprovisioned
    <3>2. dir'[op[o].conv] \in Dirs
      BY <1>1, <1>2 DEF TypeOK
    <3> QED
      BY <1>1, <1>2, <1>3, <2>2, <3>1, <3>2, SaidIs
  <2> QED
    BY <2>1, <2>2 DEF RestartSeed
<1>6. Onward /\ MadeByOwner
  BY <1>2, <1>3, <1>4 DEF Onward, MadeByOwner, Unposted, Unmade, Unprovisioned
<1>7. TypeOK'
  BY <1>1, <1>2, <1>3, <1>4, <1>5 DEF TypeOK, Message
<1>8. MovesBound'
  BY <1>1, <1>2, <1>3, NumbersAre DEF MovesBound
<1>9. MadeInTime'
  BY <1>1, <1>5, <1>6, MadeStays
<1>10. NamesTheirs(o)'
  BY <1>1, <1>2, <1>3 DEF NamesTheirs
<1>11. HasFiles(o)'
  <2>1. Deleted(o) => Deleted(o)'
    BY <1>1, <1>6, DeletedStays
  <2> QED
    BY <1>1, <1>2, <1>3, <1>4, <2>1 DEF HasFiles
<1>12. HandlersNameTheirs' /\ FilesKept'
  BY <1>1, <1>2, <1>3, <1>4, <1>6, <1>10, <1>11, OthersStay DEF StepOf
<1>13. Accounted'
  <2> SUFFICES ASSUME NEW w \in Ops, OnDisk(w)'
               PROVE  InUse(w)' \/ Reaping(w)' \/ op'[w].pc = "post" \/ w \in excused'
    BY DEF Accounted
  <2>1. OnDisk(w)
    BY <1>4
  <2> QED
    BY <1>1, <1>2, <1>3, <1>4, <1>6, <2>1, HandsStay DEF At
<1>14. Ledger'
  <2>1. \A i \in DOMAIN log' \ DOMAIN log :
          LET w == dir'[log'[i].conv] IN
          tree'[w] = "live" => log'[i].born <= head'[w]
    <3> SUFFICES ASSUME NEW i \in DOMAIN log' \ DOMAIN log,
                        tree'[dir'[log'[i].conv]] = "live"
                 PROVE  log'[i].born <= head'[dir'[log'[i].conv]]
      OBVIOUS
    <3>1. dir'[log'[i].conv] \in Dirs
      BY <1>1, <1>2, <1>5 DEF LogGrows, TypeOK
    <3> QED
      BY <1>1, <1>2, <1>4, <1>5, <3>1, NumbersAre
  <2>2. \A w \in Dirs : head[w] \in Int /\ head'[w] \in Int /\ head[w] <= head'[w]
    BY <1>1, <1>2, NumbersAre
  <2> QED
    BY <1>1, <1>2, <1>3, <1>4, <1>5, <2>1, <2>2, LedgerStays
<1> QED
  BY <1>7, <1>8, <1>9, <1>12, <1>13, <1>14 DEF IInv

\* A fork is one conversation more in a worktree that was made before.
LEMMA ForkKeeps ==
  ASSUME IInv, NEW o \in Ops, Fork(o)
  PROVE  IInv'
<1>1. /\ TypeOK /\ MovesBound /\ HandlersNameTheirs /\ MadeInTime /\ Accounted
      /\ FilesKept /\ Ledger
  BY DEF IInv
<1>2. PICK c \in Ops :
        /\ conv[c] = "live"
        /\ Arrives(o, "fork", "ok", c, None)
        /\ conv' = [conv EXCEPT ![o] = "live"]
        /\ dir' = [dir EXCEPT ![o] = dir[c]]
  BY DEF Fork
<1>3. UNCHANGED <<tree, head, excused, log, running, stamp, moves, faults>>
  BY DEF Fork, files
<1>4. /\ op' \in [Ops -> Handler]
      /\ op[o].pc = "new"
      /\ op'[o].pc = "ok" /\ op'[o].kind = "fork"
      /\ op'[o].conv = c /\ op'[o].sha = NoSha
      /\ \A p \in Ops : p # o => op'[p] = op[p]
  <2>1. op \in [Ops -> Handler] /\ None \in Ops \cup {None}
    BY <1>1 DEF TypeOK
  <2> QED
    BY <1>2, <2>1, ArrivesIs DEF Kinds, Place, Over
<1>5. conv[o] = "none" /\ c # o
  BY <1>1, <1>2, <1>4 DEF MadeInTime, Unmade, Unprovisioned, TypeOK
<1>6. /\ conv' \in [Ops -> {"none", "live", "gone"}] /\ dir' \in [Ops -> Dirs]
      /\ conv'[o] = "live" /\ dir'[o] = dir[c]
      /\ \A d \in Ops : d # o => conv'[d] = conv[d] /\ dir'[d] = dir[d]
  BY <1>1, <1>2 DEF TypeOK
<1>7. Onward /\ LogGrows
  BY <1>3, <1>4, LogStays DEF Onward, Unposted, Unmade, Unprovisioned
<1>8. MadeByOwner
  <2>1. op'[o].pc \notin Unmade
    BY <1>4 DEF Unmade, Unprovisioned
  <2>2. dir'[o] # RawPath => dir'[o] \in Ops /\ op'[dir'[o]].pc \notin Unmade
    <3>1. dir[c] # RawPath => dir[c] \in Ops /\ op[dir[c]].pc \notin Unmade
      BY <1>1 DEF MadeInTime, TypeOK
    <3> QED
      BY <1>4, <1>6, <2>1, <3>1
  <2> QED
    BY <1>3, <1>5, <1>6, <2>1, <2>2 DEF MadeByOwner
<1>9. TypeOK'
  BY <1>1, <1>3, <1>4, <1>6 DEF TypeOK
<1>10. MovesBound'
  BY <1>1, <1>3, <1>4, NumbersAre DEF MovesBound
<1>11. MadeInTime'
  BY <1>1, <1>7, <1>8, MadeStays
<1>12. NamesTheirs(o)' /\ HasFiles(o)'
  BY <1>2, <1>4, <1>5, <1>6 DEF NamesTheirs, HasFiles
<1>13. HandlersNameTheirs' /\ FilesKept'
  BY <1>1, <1>3, <1>4, <1>6, <1>7, <1>8, <1>12, OthersStay DEF StepOf
<1>14. Accounted'
  <2> SUFFICES ASSUME NEW w \in Ops, OnDisk(w)
               PROVE  InUse(w)' \/ Reaping(w)' \/ op'[w].pc = "post" \/ w \in excused'
    BY <1>3 DEF Accounted, OnDisk
  <2> QED
    BY <1>1, <1>3, <1>4, <1>5, <1>6, <1>7, <1>8, HandsStay DEF At
<1>15. Ledger'
  <2>1. \A d \in Ops : conv[d] # "none" => dir'[d] = dir[d]
    BY <1>5, <1>6
  <2>2. \A i \in DOMAIN log' \ DOMAIN log : FALSE
    BY <1>3
  <2> QED
    BY <1>1, <1>3, <1>4, <1>7, <2>1, <2>2, NumbersAre, LedgerStays
<1> QED
  BY <1>9, <1>10, <1>11, <1>13, <1>14, <1>15 DEF IInv

\* A restart names its anchor, and its worktree is not there yet.
LEMMA RestartArrivesKeeps ==
  ASSUME IInv, NEW o \in Ops, RestartArrives(o)
  PROVE  IInv'
<1>1. /\ TypeOK /\ MovesBound /\ HandlersNameTheirs /\ MadeInTime /\ Accounted
      /\ FilesKept /\ Ledger
  BY DEF IInv
<1>2. PICK j \in DOMAIN log :
        /\ stamp[log[j].event] # NoSha
        /\ Arrives(o, "restart", "provision", o, log[j].event)
        /\ head' = [head EXCEPT ![o] = stamp[log[j].event]]
  BY DEF RestartArrives
<1>3. UNCHANGED <<tree, excused, conv, dir, log, running, stamp, moves, faults>>
  BY DEF RestartArrives, server
<1>4. log[j].event \in Ops
  BY <1>1, LogIs
<1>5. /\ op' \in [Ops -> Handler]
      /\ op[o].pc = "new"
      /\ op'[o].pc = "provision" /\ op'[o].kind = "restart"
      /\ op'[o].conv = o /\ op'[o].sha = NoSha
      /\ \A p \in Ops : p # o => op'[p] = op[p]
  <2>1. op \in [Ops -> Handler]
    BY <1>1 DEF TypeOK
  <2> QED
    BY <1>2, <1>4, <2>1, ArrivesIs DEF Kinds, Place, Over
<1>6. /\ stamp[log[j].event] \in 0 .. MaxMoves /\ stamp[log[j].event] <= moves
      /\ head' \in [Dirs -> 0 .. MaxMoves]
      /\ head'[o] = stamp[log[j].event]
      /\ \A w \in Dirs : w # o => head'[w] = head[w]
  <2>1. stamp[log[j].event] \in Shas /\ stamp[log[j].event] # NoSha
    BY <1>1, <1>2, <1>4 DEF TypeOK
  <2>2. stamp[log[j].event] \in 0 .. MaxMoves
    BY <2>1, BoundsAssumption DEF Shas, NoSha
  <2> QED
    BY <1>1, <1>2, <1>4, <2>2 DEF TypeOK, MovesBound
<1>7. tree[o] = "none"
  BY <1>1, <1>5 DEF MadeInTime, Unprovisioned, TypeOK
<1>8. Onward /\ LogGrows /\ MadeByOwner
  BY <1>3, <1>5, LogStays DEF Onward, MadeByOwner, Unposted, Unmade, Unprovisioned
<1>9. TypeOK'
  BY <1>1, <1>3, <1>5, <1>6 DEF TypeOK
<1>10. MovesBound'
  BY <1>1, <1>3, <1>5, <1>6, NumbersAre DEF MovesBound
<1>11. MadeInTime'
  BY <1>1, <1>8, MadeStays
<1>12. NamesTheirs(o)' /\ HasFiles(o)'
  BY <1>5 DEF NamesTheirs, HasFiles
<1>13. HandlersNameTheirs' /\ FilesKept'
  BY <1>1, <1>3, <1>5, <1>8, <1>12, OthersStay DEF StepOf
<1>14. Accounted'
  <2> SUFFICES ASSUME NEW w \in Ops, OnDisk(w)
               PROVE  InUse(w)' \/ Reaping(w)' \/ op'[w].pc = "post" \/ w \in excused'
    BY <1>3 DEF Accounted, OnDisk
  <2> QED
    BY <1>1, <1>3, <1>5, <1>7, <1>8, HandsStay DEF At
<1>15. Ledger'
  <2>1. \A w \in Dirs : tree'[w] = "live" => tree[w] = "live" /\ head[w] <= head'[w]
    BY <1>1, <1>3, <1>6, <1>7, NumbersAre
  <2>2. \A i \in DOMAIN log' \ DOMAIN log : FALSE
    BY <1>3
  <2>3. \A w \in Dirs : head[w] \in Int /\ head'[w] \in Int
    BY <1>1, <1>6, NumbersAre
  <2> QED
    BY <1>1, <1>3, <1>5, <1>8, <2>1, <2>2, <2>3, LedgerStays
<1> QED
  BY <1>9, <1>10, <1>11, <1>13, <1>14, <1>15 DEF IInv

\* restart_from_here's worktree is in its own hands until the conversation is posted.
LEMMA RestartProvisionKeeps ==
  ASSUME IInv, NEW o \in Ops, RestartProvision(o)
  PROVE  IInv'
<1>1. /\ TypeOK /\ MovesBound /\ HandlersNameTheirs /\ MadeInTime /\ Accounted
      /\ FilesKept /\ Ledger /\ NamesTheirs(o)
  BY DEF IInv, HandlersNameTheirs
<1>2. /\ UNCHANGED <<conv, dir, log, running, stamp, moves>>
      /\ op[o].kind = "restart" /\ op[o].pc = "provision" /\ op[o].conv = o
      /\ \/ Provisioned(o, head[o]) /\ Goto(o, "post")
         \/ NotProvisioned(o) /\ Goto(o, "failed")
         \/ UNCHANGED <<tree, head, faults, excused>> /\ Goto(o, "failed")
  BY <1>1 DEF RestartProvision, server, At, NamesTheirs
<1>3. /\ op' \in [Ops -> Handler]
      /\ op'[o].pc \in {"post", "failed"} /\ op'[o].kind = "restart" /\ op'[o].conv = o
      /\ op'[o].sha \in {op[o].sha, NoSha}
      /\ \A p \in Ops : p # o => op'[p] = op[p]
      /\ Goto(o, "post") => op'[o].pc = "post"
      /\ Goto(o, "failed") => op'[o].pc = "failed"
  <2>1. PICK pc \in {"post", "failed"} : Goto(o, pc)
    BY <1>2
  <2>2. /\ Goto(o, "post") => op'[o].pc = "post"
        /\ Goto(o, "failed") => op'[o].pc = "failed"
    BY <1>1, GotoIs DEF TypeOK, Place, Over
  <2> QED
    BY <1>1, <1>2, <2>1, <2>2, GotoIs DEF TypeOK, Place, Over
<1>4. tree[o] = "none"
  BY <1>1, <1>2 DEF MadeInTime, Unprovisioned, TypeOK
<1>5. /\ head' = head
      /\ tree' \in [Dirs -> {"none", "half", "live", "gone"}]
      /\ \A w \in Dirs : w # o => tree'[w] = tree[w]
      /\ \/ op'[o].pc = "post" /\ tree'[o] = "live"
         \/ op'[o].pc = "failed" /\ tree'[o] # "live" /\ (OnDisk(o)' => o \in excused')
      /\ excused \subseteq excused' /\ excused' \subseteq Ops /\ faults' \in 0 .. MaxFaults
  <2>1. CASE Provisioned(o, head[o]) /\ Goto(o, "post")
    <3>1. op'[o].pc = "post"
      BY <1>3, <2>1
    <3>2. head' = head /\ faults' = faults /\ excused' = excused
      BY <1>1, <2>1 DEF Provisioned, TypeOK
    <3> QED
      BY <1>1, <2>1, <3>1, <3>2 DEF Provisioned, TypeOK
  <2>2. CASE NotProvisioned(o) /\ Goto(o, "failed")
    BY <1>1, <1>3, <1>4, <2>2, NotProvisionedIs
  <2>3. CASE UNCHANGED <<tree, head, faults, excused>> /\ Goto(o, "failed")
    BY <1>1, <1>3, <1>4, <2>3 DEF TypeOK, OnDisk
  <2> QED
    BY <1>2, <2>1, <2>2, <2>3
<1>6. Onward /\ LogGrows
  BY <1>2, <1>3, LogStays DEF Onward, Unposted, Unmade, Unprovisioned
<1>7. MadeByOwner
  BY <1>2, <1>3, <1>5 DEF MadeByOwner, Unprovisioned
<1>8. TypeOK'
  BY <1>1, <1>2, <1>3, <1>5 DEF TypeOK
<1>9. MovesBound'
  BY <1>1, <1>2, <1>3, <1>5, NumbersAre DEF MovesBound
<1>10. MadeInTime'
  BY <1>1, <1>6, <1>7, MadeStays
<1>11. NamesTheirs(o)' /\ HasFiles(o)'
  BY <1>3, <1>5 DEF NamesTheirs, HasFiles
<1>12. HandlersNameTheirs' /\ FilesKept'
  BY <1>1, <1>2, <1>3, <1>5, <1>6, <1>7, <1>11, OthersStay DEF StepOf
<1>13. Accounted'
  <2> SUFFICES ASSUME NEW w \in Ops, OnDisk(w)', op'[w].pc # "post", w \notin excused'
               PROVE  InUse(w)' \/ Reaping(w)'
    BY DEF Accounted
  <2>1. w # o
    BY <1>5
  <2>2. OnDisk(w)
    BY <1>5, <2>1 DEF OnDisk
  <2> QED
    BY <1>1, <1>2, <1>3, <1>5, <1>6, <1>7, <2>1, <2>2, HandsStay DEF At
<1>14. Ledger'
  <2>1. \A w \in Dirs : tree'[w] = "live" =>
          \/ tree[w] = "live" /\ head[w] <= head'[w]
          \/ w \in Ops /\ op[w].pc \in Unprovisioned
    BY <1>1, <1>2, <1>5, NumbersAre DEF Unprovisioned
  <2>2. \A i \in DOMAIN log' \ DOMAIN log : FALSE
    BY <1>2
  <2>3. \A w \in Dirs : head[w] \in Int /\ head'[w] \in Int
    BY <1>1, <1>5, NumbersAre
  <2> QED
    BY <1>1, <1>2, <1>3, <1>6, <2>1, <2>2, <2>3, LedgerStays
<1> QED
  BY <1>8, <1>9, <1>10, <1>12, <1>13, <1>14 DEF IInv

-----------------------------------------------------------------------------
(***************************************************************************)
(* Deletes, the agents' moves, and crashes.                              *)
(***************************************************************************)

\* The worktree of a deleted conversation passes into the hands of the delete.
LEMMA DeleteConversationKeeps ==
  ASSUME IInv, NEW o \in Ops, DeleteConversation(o)
  PROVE  IInv'
<1>1. /\ TypeOK /\ MovesBound /\ HandlersNameTheirs /\ MadeInTime /\ Accounted
      /\ FilesKept /\ Ledger /\ NamesTheirs(o)
  BY DEF IInv, HandlersNameTheirs
<1> DEFINE c == op[o].conv
<1>2. /\ UNCHANGED <<tree, head, excused, dir, log, stamp, moves>>
      /\ op[o].kind = "delete" /\ op[o].pc = "del" /\ c \in Ops /\ conv[c] # "none"
      /\ faults' \in 0 .. MaxFaults
      /\ running' \subseteq Ops
  BY <1>1, BoundsAssumption
     DEF DeleteConversation, files, At, NamesTheirs, HandlersNameTheirs, Fault, TypeOK
<1>3. /\ conv' \in [Ops -> {"none", "live", "gone"}]
      /\ \A d \in Ops : d # c => conv'[d] = conv[d]
      /\ conv'[c] \in {conv[c], "gone"}
  BY <1>1, <1>2 DEF DeleteConversation, TypeOK
<1>4. /\ op' \in [Ops -> Handler]
      /\ op'[o].pc = "reap" /\ op'[o].kind = "delete" /\ op'[o].conv = c
      /\ op'[o].sha = op[o].sha
      /\ \A p \in Ops : p # o => op'[p] = op[p]
  BY <1>1, <1>2, GotoIs DEF DeleteConversation, TypeOK, Place, Over
<1> HIDE DEF c
<1>5. Onward /\ LogGrows
  <2>1. op'[o].conv = op[o].conv
    BY <1>4 DEF c
  <2> QED
    BY <1>2, <1>4, <2>1, LogStays DEF Onward, Unposted, Unmade, Unprovisioned
<1>6. MadeByOwner
  BY <1>2, <1>3 DEF MadeByOwner
<1>7. TypeOK'
  BY <1>1, <1>2, <1>3, <1>4 DEF TypeOK
<1>8. MovesBound'
  BY <1>1, <1>2, <1>4, NumbersAre DEF MovesBound
<1>9. MadeInTime'
  BY <1>1, <1>5, <1>6, MadeStays
<1>10. NamesTheirs(o)' /\ HasFiles(o)'
  BY <1>2, <1>3, <1>4 DEF NamesTheirs, HasFiles
<1>11. HandlersNameTheirs' /\ FilesKept'
  BY <1>1, <1>2, <1>4, <1>5, <1>6, <1>10, OthersStay DEF StepOf
<1>12. Accounted'
  <2> SUFFICES ASSUME NEW w \in Ops, OnDisk(w)
               PROVE  InUse(w)' \/ Reaping(w)' \/ op'[w].pc = "post" \/ w \in excused'
    BY <1>2 DEF Accounted, OnDisk
  <2>1. CASE InUse(w)
    <3>1. PICK d \in Ops : conv[d] = "live" /\ dir[d] = w
      BY <2>1 DEF InUse
    <3>2. CASE d = c
      <4>1. At(o, "delete", "reap")' /\ dir'[op'[o].conv] = w
        BY <1>2, <1>4, <3>1, <3>2 DEF At
      <4> QED
        BY <4>1 DEF Reaping
    <3>3. CASE d # c
      <4>1. conv'[d] = "live" /\ dir'[d] = w
        BY <1>2, <1>3, <3>1, <3>3
      <4> QED
        BY <4>1 DEF InUse
    <3> QED
      BY <3>2, <3>3
  <2>2. CASE Reaping(w)
    <3>1. PICK d \in Ops : At(d, "delete", "reap") /\ dir[op[d].conv] = w
      BY <2>2 DEF Reaping
    <3>2. d # o /\ At(d, "delete", "reap")' /\ dir'[op'[d].conv] = w
      BY <1>2, <1>4, <3>1 DEF At
    <3> QED
      BY <3>2 DEF Reaping
  <2>3. CASE op[w].pc = "post"
    BY <1>2, <1>4, <2>3
  <2>4. CASE w \in excused
    BY <1>2, <2>4
  <2> QED
    BY <1>1, <2>1, <2>2, <2>3, <2>4 DEF Accounted
<1>13. Ledger'
  <2>1. \A i \in DOMAIN log' \ DOMAIN log : FALSE
    BY <1>2
  <2> QED
    BY <1>1, <1>2, <1>4, <1>5, <2>1, NumbersAre, LedgerStays
<1> QED
  BY <1>7, <1>8, <1>9, <1>11, <1>12, <1>13 DEF IInv

\* The worktree that goes is of a run that somebody deleted, and no longer being made.
LEMMA DeleteReapKeeps ==
  ASSUME IInv, NEW o \in Ops, DeleteReap(o)
  PROVE  IInv'
<1>1. /\ TypeOK /\ MovesBound /\ HandlersNameTheirs /\ MadeInTime /\ Accounted
      /\ FilesKept /\ Ledger /\ NamesTheirs(o)
  BY DEF IInv, HandlersNameTheirs
<1>2. PICK w \in Dirs : w = dir[op[o].conv]
  BY <1>1 DEF DeleteReap, At, NamesTheirs, TypeOK
<1>3. /\ UNCHANGED <<head, conv, dir, log, running, stamp, moves>>
      /\ op[o].kind = "delete" /\ op[o].pc = "reap"
      /\ op[o].conv \in Ops /\ w \in Dirs
      /\ \/ tree' = Removed(w) /\ faults' = faults /\ excused' = excused
         \/ w # RawPath /\ Fault /\ excused' = excused \cup {w} /\ tree' = tree
  BY <1>1, <1>2 DEF DeleteReap, server, At, NamesTheirs, TypeOK
<1>4. /\ op' \in [Ops -> Handler]
      /\ op'[o].pc = "purge" /\ op'[o].kind = "delete" /\ op'[o].conv = op[o].conv
      /\ op'[o].sha = op[o].sha
      /\ \A p \in Ops : p # o => op'[p] = op[p]
  BY <1>1, <1>3, GotoIs DEF DeleteReap, TypeOK, Place, Over
<1>5. /\ tree' \in [Dirs -> {"none", "half", "live", "gone"}]
      /\ \A x \in Dirs : x # w => tree'[x] = tree[x]
      /\ \A x \in Dirs : tree'[x] = "live" => tree[x] = "live"
      /\ \A x \in Ops : OnDisk(x)' => OnDisk(x)
      /\ \A x \in Ops : tree'[x] # "none" => tree[x] # "none"
      /\ w \in Ops => ~OnDisk(w)' \/ w \in excused'
      /\ excused' \subseteq Ops /\ excused \subseteq excused'
      /\ faults' \in 0 .. MaxFaults
  <2>1. CASE tree' = Removed(w) /\ faults' = faults /\ excused' = excused
    <3>1. /\ tree' \in [Dirs -> {"none", "half", "live", "gone"}]
          /\ w \in Ops => ~OnDisk(w)'
          /\ \A x \in Dirs :
               tree'[x] = tree[x] \/ (x \in Ops /\ x = w /\ OnDisk(x) /\ tree'[x] = "gone")
      BY <1>1, <1>3, <2>1, RemovedIs
    <3>2. \A x \in Ops : OnDisk(x)' => OnDisk(x)
      BY <3>1 DEF OnDisk
    <3>3. \A x \in Ops : tree'[x] # "none" => tree[x] # "none"
      BY <3>1 DEF OnDisk
    <3>4. excused' \subseteq Ops /\ excused \subseteq excused' /\ faults' \in 0 .. MaxFaults
      BY <1>1, <2>1 DEF TypeOK
    <3> QED
      BY <3>1, <3>2, <3>3, <3>4
  <2>2. CASE w # RawPath /\ Fault /\ excused' = excused \cup {w} /\ tree' = tree
    BY <1>1, <1>3, <2>2, BoundsAssumption DEF TypeOK, Fault, OnDisk
  <2> QED
    BY <1>3, <2>1, <2>2
<1>6. Onward /\ LogGrows
  BY <1>3, <1>4, LogStays DEF Onward, Unposted, Unmade, Unprovisioned
<1>7. MadeByOwner
  BY <1>3, <1>5 DEF MadeByOwner
<1>8. TypeOK'
  BY <1>1, <1>3, <1>4, <1>5 DEF TypeOK
<1>9. MovesBound'
  BY <1>1, <1>3, <1>4, NumbersAre DEF MovesBound
<1>10. MadeInTime'
  BY <1>1, <1>6, <1>7, MadeStays
<1>11. NamesTheirs(o)' /\ HasFiles(o)'
  BY <1>1, <1>3, <1>4 DEF NamesTheirs, HasFiles
<1>12. ASSUME NEW p \in Ops
       PROVE  tree'[p] = tree[p] \/ (Deleted(p)' /\ op[p].pc # "post")
  <2> SUFFICES ASSUME p = w
               PROVE  Deleted(p)' /\ op[p].pc # "post"
    BY <1>5
  <2>1. dir'[op'[o].conv] = p /\ op'[o].kind = "delete"
    BY <1>3, <1>4, <1>2
  <2>2. p # RawPath
    BY DEF RawPath, Ops
  <2>3. op[p].pc \notin Unmade
    BY <1>1, <1>3, <1>2, <2>2 DEF MadeInTime
  <2> QED
    BY <2>1, <2>3 DEF Deleted, Unmade
<1>13. HandlersNameTheirs' /\ FilesKept'
  BY <1>1, <1>3, <1>4, <1>6, <1>7, <1>11, <1>12, OthersStay DEF StepOf
<1>14. Accounted'
  <2> SUFFICES ASSUME NEW x \in Ops, OnDisk(x)', x \notin excused'
               PROVE  InUse(x)' \/ Reaping(x)' \/ op'[x].pc = "post" \/ x \in excused'
    BY DEF Accounted
  <2>1. OnDisk(x) /\ op[o].pc # "post"
    BY <1>3, <1>5
  <2>2. ~(At(o, "delete", "reap") /\ dir[op[o].conv] = x)
    BY <1>5, <1>2
  <2> QED
    BY <1>1, <1>3, <1>4, <1>5, <1>6, <1>7, <2>1, <2>2, HandsStay
<1>15. Ledger'
  <2>1. \A i \in DOMAIN log' \ DOMAIN log : FALSE
    BY <1>3
  <2> QED
    BY <1>1, <1>3, <1>4, <1>5, <1>6, <2>1, NumbersAre, LedgerStays
<1> QED
  BY <1>8, <1>9, <1>10, <1>13, <1>14, <1>15 DEF IInv

\* A commit moves HEAD past all that was born, recorded or read.
LEMMA AgentMovesHeadKeeps ==
  ASSUME IInv, NEW c \in Ops, AgentMovesHead(c)
  PROVE  IInv'
<1>1. /\ TypeOK /\ MovesBound /\ HandlersNameTheirs /\ MadeInTime /\ Accounted
      /\ FilesKept /\ Ledger
  BY DEF IInv
<1>2. /\ UNCHANGED <<op, tree, conv, dir, log, running, stamp, faults, excused>>
      /\ moves' = moves + 1 /\ moves < MaxMoves
      /\ head' = [head EXCEPT ![dir[c]] = moves + 1]
      /\ HeadOf(dir[c]) # NoSha
  BY DEF AgentMovesHead, server
<1>3. dir[c] \in Dirs
  BY <1>1, <1>2, HeadOfIs DEF TypeOK
<1>4. moves \in Nat /\ moves' \in 0 .. MaxMoves
  BY <1>1, <1>2, BoundsAssumption DEF TypeOK
<1>5. /\ head' \in [Dirs -> 0 .. MaxMoves]
      /\ head'[dir[c]] = moves + 1
      /\ \A w \in Dirs : w # dir[c] => head'[w] = head[w]
  BY <1>1, <1>2, <1>3, <1>4 DEF TypeOK
<1>6. TypeOK'
  BY <1>1, <1>2, <1>4, <1>5 DEF TypeOK
<1>7. \A w \in Dirs : head[w] \in Int /\ head'[w] \in Int /\ head[w] <= head'[w]
  BY <1>1, <1>4, <1>5, NumbersAre DEF MovesBound
<1>8. MovesBound'
  <2>1. \A w \in Dirs : head'[w] <= moves'
    BY <1>1, <1>2, <1>4, <1>5, NumbersAre DEF MovesBound
  <2>2. \A w \in Ops : stamp[w] <= moves'
    BY <1>1, <1>2, <1>4, NumbersAre DEF MovesBound
  <2>3. \A p \in Ops : op[p].sha <= moves'
    BY <1>1, <1>2, <1>4, NumbersAre DEF MovesBound
  <2> QED
    BY <1>2, <2>1, <2>2, <2>3 DEF MovesBound
<1>9. HandlersNameTheirs' /\ MadeInTime'
  BY <1>1, <1>2 DEF HandlersNameTheirs, NamesTheirs, MadeInTime
<1>10. Accounted'
  BY <1>1, <1>2 DEF Accounted, OnDisk, InUse, Reaping, At
<1>11. FilesKept'
  BY <1>1, <1>2 DEF FilesKept, HasFiles, Deleted
<1>12. Ledger'
  <2>1. \A i \in DOMAIN log' \ DOMAIN log : FALSE
    BY <1>2
  <2> QED
    BY <1>1, <1>2, <1>7, <2>1, LogStays, LedgerStays
<1> QED
  BY <1>6, <1>8, <1>9, <1>10, <1>11, <1>12 DEF IInv

\* The worktrees that a crash takes from their handlers are excused.
LEMMA CrashKeeps ==
  ASSUME IInv, Crash
  PROVE  IInv'
<1>1. /\ TypeOK /\ MovesBound /\ HandlersNameTheirs /\ MadeInTime /\ Accounted
      /\ FilesKept /\ Ledger
  BY DEF IInv
<1>2. /\ UNCHANGED <<tree, head, conv, dir, log, running, stamp, moves>>
      /\ faults' \in 0 .. MaxFaults
  BY <1>1, BoundsAssumption DEF Crash, server, Fault, TypeOK
<1>3. /\ excused \subseteq excused' /\ excused' \subseteq Ops
      /\ \A w \in Ops : OnDisk(w) /\ Handled(w) => w \in excused'
  BY <1>1 DEF Crash, Handled, TypeOK
<1>4. /\ op' \in [Ops -> Handler]
      /\ \A p \in Ops : IF InFlight(p)
           THEN /\ op'[p].pc = "failed" /\ op'[p].kind = op[p].kind
                /\ op'[p].conv = op[p].conv /\ op'[p].sha = NoSha
           ELSE op'[p] = op[p]
  <2>1. op' = [p \in Ops |-> IF InFlight(p) THEN AtPc(op[p], "failed") ELSE op[p]]
    BY DEF Crash
  <2>2. op \in [Ops -> Handler]
    BY <1>1 DEF TypeOK
  <2>3. \A p \in Ops : /\ AtPc(op[p], "failed") \in Handler
                       /\ AtPc(op[p], "failed").pc = "failed"
                       /\ AtPc(op[p], "failed").kind = op[p].kind
                       /\ AtPc(op[p], "failed").conv = op[p].conv
                       /\ AtPc(op[p], "failed").sha = NoSha
    BY <2>2, AtPcIs DEF Place, Over
  <2> QED
    BY <2>1, <2>2, <2>3
<1>5. \A p \in Ops : op'[p].kind = op[p].kind /\ op'[p].conv = op[p].conv
                     /\ (op'[p] = op[p] \/ (op'[p].pc = "failed" /\ op[p].pc # "new"))
  BY <1>4 DEF InFlight
<1>6. Onward /\ MadeByOwner /\ LogGrows
  BY <1>2, <1>5, LogStays DEF Onward, MadeByOwner, Unposted, Unmade, Unprovisioned
<1>7. TypeOK'
  BY <1>1, <1>2, <1>3, <1>4 DEF TypeOK
<1>8. MovesBound'
  BY <1>1, <1>2, <1>4, NumbersAre DEF MovesBound
<1>9. MadeInTime'
  BY <1>1, <1>6, MadeStays
<1>10. HandlersNameTheirs'
  BY <1>1, <1>2, <1>5 DEF HandlersNameTheirs, NamesTheirs
<1>11. FilesKept'
  <2> SUFFICES ASSUME NEW p \in Ops
               PROVE  HasFiles(p)'
    BY DEF FilesKept
  <2>1. HasFiles(p) /\ (Deleted(p) => Deleted(p)')
    BY <1>1, <1>6, DeletedStays DEF FilesKept
  <2> QED
    BY <1>2, <1>5, <2>1 DEF HasFiles
<1>12. Accounted'
  <2> SUFFICES ASSUME NEW w \in Ops, OnDisk(w)
               PROVE  InUse(w)' \/ w \in excused'
    BY <1>2 DEF Accounted, OnDisk
  <2>1. InUse(w) => InUse(w)'
    BY <1>2 DEF InUse
  <2>2. CASE Reaping(w)
    <3>1. PICK d \in Ops : At(d, "delete", "reap") /\ dir[op[d].conv] = w
      BY <2>2 DEF Reaping
    <3>2. op[d].conv \in Ops /\ InFlight(d)
      BY <1>1, <3>1 DEF At, HandlersNameTheirs, NamesTheirs, InFlight, Over
    <3>3. Handled(w)
      BY <3>1, <3>2 DEF Handled, None, Ops
    <3> QED
      BY <1>3, <3>3
  <2>3. CASE op[w].pc = "post"
    BY <1>3, <2>3 DEF Handled, InFlight, Over
  <2>4. CASE w \in excused
    BY <1>3, <2>4
  <2> QED
    BY <1>1, <2>1, <2>2, <2>3, <2>4 DEF Accounted
<1>13. Ledger'
  <2>1. \A i \in DOMAIN log' \ DOMAIN log : FALSE
    BY <1>2
  <2>2. \A p \in Ops : op'[p].pc \in {"head", "record"} => op'[p] = op[p]
    BY <1>5
  <2> QED
    BY <1>1, <1>2, <1>6, <2>1, <2>2, NumbersAre, LedgerStays
<1> QED
  BY <1>7, <1>8, <1>9, <1>10, <1>11, <1>12, <1>13 DEF IInv

-----------------------------------------------------------------------------
(***************************************************************************)
(* The invariant, and what it says of stamps, worktrees and files.         *)
(***************************************************************************)

\* Nothing has been made yet.
LEMMA FirstStateHolds ==
  Init => IInv
<1> SUFFICES ASSUME Init
             PROVE  IInv
  OBVIOUS
<1>1. NoSha \in Shas /\ 0 \in 0 .. MaxMoves /\ 0 \in 0 .. MaxFaults /\ NoSha < 0
  BY BoundsAssumption DEF NoSha, Shas
<1>2. Idle \in Handler /\ Idle.pc = "new" /\ Idle.kind = "none" /\ Idle.conv = None
      /\ Idle.sha = NoSha
  BY <1>1 DEF Idle, Handler
<1>3. \A o \in Ops : op[o] = Idle
  BY DEF Init
<1>4. TypeOK
  <2>1. op \in [Ops -> Handler]
    BY <1>2 DEF Init
  <2>2. /\ tree \in [Dirs -> {"none", "half", "live", "gone"}]
        /\ head \in [Dirs -> 0 .. MaxMoves]
        /\ conv \in [Ops -> {"none", "live", "gone"}]
        /\ dir \in [Ops -> Dirs]
        /\ stamp \in [Ops -> Shas]
    BY <1>1 DEF Init, RawPath
  <2>3. log \in Seq([conv : Ops, event : Ops, born : Shas])
    BY EmptySeq DEF Init
  <2>4. /\ running \subseteq Ops /\ excused \subseteq Ops
        /\ moves \in 0 .. MaxMoves /\ faults \in 0 .. MaxFaults
    BY <1>1 DEF Init
  <2> QED
    BY <2>1, <2>2, <2>3, <2>4 DEF TypeOK
<1>5. \A i \in DOMAIN log : FALSE
  BY DEF Init
<1>6. MovesBound
  <2>1. /\ moves = 0
        /\ \A w \in Dirs : head[w] = 0
        /\ \A w \in Ops : stamp[w] = NoSha /\ op[w].sha = NoSha
    BY <1>2, <1>3 DEF Init
  <2>2. NoSha <= 0
    BY DEF NoSha
  <2> QED
    BY <2>1, <2>2 DEF MovesBound
<1>7. HandlersNameTheirs /\ MadeInTime /\ Accounted /\ FilesKept
  <2>1. \A w \in Ops : tree[w] = "none"
    BY DEF Init, RawPath, Ops
  <2> QED
    BY <1>2, <1>3, <1>5, <2>1 DEF HandlersNameTheirs, NamesTheirs, MadeInTime, Accounted, OnDisk,
                               FilesKept, HasFiles, Init
<1>8. Ledger
  <2>1. \A e \in Ops : stamp[e] = NoSha
    BY DEF Init
  <2> QED
    BY <1>2, <1>3, <1>5, <2>1 DEF Ledger, BornBelowHead, Captures, NoStaleStamp
<1> QED
  BY <1>4, <1>6, <1>7, <1>8 DEF IInv

\* Every step keeps the invariant.
LEMMA InvariantIsKept ==
  IInv /\ [Next]_vars => IInv'
<1> SUFFICES ASSUME IInv, [Next]_vars
             PROVE  IInv'
  OBVIOUS
<1>1. ASSUME NEW o \in Ops, CreateProvision(o)
      PROVE  IInv'
  BY <1>1, CreateProvisionKeeps
<1>2. ASSUME NEW o \in Ops, PostConversation(o)
      PROVE  IInv'
  BY <1>2, PostingKeeps
<1>3. ASSUME NEW o \in Ops, CreateRun(o)
      PROVE  IInv'
  BY <1>3, CreateRunKeeps
<1>4. ASSUME NEW o \in Ops, Search(o)
      PROVE  IInv'
  BY <1>4, SearchKeeps
<1>5. ASSUME NEW o \in Ops, ReadHead(o)
      PROVE  IInv'
  BY <1>5, ReadHeadKeeps
<1>6. ASSUME NEW o \in Ops, Record(o)
      PROVE  IInv'
  BY <1>6, RecordKeeps
<1>7. ASSUME NEW o \in Ops, MessageArrives(o) \/ DeleteArrives(o)
      PROVE  IInv'
  BY <1>7, MessageOrDeleteArrives
<1>8. ASSUME NEW o \in Ops, MessagePost(o)
      PROVE  IInv'
  BY <1>8, MessagePostKeeps
<1>9. ASSUME NEW o \in Ops, DeleteConversation(o)
      PROVE  IInv'
  BY <1>9, DeleteConversationKeeps
<1>10. ASSUME NEW o \in Ops, DeleteReap(o)
       PROVE  IInv'
  BY <1>10, DeleteReapKeeps
<1>11. ASSUME NEW o \in Ops, DeletePurge(o)
       PROVE  IInv'
  BY <1>11, DeletePurgeKeeps
<1>12. ASSUME NEW o \in Ops, Fork(o)
       PROVE  IInv'
  BY <1>12, ForkKeeps
<1>13. ASSUME NEW o \in Ops, RestartArrives(o)
       PROVE  IInv'
  BY <1>13, RestartArrivesKeeps
<1>14. ASSUME NEW o \in Ops, RestartProvision(o)
       PROVE  IInv'
  BY <1>14, RestartProvisionKeeps
<1>15. ASSUME NEW o \in Ops, RestartSeed(o)
       PROVE  IInv'
  BY <1>15, RestartSeedKeeps
<1>16. ASSUME NEW c \in Ops, AgentMovesHead(c)
       PROVE  IInv'
  BY <1>16, AgentMovesHeadKeeps
<1>17. CASE Crash
  BY <1>17, CrashKeeps
<1>18. CASE UNCHANGED vars
  <2>1. /\ op' = op /\ tree' = tree /\ head' = head /\ conv' = conv /\ dir' = dir /\ log' = log
        /\ running' = running /\ stamp' = stamp /\ moves' = moves /\ faults' = faults
        /\ excused' = excused
    BY <1>18 DEF vars
  <2>2. TypeOK' /\ MovesBound'
    BY <2>1 DEF IInv, TypeOK, MovesBound
  <2>3. HandlersNameTheirs' /\ MadeInTime'
    BY <2>1 DEF IInv, HandlersNameTheirs, NamesTheirs, MadeInTime
  <2>4. Accounted' /\ FilesKept'
    BY <2>1 DEF IInv, Accounted, OnDisk, InUse, Reaping, At, FilesKept, HasFiles, Deleted
  <2>5. Ledger'
    BY <2>1 DEF IInv, Ledger, BornBelowHead, Captures, NoStaleStamp
  <2> QED
    BY <2>2, <2>3, <2>4, <2>5 DEF IInv
<1> QED
  BY <1>1, <1>2, <1>3, <1>4, <1>5, <1>6, <1>7, <1>8, <1>9, <1>10, <1>11, <1>12, <1>13,
     <1>14, <1>15, <1>16, <1>17, <1>18 DEF Next

\* A worktree in the hands of a handler that is about to give it a conversation, or to
\* remove it, is handled.
LEMMA AccountedIsEnough ==
  ASSUME TypeOK, HandlersNameTheirs, Accounted
  PROVE  NoWorktreeLeak
<1> SUFFICES ASSUME NEW w \in Ops, OnDisk(w)
             PROVE  InUse(w) \/ Handled(w) \/ w \in excused
  BY DEF NoWorktreeLeak
<1>1. CASE Reaping(w)
  <2>1. PICK d \in Ops : At(d, "delete", "reap") /\ dir[op[d].conv] = w
    BY <1>1 DEF Reaping
  <2>2. op[d].conv \in Ops /\ InFlight(d)
    BY <2>1 DEF At, HandlersNameTheirs, NamesTheirs, InFlight, Over
  <2> QED
    BY <2>1, <2>2 DEF Handled, None, Ops
<1>2. CASE op[w].pc = "post"
  BY <1>2 DEF Handled, InFlight, Over
<1> QED
  BY <1>1, <1>2 DEF Accounted

\* In every run of the system, of any number of requests: a stamp is no older than the
\* message it belongs to, and a live worktree is in use, in a handler's hands or excused
\* (bff/routers/runs.py, bff/services/restart.py, bff/services/worktree.py).
THEOREM WorktreesAreRight ==
  Spec => []WorktreesHold
<1>1. IInv => WorktreesHold
  BY AccountedIsEnough DEF IInv, WorktreesHold, Ledger
<1> QED
  BY FirstStateHolds, InvariantIsKept, <1>1, PTL DEF Spec

\* A run that create_run or restart_from_here has answered for keeps the files of its
\* worktree until a run that has them is deleted: no rollback, of its own handler or of
\* another, takes them away.
THEOREM AnsweredRunsKeepTheirFiles ==
  Spec => []AnsweredRunHasItsFiles
<1>1. IInv => AnsweredRunHasItsFiles
  BY DEF IInv, FilesKept, HasFiles, AnsweredRunHasItsFiles
<1> QED
  BY FirstStateHolds, InvariantIsKept, <1>1, PTL DEF Spec
=============================================================================
