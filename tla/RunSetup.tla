------------------------------ MODULE RunSetup ------------------------------
(***************************************************************************)
(* How a run comes to be guarded: create_run (bff/routers/runs.py) from    *)
(* its POST /api/conversations to the start of the agent, and              *)
(* restart_from_here (bff/services/restart.py), which makes a conversation *)
(* of its own.  The handlers interleave with each other, with a user who   *)
(* resumes any conversation of the list, with the agents and with calls    *)
(* that fail.  Worktrees and the writing of the event-commit ledger, which *)
(* the same handlers do, are in RunWorktrees, the relay that create_run    *)
(* opens at its end in EventRelay, the sidecar it seeds in SidecarFile;    *)
(* which role and backend a request is routed to is left out.              *)
(*                                                                         *)
(* external: the agent-server.  A conversation rests until it is told to   *)
(* run, has no confirmation policy and no analyzer until they are posted,  *)
(* and a call without an analyzer has an unknown risk.  A call that fails  *)
(* may have taken effect.                                                  *)
(***************************************************************************)
EXTENDS Naturals

CONSTANTS
  SetupRuns,      \* the runs, each made by a request of its own
  MaxSetupFaults, \* bound: calls that fail
  PageSize,       \* events of a page of the search for the anchor: 100
  MaxPages,       \* pages it reads at most: 10
  AnchorAt        \* where the anchor can be in the source's log

ASSUME SetupConstants ==
  /\ MaxSetupFaults \in Nat
  /\ PageSize \in Nat \ {0} /\ MaxPages \in Nat \ {0} /\ AnchorAt \subseteq Nat \ {0}

VARIABLES
  wish,     \* per run, its request: who made it, whether it wants approvals; and of a
            \* restart where the anchor is, what event it is, and the pages read so far
  stage,    \* per run, where its handler is
  guard,    \* per run, at the agent-server: [policy, analyzer]
  loop,     \* per run, its agent: none, idle, running, asked
  unasked,  \* history: <<run, risk, early>> of the calls that have run unasked, and
            \* whether the run had no policy then
  refused,  \* history: the runs whose confirmation policy was refused or not answered
  resumed,  \* history: the runs a user has resumed
  setupFaults

setupVars == <<wish, stage, guard, loop, unasked, refused, resumed, setupFaults>>
history   == <<unasked, refused, resumed>>

\* What the event of an anchor can be: a user's message with a text, whose commit
\* is in the ledger or is not; or anything else.
AnchorKinds == {"stamped", "unstamped", "other"}
Unguarded  == [policy |-> "none", analyzer |-> FALSE]
NoWish     == [by |-> "nobody", approve |-> FALSE, anchor |-> 0, kind |-> "other", pages |-> 0]

SetupInit ==
  /\ wish = [r \in SetupRuns |-> NoWish] /\ stage = [r \in SetupRuns |-> "new"]
  /\ guard = [r \in SetupRuns |-> Unguarded] /\ loop = [r \in SetupRuns |-> "none"]
  /\ unasked = {} /\ refused = {} /\ resumed = {} /\ setupFaults = 0

Enters(r, s) == stage' = [stage EXCEPT ![r] = s]
Moves(r, s, t) == stage[r] = s /\ Enters(r, t)
Fault == setupFaults < MaxSetupFaults /\ setupFaults' = setupFaults + 1
Guards(r, field, value) == guard' = [guard EXCEPT ![r][field] = value]

----------------------------------------------------------------------------
(* create_run.                                                             *)

\* A role no engine can serve: the answer is a blocked run, and nothing is made.
CreateBlocked(r) ==
  /\ Moves(r, "new", "blocked") /\ Fault
  /\ UNCHANGED <<wish, guard, loop, history>>

\* No answer, a refusal or an answer without an id is a 502; the conversation
\* may be there, without anything but the agent it was asked for with.
Created(r) ==
  /\ stage[r] = "new"
  /\ \E approve \in BOOLEAN : wish' = [wish EXCEPT ![r] = [NoWish EXCEPT !.by = "create",
                                                                         !.approve = approve]]
  /\ \/ Enters(r, "seed") /\ loop' = [loop EXCEPT ![r] = "idle"] /\ UNCHANGED setupFaults
     \/ Enters(r, "502") /\ Fault /\ \E l \in {"none", "idle"} : loop' = [loop EXCEPT ![r] = l]
  /\ UNCHANGED <<guard, history>>

\* seed_sidecar swallows its errors.
SidecarSeeded(r) ==
  /\ Moves(r, "seed", "analyzer")
  /\ UNCHANGED <<wish, guard, loop, history, setupFaults>>

AnalyzerAttached(r) ==
  /\ Moves(r, "analyzer", "policy")
  /\ \/ Guards(r, "analyzer", TRUE) /\ UNCHANGED setupFaults
     \/ Fault /\ UNCHANGED guard
     \/ Fault /\ Guards(r, "analyzer", TRUE)
  /\ UNCHANGED <<wish, loop, history>>

\* _build_confirmation_policy.
BuildConfirmationPolicy(approve) == IF approve THEN "AlwaysConfirm" ELSE "ConfirmRisky"

\* A refusal is logged, and the run goes on.
PolicySet(r) ==
  /\ Moves(r, "policy", "kick")
  /\ LET sets == Guards(r, "policy", BuildConfirmationPolicy(wish[r].approve)) IN
     \/ sets /\ UNCHANGED <<refused, setupFaults>>
     \/ Fault /\ refused' = refused \cup {r} /\ (UNCHANGED guard \/ sets)
  /\ UNCHANGED <<wish, loop, unasked, resumed>>

\* Mutated: the agent is started as soon as the conversation is there.
KickedOffAtOnce(r) ==
  /\ stage[r] \in {"seed", "kick"} /\ loop[r] = "idle"
  /\ IF stage[r] = "kick" THEN Enters(r, "done") ELSE UNCHANGED stage
  /\ loop' = [loop EXCEPT ![r] = "running"]
  /\ UNCHANGED <<wish, guard, history, setupFaults>>

\* POST /run starts an agent that rests, and answers 409 for one that does not.
Runs(r) == loop' = [loop EXCEPT ![r] = IF @ = "idle" THEN "running" ELSE @]

\* 200 and 409 are both a start; a failure is logged.
KickedOff(r) ==
  /\ Moves(r, "kick", "done")
  /\ \/ Runs(r) /\ UNCHANGED setupFaults
     \/ Fault /\ (UNCHANGED loop \/ Runs(r))
  /\ UNCHANGED <<wish, guard, history>>

\* resume_run: a user resumes a conversation of the list, wherever the handler
\* that made it is.
Resumed(r) ==
  /\ loop[r] = "idle" /\ Runs(r) /\ resumed' = resumed \cup {r}
  /\ UNCHANGED <<wish, stage, guard, unasked, refused, setupFaults>>

----------------------------------------------------------------------------
(* restart_from_here, from a run that has an answer.                       *)

RestartAsked(r) ==
  /\ Moves(r, "new", "scan") /\ \E s \in SetupRuns : s # r /\ loop[s] # "none"
  /\ \E a \in AnchorAt, k \in AnchorKinds :
       wish' = [wish EXCEPT ![r] = [NoWish EXCEPT !.by = "restart", !.anchor = a, !.kind = k]]
  /\ UNCHANGED <<guard, loop, history, setupFaults>>

\* _fetch_event: one page after the other, and no more than MaxPages of them.
PageHas(r) == wish[r].anchor <= (wish[r].pages + 1) * PageSize
\* An event that is no message of a user, or one without a text, is refused, and
\* so is one whose commit the ledger does not have.
AnchorAnswer(kind) == IF kind = "stamped" THEN "make"
                ELSE IF kind = "unstamped" THEN "no_sha_anchor" ELSE "not_user_message"
AnchorFound(r) ==
  /\ Moves(r, "scan", AnchorAnswer(wish[r].kind)) /\ PageHas(r)
  /\ UNCHANGED <<wish, guard, loop, history, setupFaults>>
AnchorNotOnPage(r) ==
  /\ stage[r] = "scan" /\ ~PageHas(r)
  /\ wish' = [wish EXCEPT ![r].pages = @ + 1]
  /\ IF wish[r].pages + 1 < MaxPages THEN UNCHANGED stage ELSE Enters(r, "404")
  /\ UNCHANGED <<guard, loop, history, setupFaults>>
\* The source, a page or the ledger cannot be read.
ScanFails(r) ==
  /\ Moves(r, "scan", "502") /\ Fault
  /\ UNCHANGED <<wish, guard, loop, history>>

\* The conversation gets the agent of the source, no message, and nothing else.
Restarted(r) ==
  /\ stage[r] = "make"
  /\ \/ Enters(r, "message") /\ loop' = [loop EXCEPT ![r] = "idle"] /\ UNCHANGED setupFaults
     \/ Enters(r, "502") /\ Fault /\ \E l \in {"none", "idle"} : loop' = [loop EXCEPT ![r] = l]
  /\ UNCHANGED <<wish, guard, history>>

\* The message starts the agent; its event is stamped and the request answered.
RestartSeeded(r) ==
  /\ stage[r] = "message"
  /\ \/ Enters(r, "done") /\ Runs(r) /\ UNCHANGED setupFaults
     \/ Enters(r, "502") /\ Fault /\ (UNCHANGED loop \/ Runs(r))
  /\ UNCHANGED <<wish, guard, history>>

----------------------------------------------------------------------------
(* external: the agent proposes a call, and the conversation's policy says *)
(* whether it is asked for first.                                          *)

\* "high" stands for medium too: the threshold does not tell them apart.
Risks == {"low", "high"}
Label(r, risk) == IF guard[r].analyzer THEN risk ELSE "unknown"
Asks(r, label) ==
  \/ guard[r].policy = "AlwaysConfirm"
  \/ guard[r].policy = "ConfirmRisky" /\ label \in {"high", "unknown"}

AgentProposes(r, risk) ==
  /\ loop[r] = "running"
  /\ IF Asks(r, Label(r, risk))
     THEN loop' = [loop EXCEPT ![r] = "asked"] /\ UNCHANGED unasked
     ELSE UNCHANGED loop /\ unasked' = unasked \cup {<<r, risk, guard[r].policy = "none">>}
  /\ UNCHANGED <<wish, stage, guard, refused, resumed, setupFaults>>

Approved(r) ==
  /\ loop[r] = "asked" /\ loop' = [loop EXCEPT ![r] = "running"]
  /\ UNCHANGED <<wish, stage, guard, history, setupFaults>>

SetupNext ==
  \E r \in SetupRuns :
    \/ CreateBlocked(r) \/ Created(r) \/ SidecarSeeded(r) \/ AnalyzerAttached(r) \/ PolicySet(r)
    \/ KickedOff(r) \/ Resumed(r)
    \/ RestartAsked(r) \/ AnchorFound(r) \/ AnchorNotOnPage(r) \/ ScanFails(r)
    \/ Restarted(r) \/ RestartSeeded(r) \/ Approved(r)
    \/ \E risk \in Risks : AgentProposes(r, risk)

SetupSpec == SetupInit /\ [][SetupNext]_setupVars

----------------------------------------------------------------------------

SetupTypeOK ==
  /\ \A r \in SetupRuns :
       /\ wish[r].pages \in 0..MaxPages
       /\ guard[r].policy \in {"none", "ConfirmRisky", "AlwaysConfirm"}
       /\ guard[r].analyzer => guard[r].policy # "none" \/ r \in refused \/ stage[r] = "policy"
  /\ setupFaults \in 0..MaxSetupFaults

(* What a run of create_run did unasked was of low risk, and nothing if it *)
(* wanted approvals: whichever other call of the set-up failed.  But for   *)
(* two cases: its policy was refused or not answered; or it had no policy  *)
(* yet because a user resumed it before its handler came to that, which    *)
(* excuses only what it did until the policy was there.                    *)
AsksAsConfigured ==
  \A r \in SetupRuns, risk \in Risks, early \in BOOLEAN :
    <<r, risk, early>> \in unasked /\ wish[r].by = "create" /\ r \notin refused
    => \/ risk = "low" /\ ~wish[r].approve
       \/ early /\ r \in resumed

(* An event that is not on any page the scan may read is unknown, and said *)
(* to be, whatever the ledger has ("so unknown event ids surface as 404    *)
(* instead of leaking as 409"); one that is on a page is judged by what it *)
(* is, and nothing is made of one without a commit.                        *)
AnchorIsFound ==
  \A r \in SetupRuns :
    /\ stage[r] = "404" => wish[r].anchor > PageSize * MaxPages
    /\ stage[r] \in {"make", "message", "no_sha_anchor", "not_user_message"} =>
         wish[r].anchor <= PageSize * MaxPages
    /\ wish[r].by = "restart" /\ loop[r] # "none" => wish[r].kind = "stamped"

(* What a run's set-up guarantees.                                         *)
SetupIsSafe == AsksAsConfigured /\ AnchorIsFound

(* The claim of create_run, "fail-closed on any ActionEvent the analyzer   *)
(* flags MEDIUM or HIGH": no such call of a run that it has started, and   *)
(* nobody resumed, goes unasked.                                           *)
RiskyCallsAreAsked ==
  \A r \in SetupRuns \ resumed, early \in BOOLEAN :
    wish[r].by = "create" => <<r, "high", early>> \notin unasked
=============================================================================
