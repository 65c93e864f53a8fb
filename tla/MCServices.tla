----------------------------- MODULE MCServices -----------------------------
(***************************************************************************)
(* The long-running services beside the relay: the handlers that steer a   *)
(* run, the GPU monitor and the self-evaluation cycle.  They share no      *)
(* state, so one run checks each by itself: which one serves is chosen at  *)
(* the start, and the other two stay in an initial state.                  *)
(***************************************************************************)
EXTENDS RunLifecycle, GpuMonitor, SelfEval

VARIABLE serving

serviceVars == <<serving, lifeVars, gpuVars, evalVars>>

MCManifest == <<"t1", "t2">>
MCSamples == {[temperature |-> 96, power |-> -1, vram |-> -1, utilization |-> 50],
              [temperature |-> -1, power |-> 600, vram |-> 90, utilization |-> 100]}
MCEnv == {[temperature |-> 500, power |-> -1, vram |-> 0, utilization |-> -2],
          [temperature |-> -2, power |-> 450, vram |-> -1, utilization |-> -1]}

ServiceInit ==
  /\ serving \in {"lifecycle", "gpu", "selfeval"}
  /\ LifeInit /\ GpuInit /\ EvalInit
  /\ serving # "lifecycle" => convStatus = "idle" /\ ~turn
  /\ serving # "selfeval" => proposals = <<>>
  /\ serving # "gpu" => bffEnv = hookEnv /\ bffEnv["temperature"] = 500

LifecycleStep == serving = "lifecycle" /\ LifeNext /\ UNCHANGED <<serving, gpuVars, evalVars>>
GpuStep       == serving = "gpu" /\ GpuNext /\ UNCHANGED <<serving, lifeVars, evalVars>>
CycleStep     == serving = "selfeval" /\ EvalNext /\ UNCHANGED <<serving, lifeVars, gpuVars>>

ServiceNext == LifecycleStep \/ GpuStep \/ CycleStep

ServiceFairness == LifeFair /\ GpuFair /\ EvalFair

ServiceSpec == ServiceInit /\ [][ServiceNext]_serviceVars /\ ServiceFairness

-----------------------------------------------------------------------------
\* The types of the three.
ServiceTypeOK == LifeTypeOK /\ GpuTypeOK /\ EvalTypeOK

\* Whatever a service waits for, the wait ends: a request is answered, a stopped poller ends,
\* and the flag of a self-evaluation cycle falls.
EveryWaitEnds == RequestAnswered /\ PollerStops /\ FlagFalls
=============================================================================
