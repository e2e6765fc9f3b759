---------------------------- MODULE MCScheduler ----------------------------
(* Instances of SchedulerLoop, CronSchedules and SagaCoordinator for TLC.    *)
(* These parts of the scheduler share no state here, so a behaviour is about *)
(* one of them; the others stay in their first state, where no step that     *)
(* fairness asks for is possible.                                            *)
EXTENDS SchedulerLoop, CronSchedules, SagaCoordinator, TLC

CONSTANTS p1, p2, c1, c2, c3, k1, k2

\* Two overlapping checks in the first process, one in the second.
TwoHosts == (c1 :> p1) @@ (c2 :> p1) @@ (c3 :> p2)

\* An expression for every minute, and an interval of eight units.
Intervals == (k1 :> 0) @@ (k2 :> 8)
AllMinutes == (k1 :> {0, 1, 2, 3}) @@ (k2 :> {})

VARIABLE part

SchedulerInit ==
  /\ part \in {"loop", "cron", "saga"}
  /\ Init
  /\ CronInit
  /\ SagaInit

SchedulerNext ==
  \/ part = "loop" /\ Next /\ UNCHANGED <<part, cronVars, sagaVars>>
  \/ part = "cron" /\ CronNext /\ UNCHANGED <<part, vars, sagaVars>>
  \/ part = "saga" /\ SagaNext /\ UNCHANGED <<part, vars, cronVars>>

SchedulerSpec ==
  /\ SchedulerInit
  /\ [][SchedulerNext]_<<part, vars, cronVars, sagaVars>>
  /\ Fairness
  /\ SagaFairness
=============================================================================
