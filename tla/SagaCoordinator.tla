-------------------------- MODULE SagaCoordinator --------------------------
(***************************************************************************)
(* One execute() of a SagaCoordinator and the compensation jobs it leaves  *)
(* to the JobScheduler: steps run forwards one after the other; when one   *)
(* fails, a job "compensate:<step>" is enqueued for every finished step,   *)
(* last step first, and the worker slots run these jobs with retries.      *)
(*                                                                         *)
(* The scheduler appears by what SqlJobs, RedisJobs and SchedulerLoop show *)
(* of it: a job is given to one free slot, oldest runAt first, and is      *)
(* retried until MaxAttempts.  What execute() knows is in memory only.     *)
(***************************************************************************)
EXTENDS Naturals, Sequences, FiniteSets

CONSTANTS
  NSteps,        \* steps.length
  Slots,         \* maxConcurrency
  MaxAttempts,   \* attempts of a compensation job
  MaxSagaFaults  \* bound: the rejected enqueues and crashes

ASSUME SagaAssumption ==
  /\ NSteps \in Nat
  /\ Slots \in Nat \ {0}
  /\ MaxAttempts \in Nat \ {0}
  /\ MaxSagaFaults \in Nat

Steps == 1..NSteps

VARIABLES
  phase,     \* where execute() is: not called, its loops, its returns, or gone
  finished,  \* executedSteps.length
  undo,      \* the step whose compensation is enqueued next, i + 1
  comp,      \* the compensation job of each step
  attempts,  \* its attempts
  queue,     \* the compensation jobs waiting for a slot, by runAt
  refused,   \* the steps whose compensation could not be enqueued
  sagaFaults \* the faults that have happened

saga == <<phase, finished, undo, refused>>
jobs == <<comp, attempts, queue>>
sagaVars == <<saga, jobs, sagaFaults>>

CompStatus == {"none", "pending", "delayed", "running", "completed", "failed"}

SagaTypeOK ==
  /\ phase \in {"idle", "forward", "rollback", "succeeded", "failed", "crashed"}
  /\ finished \in 0..NSteps
  /\ undo \in 0..NSteps
  /\ comp \in [Steps -> CompStatus]
  /\ attempts \in [Steps -> 0..MaxAttempts]
  /\ queue \in Seq(Steps)
  /\ refused \subseteq Steps
  /\ sagaFaults \in 0..MaxSagaFaults

SagaInit ==
  /\ phase = "idle"
  /\ finished = 0
  /\ undo = 0
  /\ comp = [i \in Steps |-> "none"]
  /\ attempts = [i \in Steps |-> 0]
  /\ queue = <<>>
  /\ refused = {}
  /\ sagaFaults = 0

SagaFault == sagaFaults < MaxSagaFaults /\ sagaFaults' = sagaFaults + 1

-----------------------------------------------------------------------------
(* execute().                                                              *)

\* execute() is called.
Call ==
  /\ phase = "idle"
  /\ phase' = "forward"
  /\ UNCHANGED <<finished, undo, refused, jobs, sagaFaults>>

\* run() of the next step resolves; the last one ends the saga.
StepSucceeds ==
  /\ phase = "forward"
  /\ finished < NSteps
  /\ finished' = finished + 1
  /\ UNCHANGED <<phase, undo, refused, jobs, sagaFaults>>

ReturnSuccess ==
  /\ phase = "forward"
  /\ finished = NSteps
  /\ phase' = "succeeded"
  /\ UNCHANGED <<finished, undo, refused, jobs, sagaFaults>>

\* Mutant of StepFails: the rollback misses the last finished step.
StepFailsShort ==
  /\ phase = "forward"
  /\ finished < NSteps
  /\ undo' = IF finished > 0 THEN finished - 1 ELSE 0
  /\ phase' = "rollback"
  /\ UNCHANGED <<finished, refused, jobs, sagaFaults>>

\* run() of the next step rejects: the steps before it are rolled back.
StepFails ==
  /\ phase = "forward"
  /\ finished < NSteps
  /\ undo' = finished
  /\ phase' = "rollback"
  /\ UNCHANGED <<finished, refused, jobs, sagaFaults>>

EnqueueCompensation ==
  /\ phase = "rollback"
  /\ undo > 0
  /\ comp' = [comp EXCEPT ![undo] = "pending"]
  /\ queue' = Append(queue, undo)
  /\ undo' = undo - 1
  /\ UNCHANGED <<phase, finished, refused, attempts, sagaFaults>>

\* enqueue rejects: the error is logged and the loop goes on. The job may be
\* in the storage all the same, when only the reply of save() was lost.
CompensationRejected ==
  /\ phase = "rollback"
  /\ undo > 0
  /\ SagaFault
  /\ \/ UNCHANGED <<comp, queue>>
     \/ comp' = [comp EXCEPT ![undo] = "pending"] /\ queue' = Append(queue, undo)
  /\ refused' = refused \cup {undo}
  /\ undo' = undo - 1
  /\ UNCHANGED <<phase, finished, attempts>>

ReturnFailure ==
  /\ phase = "rollback"
  /\ undo = 0
  /\ phase' = "failed"
  /\ UNCHANGED <<finished, undo, refused, jobs, sagaFaults>>

-----------------------------------------------------------------------------
(* The scheduler and the compensation handlers.                            *)

Running == {i \in Steps : comp[i] = "running"}

\* A process dies, with execute() or with some of the compensations that are
\* running. These keep their attempts and are found again by their lease.
Crash(lost) ==
  /\ SagaFault
  /\ \/ phase \in {"forward", "rollback"} /\ phase' = "crashed"
     \/ lost # {} /\ UNCHANGED phase
  /\ comp' = [i \in Steps |-> IF i \in lost THEN "delayed" ELSE comp[i]]
  /\ UNCHANGED <<finished, undo, refused, attempts, queue>>

\* A free slot takes the job with the oldest runAt.
Take ==
  /\ queue # <<>>
  /\ Cardinality(Running) < Slots
  /\ comp' = [comp EXCEPT ![Head(queue)] = "running"]
  /\ queue' = Tail(queue)
  /\ UNCHANGED <<saga, attempts, sagaFaults>>

CompensationSucceeds(i) ==
  /\ comp[i] = "running"
  /\ comp' = [comp EXCEPT ![i] = "completed"]
  /\ UNCHANGED <<saga, attempts, queue, sagaFaults>>

\* compensate() throws: a retry later, or the dead-letter queue.
CompensationFails(i) ==
  /\ comp[i] = "running"
  /\ attempts' = [attempts EXCEPT ![i] = @ + 1]
  /\ comp' = [comp EXCEPT ![i] = IF attempts[i] + 1 >= MaxAttempts
                                   THEN "failed" ELSE "delayed"]
  /\ UNCHANGED <<saga, queue, sagaFaults>>

\* Mutant of RetryDue: the retry is never found.
RetryDueUnseen(i) ==
  /\ comp[i] = "delayed"
  /\ comp' = [comp EXCEPT ![i] = "pending"]
  /\ UNCHANGED <<saga, attempts, queue, sagaFaults>>

\* The runAt of a retry passes, or the lease of a process that has died.
RetryDue(i) ==
  /\ comp[i] = "delayed"
  /\ comp' = [comp EXCEPT ![i] = "pending"]
  /\ queue' = Append(queue, i)
  /\ UNCHANGED <<saga, attempts, sagaFaults>>

Ends(i) == CompensationSucceeds(i) \/ CompensationFails(i)

Execute ==
  \/ StepSucceeds
  \/ StepFails
  \/ ReturnSuccess
  \/ EnqueueCompensation
  \/ ReturnFailure

SagaNext ==
  \/ Call
  \/ Execute
  \/ CompensationRejected
  \/ \E lost \in SUBSET Running : Crash(lost)
  \/ Take
  \/ \E i \in Steps : Ends(i) \/ RetryDue(i)

SagaSpec == SagaInit /\ [][SagaNext]_sagaVars

\* Promises settle, slots poll, handlers are cut off by their timeout, and
\* time passes.
SagaFairness ==
  /\ WF_sagaVars(Execute)
  /\ WF_sagaVars(Take)
  /\ \A i \in Steps : WF_sagaVars(Ends(i)) /\ WF_sagaVars(RetryDue(i))

SagaFairSpec == SagaSpec /\ SagaFairness

-----------------------------------------------------------------------------
(* Properties.                                                             *)

\* execute() returns success: false only when each finished step has its
\* compensation job, unless enqueue rejected that one: an error in the middle
\* of the rollback does not end it.
NoStepForgotten ==
  phase = "failed" => \A i \in 1..finished : comp[i] # "none" \/ i \in refused

\* Compensation jobs, which other slots may run while the rollback still
\* goes on, are about finished steps of a saga that has failed.
OnlyFinishedUndone ==
  \A i \in Steps : comp[i] # "none" =>
    i <= finished /\ phase \in {"rollback", "failed", "crashed"}

\* The loop of execute() over executedSteps: it undoes the finished steps and
\* these alone, whatever enqueue rejects meanwhile.
RollbackExact == NoStepForgotten /\ OnlyFinishedUndone

\* A rollback ends: once a step has failed, every finished step is undone, or
\* is on record as one that was not: a dead letter, or a rejected enqueue
\* that has left no job.
RollbackEnds ==
  phase = "failed" ~> \A i \in 1..finished :
                        \/ comp[i] \in {"completed", "failed"}
                        \/ comp[i] = "none" /\ i \in refused
=============================================================================
