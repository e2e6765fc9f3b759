---------------------------- MODULE SagaProofs ----------------------------
(***************************************************************************)
(* Proofs about SagaCoordinator, for any number of steps, slots and faults.*)
(***************************************************************************)
EXTENDS SagaCoordinator, TLAPS

\* The part of the state the rollback is about is well typed.
SagaTyped ==
  /\ finished \in 0..NSteps
  /\ undo \in 0..NSteps
  /\ comp \in [Steps -> CompStatus]
  /\ queue \in Seq(Steps)

\* While the rollback is at step "undo", the finished steps above it are dealt
\* with; what waits in the queue has been enqueued.
RollbackInv ==
  /\ SagaTyped
  /\ \A x \in 1..Len(queue) : comp[queue[x]] # "none"
  /\ phase = "rollback" =>
       /\ undo <= finished
       /\ \A i \in (undo + 1)..finished : comp[i] # "none" \/ i \in refused
  /\ NoStepForgotten
  /\ OnlyFinishedUndone

\* execute() starts with nothing finished and nothing enqueued.
LEMMA RollbackInit == SagaInit => RollbackInv
BY SagaAssumption
DEF SagaInit, RollbackInv, SagaTyped, NoStepForgotten, OnlyFinishedUndone, Steps,
    CompStatus

\* Every step of execute(), and of a compensation job, preserves it.
LEMMA RollbackStep == RollbackInv /\ [SagaNext]_sagaVars => RollbackInv'
<1> SUFFICES ASSUME RollbackInv, [SagaNext]_sagaVars PROVE RollbackInv'
  OBVIOUS
<1> USE SagaAssumption
    DEF RollbackInv, SagaTyped, NoStepForgotten, OnlyFinishedUndone, Steps,
        CompStatus, saga, jobs
<1>1. CASE StepSucceeds
  BY <1>1 DEF StepSucceeds
<1>2. CASE StepFails
  BY <1>2 DEF StepFails
<1>3. CASE ReturnSuccess
  BY <1>3 DEF ReturnSuccess
<1>4. CASE EnqueueCompensation
  BY <1>4 DEF EnqueueCompensation
<1>5. CASE ReturnFailure
  BY <1>5 DEF ReturnFailure
<1>6. CASE CompensationRejected
  <2>1. CASE UNCHANGED <<comp, queue>>
    BY <1>6, <2>1 DEF CompensationRejected
  <2>2. CASE /\ comp' = [comp EXCEPT ![undo] = "pending"]
             /\ queue' = Append(queue, undo)
    <3>1. /\ phase' = phase /\ finished' = finished
          /\ undo' = undo - 1 /\ undo \in Steps
          /\ refused' = refused \cup {undo}
          /\ phase = "rollback"
      BY <1>6 DEF CompensationRejected
    <3> QED
      BY <2>2, <3>1
  <2> QED
    BY <1>6, <2>1, <2>2 DEF CompensationRejected
<1>7. ASSUME NEW lost \in SUBSET Running, Crash(lost) PROVE RollbackInv'
  <2>1. \A i \in Steps : comp'[i] = "none" <=> comp[i] = "none"
    BY <1>7 DEF Crash, Running
  <2>2. comp' \in [Steps -> CompStatus]
    BY <1>7 DEF Crash
  <2> QED
    BY <1>7, <2>1, <2>2 DEF Crash
<1>8. CASE Take
  <2>1. /\ Head(queue) \in Steps
        /\ comp[Head(queue)] # "none"
        /\ Tail(queue) \in Seq(Steps)
        /\ Len(Tail(queue)) = Len(queue) - 1
        /\ \A x \in 1..Len(Tail(queue)) : Tail(queue)[x] = queue[x + 1]
    BY <1>8 DEF Take
  <2>2. /\ comp' = [comp EXCEPT ![Head(queue)] = "running"]
        /\ queue' = Tail(queue)
        /\ UNCHANGED <<phase, finished, undo, refused>>
    BY <1>8 DEF Take
  <2>3. \A i \in Steps : comp'[i] = "none" <=> comp[i] = "none"
    BY <2>1, <2>2
  <2>4. \A x \in 1..Len(queue') : comp'[queue'[x]] # "none"
    <3> SUFFICES ASSUME NEW x \in 1..Len(queue')
                 PROVE  comp'[queue'[x]] # "none"
      OBVIOUS
    <3>1. x + 1 \in 1..Len(queue) /\ queue'[x] = queue[x + 1]
      BY <2>1, <2>2
    <3>2. queue[x + 1] \in Steps /\ comp[queue[x + 1]] # "none"
      BY <3>1
    <3> QED
      BY <2>3, <3>1, <3>2
  <2> QED
    BY <2>1, <2>2, <2>3, <2>4
<1>9. ASSUME NEW i \in Steps, Ends(i) PROVE RollbackInv'
  <2>1. CASE CompensationSucceeds(i)
    BY <2>1 DEF CompensationSucceeds
  <2>2. CASE CompensationFails(i)
    <3>1. PICK s \in {"failed", "delayed"} : comp' = [comp EXCEPT ![i] = s]
      BY <2>2 DEF CompensationFails
    <3>2. UNCHANGED <<phase, finished, undo, refused, queue>>
      BY <2>2 DEF CompensationFails
    <3> QED
      BY <2>2, <3>1, <3>2 DEF CompensationFails
  <2> QED
    BY <1>9, <2>1, <2>2 DEF Ends
<1>10. ASSUME NEW i \in Steps, RetryDue(i) PROVE RollbackInv'
  BY <1>10 DEF RetryDue
<1>11. CASE Call
  BY <1>11 DEF Call
<1>12. CASE UNCHANGED sagaVars
  BY <1>12 DEF sagaVars
<1> QED
  BY <1>1, <1>2, <1>3, <1>4, <1>5, <1>6, <1>7, <1>8, <1>9, <1>10,
     <1>11, <1>12
  DEF SagaNext, Execute

\* The invariant the results below are read off from.
LEMMA RollbackAlways == SagaSpec => []RollbackInv
BY RollbackInit, RollbackStep, PTL DEF SagaSpec

\* However enqueues are rejected, applied or not, and processes die:
\* execute() never returns success: false with a finished step that has
\* neither a compensation job nor a logged error, and every such job is about
\* a finished step of a saga that has failed.
THEOREM RollbackIsExact == SagaSpec => []RollbackExact
<1>1. RollbackInv => RollbackExact
  BY DEF RollbackInv, RollbackExact
<1> QED
  BY <1>1, RollbackAlways, PTL
=============================================================================
