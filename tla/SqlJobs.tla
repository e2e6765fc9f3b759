------------------------------ MODULE SqlJobs ------------------------------
(***************************************************************************)
(* The life of a job of @axiomify/jobs kept in SQLJobStorage and worked on *)
(* by the slots of several JobScheduler processes: enqueue, acquireNext,   *)
(* executeJob with its timeout, complete, and handleJobFailure with its    *)
(* retries and its dead-letter queue.                                      *)
(*                                                                         *)
(* Every SQL statement is atomic and every method of the storage that      *)
(* issues two of them takes two steps.  The processes read one clock.      *)
(* Times are distances to "now", counted down by Tick; a worker never lets *)
(* its deadline pass: the handler is cut off after JobTimeout, and a call  *)
(* of the storage, event loop delays included, takes at most StoreTime.    *)
(***************************************************************************)
EXTENDS Integers

CONSTANTS
  Jobs,          \* the jobs that may be enqueued
  NoJob,         \* not a job
  Workers,       \* the worker slots (activeWorkers) of every process
  Processes,     \* the processes that run a scheduler
  Host,          \* the process each slot belongs to
  Priority,      \* EnqueueOptions.priority of each job
  MaxAttempts,   \* EnqueueOptions.attempts
  Delays,        \* EnqueueOptions.delayMs, the values used
  LockDuration,  \* SchedulerOptions.lockDurationMs
  JobTimeout,    \* SchedulerOptions.jobTimeoutMs
  RetryDelay,    \* SchedulerOptions.defaultRetryDelayMs
  DlqQueue,      \* SchedulerOptions.dlqQueue is not the empty string
  StoreTime,     \* the longest a call of the storage takes
  LateErrors,    \* a call or a listener may fail after complete() was applied
  MaxFaults      \* bound: the crashes and lost replies of a behaviour

ASSUME ConstantsAssumption ==
  /\ NoJob \notin Jobs
  /\ Host \in [Workers -> Processes]
  /\ Priority \in [Jobs -> Nat]
  /\ MaxAttempts \in Nat
  /\ Delays \subseteq Nat
  /\ LockDuration \in Nat
  /\ JobTimeout \in Nat
  /\ RetryDelay \in Nat
  /\ StoreTime \in Nat
  /\ DlqQueue \in BOOLEAN
  /\ LateErrors \in BOOLEAN
  /\ MaxFaults \in Nat

VARIABLES
  row,     \* the table axiomify_jobs
  pc,      \* where each worker is in acquireNext and executeJob
  held,    \* the job it was given
  copy,    \* job.attempts of the copy it was given
  seen,    \* attempts as read by the SELECT of fail()
  left,    \* what is left of the time its current step may take
  faults   \* the faults that have happened

vars == <<row, pc, held, copy, seen, left, faults>>
worker == <<pc, held, copy, seen, left>>

-----------------------------------------------------------------------------
(* Types.  A row that is not there is "new" before and "deleted" after.    *)

Status == {"new", "pending", "running", "completed", "failed", "deleted"}

\* "due" is how far away the instant is at which a row may be acquired:
\* runAt for a pending row, lockedAt for a running one, whose runAt has
\* passed.  It is negative, down to -StoreTime, when the instant is past.
Row == [status : Status, queue : {"main", "dlq"}, attempts : Nat, due : Int]

Phase == {"idle", "granted", "run", "complete", "fail", "failUpdate",
          "dlq", "dlqUpdate", "dlqInsert"}

TypeOK ==
  /\ row \in [Jobs -> Row]
  /\ pc \in [Workers -> Phase]
  /\ held \in [Workers -> Jobs \cup {NoJob}]
  /\ copy \in [Workers -> Nat]
  /\ seen \in [Workers -> Nat]
  /\ left \in [Workers -> Nat]
  /\ faults \in 0..MaxFaults
  /\ \A w \in Workers : pc[w] = "idle" <=> held[w] = NoJob

Exists(j) == row[j].status \notin {"new", "deleted"}

\* The status, attempts and runAt or lockedAt of row j are written.
Put(j, status, attempts, due) ==
  row' = [row EXCEPT ![j] = [@ EXCEPT !.status = status,
                                      !.attempts = attempts,
                                      !.due = due]]

-----------------------------------------------------------------------------
Init ==
  /\ row = [j \in Jobs |-> [status |-> "new", queue |-> "main",
                            attempts |-> 0, due |-> 0]]
  /\ pc = [w \in Workers |-> "idle"]
  /\ held = [w \in Workers |-> NoJob]
  /\ copy = [w \in Workers |-> 0]
  /\ seen = [w \in Workers |-> 0]
  /\ left = [w \in Workers |-> 0]
  /\ faults = 0

\* Worker w goes on at phase p with t units of time.
Goto(w, p, t) ==
  /\ pc' = [pc EXCEPT ![w] = p]
  /\ left' = [left EXCEPT ![w] = t]
  /\ UNCHANGED <<held, copy, seen>>

\* Mutant of Release: the slot is freed, the job is not forgotten.
ReleaseKeepsJob(ws) ==
  /\ pc' = [w \in Workers |-> IF w \in ws THEN "idle" ELSE pc[w]]
  /\ UNCHANGED <<held, copy, seen, left>>

\* The workers in ws are done with their jobs.
Release(ws) ==
  /\ pc' = [w \in Workers |-> IF w \in ws THEN "idle" ELSE pc[w]]
  /\ held' = [w \in Workers |-> IF w \in ws THEN NoJob ELSE held[w]]
  /\ copy' = [w \in Workers |-> IF w \in ws THEN 0 ELSE copy[w]]
  /\ seen' = [w \in Workers |-> IF w \in ws THEN 0 ELSE seen[w]]
  /\ left' = [w \in Workers |-> IF w \in ws THEN 0 ELSE left[w]]

Slots(p) == {w \in Workers : Host[w] = p}

Fault == faults < MaxFaults /\ faults' = faults + 1

\* How long ago worker w made the storage call it is in: the age of the
\* Date.now() that the call read on entry.
Age(w) == StoreTime - left[w]

-----------------------------------------------------------------------------
(* enqueue and clear.  The id is fresh, so the SELECT and the INSERT of    *)
(* save() cannot be told from one step.                                    *)

Enqueue(j, delayMs) ==
  /\ row[j].status = "new"
  /\ row' = [row EXCEPT ![j] = [status |-> "pending", queue |-> "main",
                                attempts |-> 0, due |-> delayMs]]
  /\ UNCHANGED <<worker, faults>>

Clear ==
  /\ \E j \in Jobs : Exists(j)
  /\ row' = [j \in Jobs |-> IF Exists(j)
                              THEN [row[j] EXCEPT !.status = "deleted"]
                              ELSE row[j]]
  /\ UNCHANGED <<worker, faults>>

-----------------------------------------------------------------------------
(* acquireNext.                                                            *)

\* Mutants of Candidates: the lease is not looked at, completed rows qualify,
\* or expired ones do not.
CandidatesAnyLease(e) ==
  {j \in Jobs : /\ row[j].queue = "main"
                /\ row[j].status \in {"pending", "running"}
                /\ row[j].status = "pending" => row[j].due + e <= 0}
CandidatesCompleted(e) ==
  {j \in Jobs : /\ row[j].queue = "main"
                /\ row[j].status \in {"pending", "running", "completed"}
                /\ row[j].due + e <= 0}
CandidatesPending(e) ==
  {j \in Jobs : /\ row[j].queue = "main"
                /\ row[j].status = "pending"
                /\ row[j].due + e <= 0}

\* The rows the subselect finds with a clock that was read e ago.
Candidates(e) ==
  {j \in Jobs : /\ row[j].queue = "main"
                /\ row[j].status \in {"pending", "running"}
                /\ row[j].due + e <= 0}

\* Mutant of Acquire: the UPDATE counts the attempt, the copy has the old one.
AcquireCounts(w) ==
  /\ pc[w] = "idle"
  /\ \E e \in 0..StoreTime, j \in Jobs :
       /\ j \in Candidates(e)
       /\ \A k \in Candidates(e) : Priority[k] <= Priority[j]
       /\ Put(j, "running", row[j].attempts + 1, LockDuration - e)
       /\ pc' = [pc EXCEPT ![w] = "granted"]
       /\ held' = [held EXCEPT ![w] = j]
       /\ copy' = [copy EXCEPT ![w] = row[j].attempts]
       /\ left' = [left EXCEPT ![w] = StoreTime - e]
       /\ UNCHANGED <<seen, faults>>

\* The atomic UPDATE ... RETURNING, e after the call began; the order among
\* candidates of one priority (runAt) is left open.
Acquire(w) ==
  /\ pc[w] = "idle"
  /\ \E e \in 0..StoreTime, j \in Jobs :
       /\ j \in Candidates(e)
       /\ \A k \in Candidates(e) : Priority[k] <= Priority[j]
       /\ Put(j, "running", row[j].attempts, LockDuration - e)
       /\ pc' = [pc EXCEPT ![w] = "granted"]
       /\ held' = [held EXCEPT ![w] = j]
       /\ copy' = [copy EXCEPT ![w] = row[j].attempts]
       /\ left' = [left EXCEPT ![w] = StoreTime - e]
       /\ UNCHANGED <<seen, faults>>

\* The statement was applied, but acquireNext rejects: tick() logs the error
\* and the job is in nobody's hands.
ReplyLost(w) ==
  /\ pc[w] = "granted"
  /\ Fault
  /\ Release({w})
  /\ UNCHANGED row

-----------------------------------------------------------------------------
(* executeJob.                                                             *)

\* The reply arrives and the handler is called.
Begin(w) ==
  /\ pc[w] = "granted"
  /\ Goto(w, "run", JobTimeout)
  /\ UNCHANGED <<row, faults>>

HandlerReturns(w) ==
  /\ pc[w] = "run"
  /\ Goto(w, "complete", StoreTime)
  /\ UNCHANGED <<row, faults>>

\* Mutant of LastAttempt: off by one.
LastAttemptEarly(w) == copy[w] + 2 >= MaxAttempts

\* handleJobFailure decides on the attempts of the worker's own copy.
LastAttempt(w) == copy[w] + 1 >= MaxAttempts

HandleJobFailure(w) ==
  Goto(w, IF LastAttempt(w) /\ DlqQueue THEN "dlq" ELSE "fail", StoreTime)

\* The handler throws or rejects, or none is registered for the name.
HandlerThrows(w) ==
  /\ pc[w] = "run"
  /\ HandleJobFailure(w)
  /\ UNCHANGED <<row, faults>>

\* runWithTimeout gives up on the handler.
TimesOut(w) ==
  /\ pc[w] = "run"
  /\ left[w] = 0
  /\ HandleJobFailure(w)
  /\ UNCHANGED <<row, faults>>

\* complete(): one UPDATE by id, whatever the row says.
CompleteRow(j) ==
  IF Exists(j) THEN Put(j, "completed", row[j].attempts, 0)
               ELSE UNCHANGED row

Complete(w) ==
  /\ pc[w] = "complete"
  /\ CompleteRow(held[w])
  /\ Release({w})
  /\ UNCHANGED faults

\* The UPDATE fails, and so does the job, inside the same try block.
CompleteRejects(w) ==
  /\ pc[w] = "complete"
  /\ Fault
  /\ HandleJobFailure(w)
  /\ UNCHANGED row

\* The UPDATE is applied but its reply is lost, or a 'completed' listener
\* throws: the catch of the same try block takes it for a failed job.
CompleteThenThrows(w) ==
  /\ LateErrors
  /\ pc[w] = "complete"
  /\ CompleteRow(held[w])
  /\ HandleJobFailure(w)
  /\ UNCHANGED faults

-----------------------------------------------------------------------------
(* fail(): SELECT attempts, then an UPDATE by id.                          *)

FailSelect(w) ==
  /\ pc[w] = "fail"
  /\ IF Exists(held[w])
       THEN /\ seen' = [seen EXCEPT ![w] = row[held[w]].attempts]
            /\ pc' = [pc EXCEPT ![w] = "failUpdate"]
            /\ UNCHANGED <<held, copy, left>>
       ELSE Release({w})
  /\ UNCHANGED <<row, faults>>

\* The row fail() writes: a retry at Date.now() + retryInMs, the clock read
\* before the SELECT, or a failed row.
Retries(w) == seen[w] + 1 < MaxAttempts /\ ~LastAttempt(w)

\* Mutant of FailUpdate: attempts is written as it was read.
FailUpdateUncounted(w) ==
  /\ pc[w] = "failUpdate"
  /\ IF ~Exists(held[w])
       THEN UNCHANGED row
       ELSE IF Retries(w)
       THEN Put(held[w], "pending", seen[w], RetryDelay - Age(w))
       ELSE Put(held[w], "failed", seen[w], 0)
  /\ Release({w})
  /\ UNCHANGED faults

FailUpdate(w) ==
  /\ pc[w] = "failUpdate"
  /\ IF ~Exists(held[w])
       THEN UNCHANGED row
       ELSE IF Retries(w)
       THEN Put(held[w], "pending", seen[w] + 1, RetryDelay - Age(w))
       ELSE Put(held[w], "failed", seen[w] + 1, 0)
  /\ Release({w})
  /\ UNCHANGED faults

-----------------------------------------------------------------------------
(* save() of the dead letter: SELECT id, then an UPDATE or an INSERT of    *)
(* every column from the worker's copy of the job.                         *)

DlqSelect(w) ==
  /\ pc[w] = "dlq"
  /\ pc' = [pc EXCEPT ![w] = IF Exists(held[w]) THEN "dlqUpdate"
                                                ELSE "dlqInsert"]
  /\ UNCHANGED <<row, held, copy, seen, left, faults>>

DeadLetter(w) ==
  [status |-> "failed", queue |-> "dlq", attempts |-> copy[w] + 1, due |-> 0]

DlqUpdate(w) ==
  /\ pc[w] = "dlqUpdate"
  /\ row' = IF Exists(held[w]) THEN [row EXCEPT ![held[w]] = DeadLetter(w)]
                               ELSE row
  /\ Release({w})
  /\ UNCHANGED faults

\* The primary key refuses a second row: save() rejects, executeJob rejects,
\* nobody catches it and the process goes down.
DlqInsert(w) ==
  /\ pc[w] = "dlqInsert"
  /\ IF Exists(held[w])
       THEN Release(Slots(Host[w])) /\ UNCHANGED row
       ELSE Release({w}) /\ row' = [row EXCEPT ![held[w]] = DeadLetter(w)]
  /\ UNCHANGED faults

-----------------------------------------------------------------------------
(* A process dies, between any two steps, and is started again.  It also   *)
(* does when fail() or save() rejects: see DlqInsert.                      *)

Crash(p) ==
  /\ \E w \in Slots(p) : pc[w] # "idle"
  /\ Fault
  /\ Release(Slots(p))
  /\ UNCHANGED row

\* One unit of time.  No worker lets its deadline pass.
Tick ==
  /\ \A w \in Workers : pc[w] # "idle" => left[w] > 0
  /\ left' = [w \in Workers |-> IF pc[w] = "idle" THEN 0 ELSE left[w] - 1]
  /\ row' = [j \in Jobs |->
               IF row[j].status \in {"pending", "running"}
                    /\ row[j].due > -StoreTime
                 THEN [row[j] EXCEPT !.due = @ - 1]
                 ELSE row[j]]
  /\ UNCHANGED <<pc, held, copy, seen, faults>>

Step(w) ==
  \/ Begin(w)
  \/ HandlerReturns(w)
  \/ HandlerThrows(w)
  \/ TimesOut(w)
  \/ Complete(w)
  \/ CompleteThenThrows(w)
  \/ FailSelect(w)
  \/ FailUpdate(w)
  \/ DlqSelect(w)
  \/ DlqUpdate(w)
  \/ DlqInsert(w)

Next ==
  \/ \E j \in Jobs, d \in Delays : Enqueue(j, d)
  \/ Clear
  \/ \E w \in Workers : Acquire(w)
  \/ \E w \in Workers : ReplyLost(w)
  \/ \E w \in Workers : CompleteRejects(w)
  \/ \E w \in Workers : Step(w)
  \/ \E p \in Processes : Crash(p)
  \/ Tick

Spec == Init /\ [][Next]_vars

\* Time passes, an idle slot goes on polling, and the code between two
\* awaits runs.  That a handler ends is due to runWithTimeout alone.
Fairness ==
  /\ WF_vars(Tick)
  /\ WF_vars(\E w \in Workers : Acquire(w))
  /\ \A w \in Workers :
       /\ WF_vars(Begin(w))
       /\ WF_vars(TimesOut(w))
       /\ WF_vars(Complete(w))
       /\ WF_vars(FailSelect(w) \/ FailUpdate(w))
       /\ WF_vars(DlqSelect(w) \/ DlqUpdate(w) \/ DlqInsert(w))

FairSpec == Spec /\ Fairness

-----------------------------------------------------------------------------
(* Properties.                                                             *)

\* The lease covers everything a worker does with a job: the acquiring call,
\* the handler, a complete() that fails and the fail() or save() after it.
LeaseOutlivesJob == LockDuration > JobTimeout + 3 * StoreTime

\* acquireNext's lease: no two worker slots, of one process or of two, have
\* the same job in hand at the same time.
OneOwner ==
  \A v, w \in Workers : held[v] = held[w] /\ held[v] # NoJob => v = w

\* handleJobFailure counts attempts on a copy taken at acquisition, fail() on
\* what it has just selected: as long as the job of a worker is in the table,
\* neither number is stale, so the two decide alike about the last attempt.
CopyIsCurrent ==
  \A w \in Workers :
    held[w] # NoJob /\ Exists(held[w]) =>
      /\ copy[w] = row[held[w]].attempts
      /\ pc[w] = "failUpdate" => seen[w] = row[held[w]].attempts

\* handleJobFailure after complete(): an error that comes after the row was
\* completed takes the job back, as a retry or a dead letter. Only the slot
\* that completed it does so, on the way out of its own try block, with the
\* attempt counted; no acquireNext() and no other slot reopens such a job.
ReopenedByItsWorker ==
  [][\A j \in Jobs :
       /\ row[j].status = "completed"
       /\ row'[j].status \notin {"completed", "deleted"}
       => /\ row'[j].attempts = row[j].attempts + 1
          /\ \E w \in Workers : held[w] = j /\ held'[w] = NoJob]_vars

\* fail() and the dead-letter save(): a running job goes back to the queue,
\* or fails, with exactly one more attempt on the record.
EveryFailureCounts ==
  [][\A j \in Jobs :
       /\ row[j].status = "running"
       /\ row'[j].status \in {"pending", "failed"}
       => row'[j].attempts = row[j].attempts + 1]_vars

\* handleJobFailure: a job is in the dead-letter queue exactly when it has
\* failed, after all its attempts; nothing there waits to be run again.
DeadLettersAreFailures ==
  \A j \in Jobs :
    /\ row[j].queue = "dlq" /\ Exists(j) =>
         row[j].status = "failed" /\ row[j].attempts >= MaxAttempts
    /\ row[j].status = "failed" =>
         row[j].attempts >= MaxAttempts /\ (DlqQueue <=> row[j].queue = "dlq")

\* Whatever crashes and replies are lost, every job enqueued is some day
\* completed or failed, or cleared away.
EveryJobSettles ==
  \A j \in Jobs : row[j].status = "pending" ~>
                    row[j].status \in {"completed", "failed", "deleted"}

\* The promise of the queue, with the rows and the slots read off.
JL == INSTANCE JobLifecycle
        WITH status <- [j \in Jobs |-> row[j].status],
             owners <- [j \in Jobs |-> {w \in Workers : held[w] = j}]

\* SQLJobStorage and executeJob together implement the lifecycle a job is
\* promised: handed to one worker at a time, settled by it alone.
Implements == JL!Spec
=============================================================================
