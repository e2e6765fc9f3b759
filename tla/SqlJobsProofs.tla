--------------------------- MODULE SqlJobsProofs ---------------------------
(* Proofs about SqlJobs, for any jobs, workers, processes and durations.   *)
EXTENDS SqlJobs, TLAPS

USE DEF Phase, Status

-----------------------------------------------------------------------------
(* Types.                                                                  *)

\* The next three lemmas say what the shared parts of the actions preserve.
WorkerTypes ==
  /\ pc \in [Workers -> Phase]
  /\ held \in [Workers -> Jobs \cup {NoJob}]
  /\ copy \in [Workers -> Nat]
  /\ seen \in [Workers -> Nat]
  /\ left \in [Workers -> Nat]
  /\ \A w \in Workers : pc[w] = "idle" <=> held[w] = NoJob

\* TypeOK is the types of the table together with those of the workers.
LEMMA TypeSplit ==
  TypeOK <=> row \in [Jobs -> Row] /\ WorkerTypes /\ faults \in 0..MaxFaults
BY DEF TypeOK, WorkerTypes

\* Releasing workers keeps the types.
LEMMA ReleaseType ==
  ASSUME WorkerTypes, NEW ws, Release(ws)
  PROVE  WorkerTypes'
BY ConstantsAssumption DEF WorkerTypes, Release

\* So does sending a busy worker to a busy phase.
LEMMA GotoType ==
  ASSUME WorkerTypes, NEW w \in Workers, pc[w] # "idle",
         NEW p \in Phase \ {"idle"}, NEW t \in Nat, Goto(w, p, t)
  PROVE  WorkerTypes'
BY DEF WorkerTypes, Goto

\* And so does handleJobFailure.
LEMMA FailureType ==
  ASSUME WorkerTypes, NEW w \in Workers, pc[w] # "idle", HandleJobFailure(w)
  PROVE  WorkerTypes'
<1> DEFINE p == IF LastAttempt(w) /\ DlqQueue THEN "dlq" ELSE "fail"
<1>1. p \in Phase \ {"idle"}
  OBVIOUS
<1>2. Goto(w, p, StoreTime)
  BY DEF HandleJobFailure
<1> HIDE DEF p
<1> QED BY <1>1, <1>2, GotoType, ConstantsAssumption

\* A busy worker has a job.
LEMMA BusyHolds ==
  ASSUME WorkerTypes, NEW w \in Workers, pc[w] # "idle"
  PROVE  held[w] \in Jobs
BY DEF WorkerTypes

\* What Put does to the table.
LEMMA PutRow ==
  ASSUME row \in [Jobs -> Row], NEW j \in Jobs, NEW s \in Status,
         NEW a \in Nat, NEW d \in Int, Put(j, s, a, d)
  PROVE  /\ row' \in [Jobs -> Row]
         /\ row'[j].status = s
         /\ row'[j].queue = row[j].queue
         /\ row'[j].attempts = a
         /\ row'[j].due = d
         /\ \A k \in Jobs : k # j => row'[k] = row[k]
BY DEF Put, Row

\* What the type of a row says of its fields.
LEMMA RowFields ==
  ASSUME NEW r \in Row
  PROVE  /\ r.status \in Status /\ r.queue \in {"main", "dlq"}
         /\ r.attempts \in Nat /\ r.due \in Int
BY DEF Row

\* complete() keeps the table well typed.
LEMMA CompleteType ==
  ASSUME row \in [Jobs -> Row], NEW j \in Jobs, CompleteRow(j)
  PROVE  row' \in [Jobs -> Row]
<1>1. row[j].attempts \in Nat
  BY RowFields
<1> QED BY <1>1, PutRow DEF CompleteRow

\* One step of the system keeps the types.
LEMMA TypeStep ==
  ASSUME TypeOK, [Next]_vars
  PROVE  TypeOK'
<1> USE ConstantsAssumption
<1>0. row \in [Jobs -> Row] /\ WorkerTypes /\ faults \in 0..MaxFaults
  BY TypeSplit
<1> SUFFICES row' \in [Jobs -> Row] /\ WorkerTypes' /\ faults' \in 0..MaxFaults
  BY DEF TypeOK, WorkerTypes
<1>f. ASSUME Fault PROVE faults' \in 0..MaxFaults
  BY <1>f, <1>0 DEF Fault
<1>1. ASSUME NEW j \in Jobs, NEW d \in Delays, Enqueue(j, d)
      PROVE  row' \in [Jobs -> Row] /\ WorkerTypes' /\ faults' \in 0..MaxFaults
  <2>1. d \in Int
    OBVIOUS
  <2>2. row' \in [Jobs -> Row]
    BY <1>0, <1>1, <2>1 DEF Enqueue, Row
  <2> QED BY <1>0, <1>1, <2>2 DEF Enqueue, WorkerTypes, worker
<1>2. CASE Clear
  BY <1>0, <1>2 DEF Clear, WorkerTypes, worker, Row
<1>3. ASSUME NEW w \in Workers, Acquire(w)
      PROVE  row' \in [Jobs -> Row] /\ WorkerTypes' /\ faults' \in 0..MaxFaults
  <2> PICK e \in 0..StoreTime, j \in Jobs : 
         /\ Put(j, "running", row[j].attempts, LockDuration - e)
         /\ pc' = [pc EXCEPT ![w] = "granted"]
         /\ held' = [held EXCEPT ![w] = j]
         /\ copy' = [copy EXCEPT ![w] = row[j].attempts]
         /\ left' = [left EXCEPT ![w] = StoreTime - e]
         /\ UNCHANGED <<seen, faults>>
    BY <1>3 DEF Acquire
  <2>1. row[j].attempts \in Nat /\ LockDuration - e \in Int
    BY <1>0, RowFields
  <2>2. row' \in [Jobs -> Row]
    BY <1>0, <2>1, PutRow
  <2> QED BY <1>0, <2>1, <2>2 DEF WorkerTypes
<1>4. ASSUME NEW w \in Workers, ReplyLost(w)
      PROVE  row' \in [Jobs -> Row] /\ WorkerTypes' /\ faults' \in 0..MaxFaults
  BY <1>0, <1>4, <1>f, ReleaseType DEF ReplyLost
<1>5. ASSUME NEW w \in Workers, CompleteRejects(w)
      PROVE  row' \in [Jobs -> Row] /\ WorkerTypes' /\ faults' \in 0..MaxFaults
  BY <1>0, <1>5, <1>f, FailureType DEF CompleteRejects
<1>6. ASSUME NEW w \in Workers, Step(w)
      PROVE  row' \in [Jobs -> Row] /\ WorkerTypes' /\ faults' \in 0..MaxFaults
  <2>1. CASE Begin(w)
    <3>1. pc[w] # "idle" /\ Goto(w, "run", JobTimeout)
      BY <2>1 DEF Begin
    <3> QED BY <1>0, <2>1, <3>1, GotoType DEF Begin
  <2>2. CASE HandlerReturns(w)
    <3>1. pc[w] # "idle" /\ Goto(w, "complete", StoreTime)
      BY <2>2 DEF HandlerReturns
    <3> QED BY <1>0, <2>2, <3>1, GotoType DEF HandlerReturns
  <2>3. CASE HandlerThrows(w)
    BY <1>0, <2>3, FailureType DEF HandlerThrows
  <2>4. CASE TimesOut(w)
    BY <1>0, <2>4, FailureType DEF TimesOut
  <2>5. CASE Complete(w)
    <3>1. row' \in [Jobs -> Row]
      BY <1>0, <2>5, CompleteType, BusyHolds DEF Complete
    <3> QED BY <1>0, <2>5, <3>1, ReleaseType DEF Complete
  <2>6. CASE CompleteThenThrows(w)
    <3>1. row' \in [Jobs -> Row]
      BY <1>0, <2>6, CompleteType, BusyHolds DEF CompleteThenThrows
    <3> QED BY <1>0, <2>6, <3>1, FailureType DEF CompleteThenThrows
  <2>7. CASE FailSelect(w)
    <3>1. held[w] \in Jobs
      BY <1>0, <2>7, BusyHolds DEF FailSelect
    <3>2. CASE Exists(held[w])
      BY <1>0, <2>7, <3>1, <3>2, RowFields DEF FailSelect, WorkerTypes
    <3>3. CASE ~Exists(held[w])
      BY <1>0, <2>7, <3>3, ReleaseType DEF FailSelect
    <3> QED BY <3>2, <3>3
  <2>8. CASE FailUpdate(w)
    <3>1. seen[w] + 1 \in Nat /\ RetryDelay - Age(w) \in Int
      BY <1>0 DEF WorkerTypes, Age
    <3>2. held[w] \in Jobs
      BY <1>0, <2>8, BusyHolds DEF FailUpdate
    <3>4. row' \in [Jobs -> Row]
      BY <1>0, <2>8, <3>1, <3>2, PutRow DEF FailUpdate
    <3> QED BY <1>0, <2>8, <3>4, ReleaseType DEF FailUpdate
  <2>9. CASE DlqSelect(w)
    BY <1>0, <2>9 DEF DlqSelect, WorkerTypes
  <2>10. DeadLetter(w) \in Row
    BY <1>0 DEF DeadLetter, WorkerTypes, Row
  <2>11. CASE DlqUpdate(w)
    <3>1. row' \in [Jobs -> Row]
      BY <1>0, <2>11, <2>10 DEF DlqUpdate
    <3> QED BY <1>0, <2>11, <3>1, ReleaseType DEF DlqUpdate
  <2>12. CASE DlqInsert(w)
    <3>1. row' \in [Jobs -> Row]
      BY <1>0, <2>12, <2>10 DEF DlqInsert
    <3> QED BY <1>0, <2>12, <3>1, ReleaseType DEF DlqInsert
  <2> QED BY <1>6, <2>1, <2>2, <2>3, <2>4, <2>5, <2>6, <2>7, <2>8, <2>9,
             <2>11, <2>12 DEF Step
<1>7. ASSUME NEW p \in Processes, Crash(p)
      PROVE  row' \in [Jobs -> Row] /\ WorkerTypes' /\ faults' \in 0..MaxFaults
  BY <1>0, <1>7, <1>f, ReleaseType DEF Crash
<1>8. CASE Tick
  <2>1. row' \in [Jobs -> Row]
    BY <1>0, <1>8 DEF Tick, Row
  <2>2. left' \in [Workers -> Nat]
    BY <1>0, <1>8 DEF Tick, WorkerTypes
  <2> QED BY <1>0, <1>8, <2>1, <2>2 DEF Tick, WorkerTypes
<1>9. CASE UNCHANGED vars
  BY <1>0, <1>9 DEF vars, WorkerTypes
<1> QED BY <1>1, <1>2, <1>3, <1>4, <1>5, <1>6, <1>7, <1>8, <1>9 DEF Next

\* Type correctness of the jobs table and of every worker slot, whatever the
\* statements of several schedulers do to each other.
THEOREM TypeCorrect == Spec => []TypeOK
<1>1. Init => TypeOK
  BY ConstantsAssumption DEF Init, TypeOK, Row
<1>2. TypeOK /\ [Next]_vars => TypeOK'
  BY TypeStep
<1> QED BY <1>1, <1>2, PTL DEF Spec

-----------------------------------------------------------------------------
(* Leases.                                                                 *)

\* What worker w may still need of its lease after its current step.
Reserve(w) ==
  CASE pc[w] = "granted"  -> JobTimeout + 2 * StoreTime
    [] pc[w] = "run"      -> 2 * StoreTime
    [] pc[w] = "complete" -> StoreTime
    [] OTHER -> 0

Failing == {"fail", "failUpdate", "dlq", "dlqUpdate", "dlqInsert"}

\* The job of a busy worker is still running, with enough of its lease left
\* for all the worker will do; or was completed by the worker itself, which
\* now takes an error for the job's failure; or was cleared away.  What the
\* worker remembers of it is current, and its phase follows from that.
WorkerInv(w) ==
  held[w] # NoJob =>
    /\ row[held[w]].status \in {"running", "completed", "deleted"}
    /\ row[held[w]].status = "running" =>
         row[held[w]].due > left[w] + Reserve(w)
    /\ row[held[w]].status = "completed" => LateErrors /\ pc[w] \in Failing
    /\ row[held[w]].status # "deleted" =>
         /\ copy[w] = row[held[w]].attempts
         /\ pc[w] = "failUpdate" => seen[w] = row[held[w]].attempts
    /\ pc[w] \in {"dlq", "dlqUpdate", "dlqInsert"} =>
         LastAttempt(w) /\ DlqQueue
    /\ pc[w] \in {"fail", "failUpdate"} => ~(LastAttempt(w) /\ DlqQueue)
    /\ pc[w] = "dlqInsert" => row[held[w]].status = "deleted"

\* The inductive invariant.
SafeInv ==
  /\ OneOwner
  /\ \A w \in Workers : WorkerInv(w)
  /\ DeadLettersAreFailures


\* A worker that does not move, and whose row is not written, keeps its part
\* of the invariant.
Untouched(w) ==
  /\ pc'[w] = pc[w] /\ held'[w] = held[w] /\ copy'[w] = copy[w]
  /\ seen'[w] = seen[w] /\ left'[w] = left[w]

\* A worker whose own state and row a step leaves alone keeps its part of
\* the invariant.
LEMMA Frame ==
  ASSUME NEW w \in Workers, WorkerInv(w), Untouched(w),
         held[w] # NoJob => row'[held[w]] = row[held[w]]
  PROVE  WorkerInv(w)'
BY DEF WorkerInv, Untouched, Reserve, LastAttempt

\* Worker w is the only one that moves, and the row it holds the only one
\* that is written: the others keep theirs, by OneOwner.
LEMMA Others ==
  ASSUME TypeOK, SafeInv, NEW w \in Workers, held[w] \in Jobs,
         \A v \in Workers : v # w => Untouched(v),
         \A k \in Jobs : k # held[w] => row'[k] = row[k]
  PROVE  \A v \in Workers : v # w => WorkerInv(v)'
<1> SUFFICES ASSUME NEW v \in Workers, v # w PROVE WorkerInv(v)'
  OBVIOUS
<1>1. held[v] # NoJob => held[v] # held[w] /\ held[v] \in Jobs
  BY DEF SafeInv, OneOwner, TypeOK
<1>2. WorkerInv(v) /\ Untouched(v)
  BY DEF SafeInv
<1> QED BY <1>1, <1>2, Frame

\* Releasing workers.
LEMMA ReleaseSafe ==
  ASSUME TypeOK, SafeInv, NEW ws, Release(ws)
  PROVE  /\ OneOwner'
         /\ \A w \in Workers : w \in ws => WorkerInv(w)'
         /\ \A w \in Workers : w \notin ws => Untouched(w)
BY DEF TypeOK, SafeInv, Release, OneOwner, WorkerInv, Untouched

\* Sending a worker on.
LEMMA GotoSafe ==
  ASSUME TypeOK, SafeInv, NEW w \in Workers, NEW p, NEW t, Goto(w, p, t)
  PROVE  /\ OneOwner'
         /\ pc'[w] = p /\ left'[w] = t /\ held'[w] = held[w]
         /\ copy'[w] = copy[w] /\ seen'[w] = seen[w]
         /\ \A v \in Workers : v # w => Untouched(v)
BY DEF TypeOK, SafeInv, Goto, OneOwner, Untouched

\* handleJobFailure, from a phase that kept StoreTime of the lease for it.
LEMMA FailureSafe ==
  ASSUME TypeOK, SafeInv, NEW w \in Workers, held[w] \in Jobs,
         HandleJobFailure(w),
         \A k \in Jobs : k # held[w] => row'[k] = row[k],
         row'[held[w]].status \in {"running", "completed", "deleted"},
         row'[held[w]].status = "running" => row'[held[w]].due > StoreTime,
         row'[held[w]].status = "completed" => LateErrors,
         row'[held[w]].status # "deleted" =>
            copy[w] = row'[held[w]].attempts
  PROVE  OneOwner' /\ \A v \in Workers : WorkerInv(v)'
<1> DEFINE p == IF LastAttempt(w) /\ DlqQueue THEN "dlq" ELSE "fail"
<1>1. Goto(w, p, StoreTime)
  BY DEF HandleJobFailure
<1>2. p \in {"dlq", "fail"} /\ (p = "dlq" <=> LastAttempt(w) /\ DlqQueue)
  BY ConstantsAssumption
<1> HIDE DEF p
<1>3. /\ OneOwner'
      /\ pc'[w] = p /\ left'[w] = StoreTime /\ held'[w] = held[w]
      /\ copy'[w] = copy[w] /\ seen'[w] = seen[w]
      /\ \A v \in Workers : v # w => Untouched(v)
  BY <1>1, GotoSafe
<1>4. LastAttempt(w)' <=> LastAttempt(w)
  BY <1>3 DEF LastAttempt
<1>5. Reserve(w)' = 0
  BY <1>2, <1>3 DEF Reserve
<1>6. WorkerInv(w)'
  BY <1>2, <1>3, <1>4, <1>5, ConstantsAssumption DEF WorkerInv, Failing
<1> QED BY <1>3, <1>6, Others

\* A step that writes only rows of jobs that keep out of the dead letters.
LEMMA LettersKeep ==
  ASSUME SafeInv, NEW j \in Jobs,
         \A k \in Jobs : k # j => row'[k] = row[k],
         \/ row'[j] = row[j]
         \/ row'[j].queue = "main" /\ row'[j].status # "failed"
  PROVE  DeadLettersAreFailures'
BY DEF SafeInv, DeadLettersAreFailures, Exists

\* The row of a job in hand is in the main queue.
LEMMA HeldInMain ==
  ASSUME TypeOK, SafeInv, NEW w \in Workers, held[w] \in Jobs,
         Exists(held[w])
  PROVE  /\ row[held[w]].queue = "main"
         /\ row[held[w]].status \in {"running", "completed"}
         /\ row[held[w]].attempts = copy[w]
<1>1. WorkerInv(w) /\ held[w] # NoJob /\ row[held[w]] \in Row
  BY ConstantsAssumption DEF SafeInv, TypeOK
<1>2. row[held[w]].status \in {"running", "completed"}
  BY <1>1 DEF WorkerInv, Exists
<1>3. row[held[w]].queue = "main"
  BY <1>1, <1>2, RowFields DEF SafeInv, DeadLettersAreFailures
<1> QED BY <1>1, <1>2, <1>3 DEF WorkerInv

\* What the invariant says of a worker that is busy with a job.
LEMMA Busy ==
  ASSUME TypeOK, SafeInv, NEW w \in Workers, pc[w] # "idle"
  PROVE  /\ held[w] \in Jobs /\ held[w] # NoJob /\ WorkerInv(w)
         /\ row[held[w]] \in Row /\ left[w] \in Nat
BY ConstantsAssumption DEF TypeOK, SafeInv

\* The steps of the worker that has the job.
LEMMA SafeWorker ==
  ASSUME TypeOK, SafeInv, NEW w \in Workers, Step(w)
  PROVE  SafeInv'
<1> USE ConstantsAssumption
<1>a. pc[w] # "idle"
  BY DEF Step, Begin, HandlerReturns, HandlerThrows, TimesOut, Complete,
         CompleteThenThrows, FailSelect, FailUpdate, DlqSelect, DlqUpdate,
         DlqInsert
<1>b. /\ held[w] \in Jobs /\ held[w] # NoJob /\ WorkerInv(w)
      /\ row[held[w]] \in Row /\ left[w] \in Nat
  BY <1>a, Busy
<1>c. row \in [Jobs -> Row] /\ \A j \in Jobs : row[j] \in Row
  BY DEF TypeOK
<1>d. ASSUME UNCHANGED row PROVE DeadLettersAreFailures'
  BY <1>b, <1>d, LettersKeep
<1>r. ASSUME Release({w}), \A k \in Jobs : k # held[w] => row'[k] = row[k]
      PROVE  OneOwner' /\ \A v \in Workers : WorkerInv(v)'
  <2>1. OneOwner' /\ WorkerInv(w)' /\ \A v \in Workers : v # w => Untouched(v)
    BY <1>r, ReleaseSafe
  <2> QED BY <1>b, <1>r, <2>1, Others
<1>1. CASE Begin(w)
  <2>1. pc[w] = "granted" /\ Goto(w, "run", JobTimeout) /\ UNCHANGED row
    BY <1>1 DEF Begin
  <2>2. /\ OneOwner'
        /\ pc'[w] = "run" /\ left'[w] = JobTimeout /\ held'[w] = held[w]
        /\ copy'[w] = copy[w] /\ seen'[w] = seen[w]
        /\ \A v \in Workers : v # w => Untouched(v)
    BY <2>1, GotoSafe
  <2>3. Reserve(w) = JobTimeout + 2 * StoreTime /\ Reserve(w)' = 2 * StoreTime
    BY <2>1, <2>2 DEF Reserve
  <2>4. WorkerInv(w)'
    BY <1>b, <2>1, <2>2, <2>3, RowFields DEF WorkerInv, Failing
  <2> QED BY <1>b, <1>d, <2>1, <2>2, <2>4, Others DEF SafeInv
<1>2. CASE HandlerReturns(w)
  <2>1. pc[w] = "run" /\ Goto(w, "complete", StoreTime) /\ UNCHANGED row
    BY <1>2 DEF HandlerReturns
  <2>2. /\ OneOwner'
        /\ pc'[w] = "complete" /\ left'[w] = StoreTime /\ held'[w] = held[w]
        /\ copy'[w] = copy[w] /\ seen'[w] = seen[w]
        /\ \A v \in Workers : v # w => Untouched(v)
    BY <2>1, GotoSafe
  <2>3. Reserve(w) = 2 * StoreTime /\ Reserve(w)' = StoreTime
    BY <2>1, <2>2 DEF Reserve
  <2>4. WorkerInv(w)'
    BY <1>b, <2>1, <2>2, <2>3, RowFields DEF WorkerInv, Failing
  <2> QED BY <1>b, <1>d, <2>1, <2>2, <2>4, Others DEF SafeInv
<1>3. CASE HandlerThrows(w) \/ TimesOut(w)
  <2>1. pc[w] = "run" /\ HandleJobFailure(w) /\ UNCHANGED row
    BY <1>3 DEF HandlerThrows, TimesOut
  <2>2. Reserve(w) = 2 * StoreTime
    BY <2>1 DEF Reserve
  <2>3. /\ row'[held[w]].status \in {"running", "deleted"}
        /\ row'[held[w]].status = "running" => row'[held[w]].due > StoreTime
        /\ row'[held[w]].status # "deleted" =>
             copy[w] = row'[held[w]].attempts
    BY <1>b, <2>1, <2>2, RowFields DEF WorkerInv, Failing
  <2> QED BY <1>b, <1>d, <2>1, <2>3, FailureSafe DEF SafeInv
<1>4. CASE Complete(w) \/ CompleteThenThrows(w)
  <2>1. pc[w] = "complete" /\ CompleteRow(held[w])
    BY <1>4 DEF Complete, CompleteThenThrows
  <2>2. row[held[w]].attempts \in Nat
    BY <1>b, RowFields
  <2>3. CASE Exists(held[w])
    <3>1. Put(held[w], "completed", row[held[w]].attempts, 0)
      BY <2>1, <2>3 DEF CompleteRow
    <3>2. /\ row'[held[w]].status = "completed"
          /\ row'[held[w]].queue = row[held[w]].queue
          /\ row'[held[w]].attempts = row[held[w]].attempts
          /\ \A k \in Jobs : k # held[w] => row'[k] = row[k]
      BY <1>b, <1>c, <2>2, <3>1, PutRow
    <3>3. row[held[w]].queue = "main" /\ row[held[w]].attempts = copy[w]
      BY <1>b, <2>3, HeldInMain
    <3>4. DeadLettersAreFailures'
      BY <1>b, <3>2, <3>3, LettersKeep
    <3>5. CASE Complete(w)
      BY <1>r, <3>2, <3>4, <3>5 DEF Complete, SafeInv
    <3>6. CASE CompleteThenThrows(w)
      <4>1. HandleJobFailure(w) /\ LateErrors
        BY <3>6 DEF CompleteThenThrows
      <4> QED BY <1>b, <3>2, <3>3, <3>4, <4>1, FailureSafe DEF SafeInv
    <3> QED BY <1>4, <3>5, <3>6
  <2>4. CASE ~Exists(held[w])
    <3>1. UNCHANGED row
      BY <2>1, <2>4 DEF CompleteRow
    <3>2. row[held[w]].status = "deleted"
      BY <1>b, <2>4 DEF WorkerInv, Exists
    <3>3. CASE Complete(w)
      BY <1>d, <1>r, <3>1, <3>3 DEF Complete, SafeInv
    <3>4. CASE CompleteThenThrows(w)
      <4>1. HandleJobFailure(w)
        BY <3>4 DEF CompleteThenThrows
      <4> QED BY <1>b, <1>d, <3>1, <3>2, <4>1, FailureSafe DEF SafeInv
    <3> QED BY <1>4, <3>3, <3>4
  <2> QED BY <2>3, <2>4
<1>5. CASE FailSelect(w)
  <2>1. pc[w] = "fail" /\ UNCHANGED row
    BY <1>5 DEF FailSelect
  <2>2. CASE ~Exists(held[w])
    BY <1>5, <1>d, <1>r, <2>1, <2>2 DEF FailSelect, SafeInv
  <2>3. CASE Exists(held[w])
    <3>1. /\ seen' = [seen EXCEPT ![w] = row[held[w]].attempts]
          /\ pc' = [pc EXCEPT ![w] = "failUpdate"]
          /\ UNCHANGED <<held, copy, left>>
      BY <1>5, <2>3 DEF FailSelect
    <3>2. /\ pc'[w] = "failUpdate" /\ seen'[w] = row[held[w]].attempts
          /\ \A v \in Workers : v # w => Untouched(v)
      BY <3>1 DEF TypeOK, Untouched
    <3>3. Reserve(w) = 0 /\ Reserve(w)' = 0
      BY <2>1, <3>2 DEF Reserve
    <3>4. WorkerInv(w)'
      BY <1>b, <2>1, <3>1, <3>2, <3>3 DEF WorkerInv, Failing, LastAttempt
    <3>5. OneOwner'
      BY <3>1 DEF OneOwner, SafeInv
    <3> QED BY <1>b, <1>d, <2>1, <3>2, <3>4, <3>5, Others DEF SafeInv
  <2> QED BY <2>2, <2>3
<1>6. CASE FailUpdate(w)
  <2>1. pc[w] = "failUpdate" /\ Release({w})
    BY <1>6 DEF FailUpdate
  <2>2. CASE ~Exists(held[w])
    BY <1>6, <1>d, <1>r, <2>1, <2>2 DEF FailUpdate, SafeInv
  <2>3. CASE Exists(held[w])
    <3>1. /\ row[held[w]].queue = "main"
          /\ copy[w] = row[held[w]].attempts
          /\ seen[w] = row[held[w]].attempts
          /\ ~(LastAttempt(w) /\ DlqQueue)
      BY <1>b, <2>1, <2>3, HeldInMain DEF WorkerInv, Exists
    <3>2. seen[w] + 1 \in Nat /\ RetryDelay - Age(w) \in Int
      BY <1>b DEF TypeOK, Age
    <3>3. CASE Retries(w)
      <4>1. Put(held[w], "pending", seen[w] + 1, RetryDelay - Age(w))
        BY <1>6, <2>3, <3>3 DEF FailUpdate
      <4>2. /\ row'[held[w]].status = "pending"
            /\ row'[held[w]].queue = "main"
            /\ \A k \in Jobs : k # held[w] => row'[k] = row[k]
        BY <1>b, <1>c, <3>1, <3>2, <4>1, PutRow
      <4> QED BY <1>b, <1>r, <2>1, <4>2, LettersKeep DEF SafeInv
    <3>4. CASE ~Retries(w)
      <4>1. Put(held[w], "failed", seen[w] + 1, 0)
        BY <1>6, <2>3, <3>4 DEF FailUpdate
      <4>2. /\ row'[held[w]].status = "failed"
            /\ row'[held[w]].queue = "main"
            /\ row'[held[w]].attempts = seen[w] + 1
            /\ \A k \in Jobs : k # held[w] => row'[k] = row[k]
        BY <1>b, <1>c, <3>1, <3>2, <4>1, PutRow
      <4>3. ~DlqQueue /\ seen[w] + 1 >= MaxAttempts
        BY <3>1, <3>2, <3>4 DEF Retries, LastAttempt
      <4>4. DeadLettersAreFailures'
        BY <1>b, <4>2, <4>3 DEF SafeInv, DeadLettersAreFailures, Exists
      <4> QED BY <1>r, <2>1, <4>2, <4>4 DEF SafeInv
    <3> QED BY <3>3, <3>4
  <2> QED BY <2>2, <2>3
<1>7. CASE DlqSelect(w)
  <2>1. pc[w] = "dlq" /\ UNCHANGED <<row, held, copy, seen, left>>
    BY <1>7 DEF DlqSelect
  <2>2. /\ pc'[w] \in {"dlqUpdate", "dlqInsert"}
        /\ pc'[w] = "dlqInsert" => ~Exists(held[w])
        /\ \A v \in Workers : v # w => Untouched(v)
    BY <1>7 DEF DlqSelect, TypeOK, Untouched
  <2>3. Reserve(w) = 0 /\ Reserve(w)' = 0
    BY <2>1, <2>2 DEF Reserve
  <2>4. WorkerInv(w)'
    BY <1>b, <2>1, <2>2, <2>3 DEF WorkerInv, Failing, LastAttempt, Exists
  <2>5. OneOwner'
    BY <2>1 DEF OneOwner, SafeInv
  <2> QED BY <1>b, <1>d, <2>1, <2>2, <2>4, <2>5, Others DEF SafeInv
<1>8. CASE DlqUpdate(w) \/ DlqInsert(w)
  <2>1. LastAttempt(w) /\ DlqQueue
    BY <1>8, <1>b DEF DlqUpdate, DlqInsert, WorkerInv
  <2>2. DlqInsert(w) => ~Exists(held[w])
    BY <1>b DEF DlqInsert, WorkerInv, Exists
  <2>3. Release({w})
    BY <1>8, <2>2 DEF DlqUpdate, DlqInsert
  <2>4. UNCHANGED row \/ row' = [row EXCEPT ![held[w]] = DeadLetter(w)]
    BY <1>8 DEF DlqUpdate, DlqInsert
  <2>5. CASE UNCHANGED row
    BY <1>d, <1>r, <2>3, <2>5 DEF SafeInv
  <2>6. CASE row' = [row EXCEPT ![held[w]] = DeadLetter(w)]
    <3>1. /\ row'[held[w]] = DeadLetter(w)
          /\ \A k \in Jobs : k # held[w] => row'[k] = row[k]
      BY <1>b, <1>c, <2>6
    <3>2. /\ row'[held[w]].status = "failed" /\ row'[held[w]].queue = "dlq"
          /\ row'[held[w]].attempts >= MaxAttempts
      BY <2>1, <3>1 DEF DeadLetter, LastAttempt
    <3>3. DeadLettersAreFailures'
      BY <1>b, <2>1, <3>1, <3>2 DEF SafeInv, DeadLettersAreFailures, Exists
    <3> QED BY <1>r, <2>3, <3>1, <3>3 DEF SafeInv
  <2> QED BY <2>4, <2>5, <2>6
<1> QED BY <1>1, <1>2, <1>3, <1>4, <1>5, <1>6, <1>7, <1>8 DEF Step

\* acquireNext never finds a row that is in somebody's hands.
LEMMA AcquireFree ==
  ASSUME TypeOK, SafeInv, NEW e \in 0..StoreTime, NEW j \in Candidates(e),
         NEW v \in Workers
  PROVE  held[v] # j
<1> USE ConstantsAssumption
<1> SUFFICES ASSUME held[v] = j PROVE FALSE
  OBVIOUS
<1>1. j \in Jobs /\ row[j].status \in {"pending", "running"} /\ row[j].due + e <= 0
  BY DEF Candidates
<1>2. pc[v] # "idle"
  BY <1>1 DEF TypeOK
<1>3. WorkerInv(v) /\ held[v] # NoJob /\ left[v] \in Nat /\ row[j] \in Row
  BY <1>2, Busy
<1>4. Reserve(v) \in Nat
  BY <1>2 DEF Reserve
<1> QED BY <1>1, <1>3, <1>4, RowFields DEF WorkerInv

\* The inductive step.  The lease must outlive the job for Acquire alone.
LEMMA SafeStep ==
  ASSUME LeaseOutlivesJob, TypeOK, SafeInv, [Next]_vars
  PROVE  SafeInv'
<1> USE ConstantsAssumption
<1>c. row \in [Jobs -> Row] /\ \A j \in Jobs : row[j] \in Row
  BY DEF TypeOK
<1>h. \A w \in Workers : held[w] # NoJob => held[w] \in Jobs
  BY DEF TypeOK
<1>u. ASSUME UNCHANGED worker PROVE OneOwner' /\ \A w \in Workers : Untouched(w)
  BY <1>u DEF worker, Untouched, OneOwner, SafeInv
<1>k. ASSUME NEW ws, Release(ws), UNCHANGED row PROVE SafeInv'
  <2>1. /\ OneOwner'
        /\ \A w \in Workers : w \in ws => WorkerInv(w)'
        /\ \A w \in Workers : w \notin ws => Untouched(w)
    BY <1>k, ReleaseSafe
  <2>2. \A w \in Workers : w \notin ws => WorkerInv(w)'
    BY <1>k, <2>1, Frame DEF SafeInv
  <2>3. DeadLettersAreFailures'
    BY <1>k DEF SafeInv, DeadLettersAreFailures, Exists
  <2> QED BY <2>1, <2>2, <2>3 DEF SafeInv
<1>1. ASSUME NEW j \in Jobs, NEW d \in Delays, Enqueue(j, d) PROVE SafeInv'
  <2>1. row[j].status = "new" /\ UNCHANGED worker
    BY <1>1 DEF Enqueue, worker
  <2>2. /\ row'[j].status = "pending" /\ row'[j].queue = "main"
        /\ \A k \in Jobs : k # j => row'[k] = row[k]
    BY <1>1, <1>c DEF Enqueue
  <2>3. \A w \in Workers : held[w] # j
    BY <1>h, <2>1 DEF SafeInv, WorkerInv
  <2>4. \A w \in Workers : WorkerInv(w)'
    <3> SUFFICES ASSUME NEW w \in Workers PROVE WorkerInv(w)'
      OBVIOUS
    <3>1. held[w] # NoJob => row'[held[w]] = row[held[w]]
      BY <1>h, <2>2, <2>3
    <3>2. WorkerInv(w) /\ Untouched(w)
      BY <1>u, <2>1 DEF SafeInv
    <3> QED BY <3>1, <3>2, Frame
  <2>6. DeadLettersAreFailures'
    BY <2>2, LettersKeep
  <2> QED BY <1>u, <2>1, <2>4, <2>6 DEF SafeInv
<1>2. CASE Clear
  <2>1. UNCHANGED worker
    BY <1>2 DEF Clear, worker
  <2>2. \A j \in Jobs :
          /\ row'[j].status = IF Exists(j) THEN "deleted" ELSE row[j].status
          /\ ~Exists(j) => row'[j] = row[j]
    BY <1>2, <1>c DEF Clear, Row
  <2>3. DeadLettersAreFailures'
    BY <2>2 DEF SafeInv, DeadLettersAreFailures, Exists
  <2>4. \A w \in Workers : WorkerInv(w)'
    <3> SUFFICES ASSUME NEW w \in Workers, held[w] # NoJob PROVE WorkerInv(w)'
      BY <1>u, <2>1 DEF WorkerInv, Untouched
    <3>1. WorkerInv(w) /\ Untouched(w) /\ held[w] \in Jobs
      BY <1>h, <1>u, <2>1 DEF SafeInv
    <3>2. row'[held[w]].status = "deleted"
      BY <2>2, <3>1 DEF WorkerInv, Exists
    <3> QED BY <3>1, <3>2 DEF WorkerInv, Untouched, LastAttempt
  <2> QED BY <1>u, <2>1, <2>3, <2>4 DEF SafeInv
<1>3. ASSUME NEW w \in Workers, Acquire(w) PROVE SafeInv'
  <2> PICK e \in 0..StoreTime, j \in Jobs :
         /\ j \in Candidates(e)
         /\ Put(j, "running", row[j].attempts, LockDuration - e)
         /\ pc' = [pc EXCEPT ![w] = "granted"]
         /\ held' = [held EXCEPT ![w] = j]
         /\ copy' = [copy EXCEPT ![w] = row[j].attempts]
         /\ left' = [left EXCEPT ![w] = StoreTime - e]
         /\ UNCHANGED <<seen, faults>>
    BY <1>3 DEF Acquire
  <2>1. row[j].attempts \in Nat /\ LockDuration - e \in Int
    BY <1>c, RowFields
  <2>2. /\ row'[j].status = "running" /\ row'[j].queue = row[j].queue
        /\ row'[j].attempts = row[j].attempts
        /\ row'[j].due = LockDuration - e
        /\ \A k \in Jobs : k # j => row'[k] = row[k]
    BY <1>c, <2>1, PutRow
  <2>3. \A v \in Workers : held[v] # j
    BY AcquireFree
  <2>4. /\ pc'[w] = "granted" /\ held'[w] = j /\ copy'[w] = row[j].attempts
        /\ left'[w] = StoreTime - e
        /\ \A v \in Workers : v # w => Untouched(v)
    BY DEF TypeOK, Untouched
  <2>5. OneOwner'
    BY <2>3, <2>4 DEF SafeInv, OneOwner, Untouched
  <2>6. WorkerInv(w)'
    <3>1. Reserve(w)' = JobTimeout + 2 * StoreTime
      BY <2>4 DEF Reserve
    <3>2. row'[j].due > left'[w] + Reserve(w)'
      BY <2>2, <2>4, <3>1 DEF LeaseOutlivesJob
    <3> QED BY <2>2, <2>4, <3>2 DEF WorkerInv
  <2>7. \A v \in Workers : v # w => WorkerInv(v)'
    <3> SUFFICES ASSUME NEW v \in Workers, v # w PROVE WorkerInv(v)'
      OBVIOUS
    <3>1. held[v] # NoJob => row'[held[v]] = row[held[v]]
      BY <1>h, <2>2, <2>3
    <3> QED BY <2>4, <3>1, Frame DEF SafeInv
  <2>8. DeadLettersAreFailures'
    BY <2>2, LettersKeep DEF Candidates
  <2> QED BY <2>5, <2>6, <2>7, <2>8 DEF SafeInv
<1>4. ASSUME NEW w \in Workers, ReplyLost(w) PROVE SafeInv'
  BY <1>4, <1>k DEF ReplyLost
<1>5. ASSUME NEW w \in Workers, CompleteRejects(w) PROVE SafeInv'
  <2>1. pc[w] = "complete" /\ HandleJobFailure(w) /\ UNCHANGED row
    BY <1>5 DEF CompleteRejects
  <2>2. /\ held[w] \in Jobs /\ held[w] # NoJob /\ WorkerInv(w)
        /\ row[held[w]] \in Row /\ left[w] \in Nat
    BY <2>1, Busy
  <2>3. Reserve(w) = StoreTime
    BY <2>1 DEF Reserve
  <2>4. /\ row'[held[w]].status \in {"running", "deleted"}
        /\ row'[held[w]].status = "running" => row'[held[w]].due > StoreTime
        /\ row'[held[w]].status # "deleted" =>
             copy[w] = row'[held[w]].attempts
    BY <2>1, <2>2, <2>3, RowFields DEF WorkerInv, Failing
  <2>5. DeadLettersAreFailures'
    BY <2>1, <2>2, LettersKeep
  <2> QED BY <2>1, <2>2, <2>4, <2>5, FailureSafe DEF SafeInv
<1>6. ASSUME NEW w \in Workers, Step(w) PROVE SafeInv'
  BY <1>6, SafeWorker
<1>7. ASSUME NEW p \in Processes, Crash(p) PROVE SafeInv'
  BY <1>7, <1>k DEF Crash
<1>8. CASE Tick
  <2>1. UNCHANGED <<pc, held, copy, seen>>
    BY <1>8 DEF Tick
  <2>2. \A j \in Jobs :
          /\ row'[j].status = row[j].status /\ row'[j].queue = row[j].queue
          /\ row'[j].attempts = row[j].attempts
          /\ row[j].status = "running" /\ row[j].due > -StoreTime =>
               row'[j].due = row[j].due - 1
    BY <1>8, <1>c DEF Tick, Row
  <2>3. OneOwner'
    BY <2>1 DEF OneOwner, SafeInv
  <2>4. DeadLettersAreFailures'
    BY <2>2 DEF SafeInv, DeadLettersAreFailures, Exists
  <2>5. ASSUME NEW w \in Workers, held[w] # NoJob PROVE WorkerInv(w)'
    <3>1. pc[w] # "idle"
      BY <2>5 DEF TypeOK
    <3>2. /\ held[w] \in Jobs /\ WorkerInv(w) /\ left[w] \in Nat
          /\ row[held[w]] \in Row
      BY <3>1, Busy
    <3>3. left'[w] = left[w] - 1 /\ left[w] > 0
      BY <1>8, <3>1 DEF Tick
    <3>4. Reserve(w) \in Nat /\ Reserve(w)' = Reserve(w)
      BY <2>1 DEF Reserve
    <3>5. row'[held[w]].status = "running" =>
            row'[held[w]].due > left'[w] + Reserve(w)'
      BY <2>2, <3>2, <3>3, <3>4, RowFields DEF WorkerInv
    <3> QED BY <2>1, <2>2, <3>2, <3>5 DEF WorkerInv, LastAttempt
  <2>6. \A w \in Workers : WorkerInv(w)'
    BY <2>1, <2>5 DEF WorkerInv
  <2> QED BY <2>3, <2>4, <2>6 DEF SafeInv
<1>9. CASE UNCHANGED vars
  BY <1>9, <1>k, Frame DEF vars, SafeInv, OneOwner, Untouched,
                          DeadLettersAreFailures, Exists
<1> QED BY <1>1, <1>2, <1>3, <1>4, <1>5, <1>6, <1>7, <1>8, <1>9 DEF Next

-----------------------------------------------------------------------------
(* The theorems about leases.                                              *)

\* With an empty table and idle workers the invariant holds.
LEMMA SafeInit == Init => SafeInv
BY DEF Init, SafeInv, OneOwner, WorkerInv, DeadLettersAreFailures, Exists

\* The invariant holds throughout, provided the lease outlives the job.
LEMMA SafeAlways ==
  ASSUME LeaseOutlivesJob
  PROVE  Spec => [](TypeOK /\ SafeInv)
<1>1. TypeOK /\ SafeInv /\ [Next]_vars => SafeInv'
  BY SafeStep
<1> QED BY <1>1, SafeInit, TypeCorrect, PTL DEF Spec

\* acquireNext and executeJob: when the lease outlives everything a worker
\* does with a job, no two slots ever have one job in hand.
THEOREM LeaseGivesOneOwner ==
  ASSUME LeaseOutlivesJob
  PROVE  Spec => []OneOwner
<1>1. SafeInv => OneOwner
  BY DEF SafeInv
<1> QED BY <1>1, SafeAlways, PTL

\* Then the attempts a worker remembers are those of the row.
THEOREM LeaseKeepsCopies ==
  ASSUME LeaseOutlivesJob
  PROVE  Spec => []CopyIsCurrent
<1>1. TypeOK /\ SafeInv => CopyIsCurrent
  <2> SUFFICES ASSUME TypeOK, SafeInv, NEW w \in Workers, held[w] # NoJob,
                      Exists(held[w])
               PROVE  /\ copy[w] = row[held[w]].attempts
                      /\ pc[w] = "failUpdate" => seen[w] = row[held[w]].attempts
    BY DEF CopyIsCurrent
  <2> QED BY DEF SafeInv, WorkerInv, Exists
<1> QED BY <1>1, SafeAlways, PTL

\* And the dead-letter queue holds the failed jobs and nothing else.
THEOREM LeaseKeepsDeadLetters ==
  ASSUME LeaseOutlivesJob
  PROVE  Spec => []DeadLettersAreFailures
<1>1. SafeInv => DeadLettersAreFailures
  BY DEF SafeInv
<1> QED BY <1>1, SafeAlways, PTL

\* A step that takes a running job back to the queue, or to its failure, is
\* the holder's fail() or save(), and counts one attempt.
LEMMA FailureStep ==
  ASSUME TypeOK, SafeInv, [Next]_vars, NEW j \in Jobs,
         row[j].status = "running", row'[j].status \in {"pending", "failed"}
  PROVE  row'[j].attempts = row[j].attempts + 1
<1> USE ConstantsAssumption
<1>c. row \in [Jobs -> Row] /\ row[j] \in Row /\ Exists(j)
  BY DEF TypeOK, Exists
<1>n. row' # row
  OBVIOUS
<1>1. ASSUME NEW k \in Jobs, NEW d \in Delays, Enqueue(k, d) PROVE FALSE
  BY <1>1, <1>c DEF Enqueue
<1>2. ~Clear
  BY <1>c DEF Clear, Row
<1>3. ASSUME NEW w \in Workers, Acquire(w) PROVE FALSE
  <2> PICK e \in 0..StoreTime, k \in Jobs :
         Put(k, "running", row[k].attempts, LockDuration - e)
    BY <1>3 DEF Acquire
  <2>1. row[k].attempts \in Nat /\ LockDuration - e \in Int
    BY RowFields DEF TypeOK
  <2> QED BY <1>c, <2>1, PutRow
<1>4. ASSUME NEW w \in Workers, Step(w)
      PROVE  row'[j].attempts = row[j].attempts + 1
  <2>1. CASE Complete(w) \/ CompleteThenThrows(w)
    <3>1. held[w] \in Jobs /\ row[held[w]].attempts \in Nat
      BY <2>1, Busy, RowFields DEF Complete, CompleteThenThrows
    <3>2. Put(held[w], "completed", row[held[w]].attempts, 0)
      BY <1>n, <2>1 DEF Complete, CompleteThenThrows, CompleteRow
    <3> QED BY <1>c, <3>1, <3>2, PutRow
  <2>2. CASE FailUpdate(w)
    <3>1. /\ held[w] \in Jobs /\ held[w] # NoJob /\ WorkerInv(w)
          /\ pc[w] = "failUpdate" /\ Exists(held[w])
      BY <1>n, <2>2, Busy DEF FailUpdate
    <3>2. seen[w] = row[held[w]].attempts
      BY <3>1 DEF WorkerInv, Exists
    <3>3. seen[w] + 1 \in Nat /\ RetryDelay - Age(w) \in Int
      BY DEF TypeOK, Age
    <3>4. \/ Put(held[w], "pending", seen[w] + 1, RetryDelay - Age(w))
          \/ Put(held[w], "failed", seen[w] + 1, 0)
      BY <2>2, <3>1 DEF FailUpdate
    <3>5. /\ row'[held[w]].attempts = seen[w] + 1
          /\ \A k \in Jobs : k # held[w] => row'[k] = row[k]
      BY <1>c, <3>1, <3>3, <3>4, PutRow
    <3> QED BY <3>2, <3>5
  <2>3. CASE DlqUpdate(w)
    <3>1. held[w] \in Jobs /\ Exists(held[w])
      BY <1>n, <2>3, Busy DEF DlqUpdate
    <3>2. row[held[w]].attempts = copy[w]
      BY <3>1, HeldInMain
    <3>3. row' = [row EXCEPT ![held[w]] = DeadLetter(w)]
      BY <2>3, <3>1 DEF DlqUpdate
    <3> QED BY <1>c, <3>1, <3>2, <3>3 DEF DeadLetter
  <2>4. CASE DlqInsert(w)
    <3>1. held[w] \in Jobs /\ ~Exists(held[w])
      BY <1>n, <2>4, Busy DEF DlqInsert
    <3>2. row' = [row EXCEPT ![held[w]] = DeadLetter(w)]
      BY <2>4, <3>1 DEF DlqInsert
    <3>3. j # held[w]
      BY <1>c, <3>1
    <3> QED BY <1>c, <3>1, <3>2, <3>3
  <2> QED BY <1>4, <1>n, <2>1, <2>2, <2>3, <2>4
          DEF Step, Begin, HandlerReturns, HandlerThrows, TimesOut,
              FailSelect, DlqSelect
<1>5. ~Tick
  BY <1>c DEF Tick, Row
<1> QED BY <1>1, <1>2, <1>3, <1>4, <1>5, <1>n
        DEF Next, vars, ReplyLost, CompleteRejects, Crash

\* handleJobFailure: a running job goes back to pending, or to failed, only
\* with one more attempt on its row.
THEOREM LeaseCountsFailures ==
  ASSUME LeaseOutlivesJob
  PROVE  Spec => EveryFailureCounts
<1>1. TypeOK /\ SafeInv /\ [Next]_vars =>
        [\A j \in Jobs :
           /\ row[j].status = "running"
           /\ row'[j].status \in {"pending", "failed"}
           => row'[j].attempts = row[j].attempts + 1]_vars
  BY FailureStep
<1> QED BY <1>1, SafeAlways, PTL DEF Spec, EveryFailureCounts

-----------------------------------------------------------------------------
(* The lifecycle.  Errors after complete() was applied are ruled out.      *)

\* The abstract state, named.
St == [j \in Jobs |-> row[j].status]
Ow == [j \in Jobs |-> {w \in Workers : held[w] = j}]

\* The two variables of the lifecycle, as the refinement mapping gives them.
LEMMA AbstractVars ==
  (UNCHANGED <<St, Ow>>) => UNCHANGED JL!vars
BY DEF St, Ow, JL!vars

\* A step that keeps every status and every job in hand changes nothing.
LEMMA AbstractStutter ==
  ASSUME UNCHANGED held, \A j \in Jobs : row'[j].status = row[j].status
  PROVE  UNCHANGED <<St, Ow>>
BY DEF St, Ow

\* A worker with a job is the only one that has it.
LEMMA AbstractOwner ==
  ASSUME TypeOK, SafeInv, NEW w \in Workers, held[w] \in Jobs
  PROVE  Ow[held[w]] = {w}
BY ConstantsAssumption DEF Ow, SafeInv, OneOwner

\* Releasing workers takes their jobs out of their hands.
LEMMA AbstractRelease ==
  ASSUME TypeOK, NEW ws, Release(ws)
  PROVE  Ow' = [j \in Jobs |-> Ow[j] \ ws]
BY ConstantsAssumption DEF TypeOK, Release, Ow

\* The holder writes an outcome and releases the job.
LEMMA AbstractSettle ==
  ASSUME TypeOK, SafeInv, NEW w \in Workers, NEW j \in Jobs, held[w] = j,
         Release({w}), NEW s \in JL!Outcome(row[j].status),
         row'[j].status = s,
         \A k \in Jobs : k # j => row'[k].status = row[k].status
  PROVE  JL!Settle(j, w)
<1>1. Ow[j] = {w}
  BY AbstractOwner
<1>2. \A k \in Jobs : k # j => w \notin Ow[k]
  BY DEF Ow
<1>3. Ow' = [Ow EXCEPT ![j] = {}]
  <2>1. Ow' = [k \in Jobs |-> Ow[k] \ {w}]
    BY AbstractRelease
  <2>2. \A k \in Jobs : Ow[k] \ {w} = IF k = j THEN {} ELSE Ow[k]
    BY <1>1, <1>2
  <2>3. [Ow EXCEPT ![j] = {}] = [k \in Jobs |-> IF k = j THEN {} ELSE Ow[k]]
    BY DEF Ow
  <2> QED BY <2>1, <2>2, <2>3
<1>4. St' = [St EXCEPT ![j] = s]
  BY DEF St
<1>5. St[j] = row[j].status
  BY DEF St
<1> QED BY <1>1, <1>3, <1>4, <1>5 DEF JL!Settle, St, Ow

\* A release that writes nothing is an abandonment.
LEMMA AbstractAbandon ==
  ASSUME TypeOK, NEW ws, Release(ws), UNCHANGED row
  PROVE  JL!Abandon(ws \cap Workers)
<1>1. Ow' = [j \in Jobs |-> Ow[j] \ ws]
  BY AbstractRelease
<1>2. \A j \in Jobs : Ow[j] \ ws = Ow[j] \ (ws \cap Workers)
  BY DEF Ow
<1>3. Ow' = [j \in Jobs |-> Ow[j] \ (ws \cap Workers)]
  BY <1>1, <1>2
<1>4. St' = St
  BY DEF St
<1> QED BY <1>3, <1>4 DEF JL!Abandon, St, Ow

\* Every step of SqlJobs is one of the lifecycle, or none.
LEMMA AbstractStep ==
  ASSUME ~LateErrors, TypeOK, SafeInv, [Next]_vars
  PROVE  [JL!Next]_(JL!vars)
<1> USE ConstantsAssumption
<1>c. row \in [Jobs -> Row] /\ \A j \in Jobs : row[j] \in Row
  BY DEF TypeOK
<1>s. ASSUME UNCHANGED held, \A j \in Jobs : row'[j].status = row[j].status
      PROVE  [JL!Next]_(JL!vars)
  BY <1>s, AbstractStutter, AbstractVars
<1>a. ASSUME NEW ws, Release(ws), UNCHANGED row PROVE JL!Next
  <2>1. JL!Abandon(ws \cap Workers) /\ ws \cap Workers \in SUBSET Workers
    BY <1>a, AbstractAbandon
  <2> QED BY <2>1 DEF JL!Next
<1>e. ASSUME NEW w \in Workers, pc[w] # "idle", Release({w}),
             NEW s \in JL!Outcome(row[held[w]].status),
             row'[held[w]].status = s,
             \A k \in Jobs : k # held[w] => row'[k].status = row[k].status
      PROVE  JL!Next
  <2> PICK j \in Jobs : held[w] = j
    BY <1>e, Busy
  <2>1. JL!Settle(j, w)
    BY <1>e, AbstractSettle
  <2> QED BY <2>1 DEF JL!Next
<1>1. ASSUME NEW j \in Jobs, NEW d \in Delays, Enqueue(j, d) PROVE JL!Next
  <2>1. St[j] = "new" /\ St' = [St EXCEPT ![j] = "pending"] /\ Ow' = Ow
    BY <1>1, <1>c DEF Enqueue, worker, St, Ow
  <2>2. JL!Submit(j)
    BY <2>1 DEF JL!Submit, St, Ow
  <2> QED BY <2>2 DEF JL!Next
<1>2. CASE Clear
  <2>1. Ow' = Ow
    BY <1>2 DEF Clear, worker, Ow
  <2>2. \A j \in Jobs :
          row'[j].status = IF row[j].status = "new" THEN "new" ELSE "deleted"
    BY <1>2, <1>c DEF Clear, Exists, Row
  <2>3. St' = [j \in Jobs |-> IF St[j] = "new" THEN "new" ELSE "deleted"]
    BY <2>2 DEF St
  <2>4. JL!Wipe
    BY <2>1, <2>3 DEF JL!Wipe, St, Ow
  <2> QED BY <2>4 DEF JL!Next
<1>3. ASSUME NEW w \in Workers, Acquire(w) PROVE JL!Next
  <2> PICK e \in 0..StoreTime, j \in Jobs :
         /\ j \in Candidates(e)
         /\ Put(j, "running", row[j].attempts, LockDuration - e)
         /\ held' = [held EXCEPT ![w] = j]
    BY <1>3 DEF Acquire
  <2>1. row[j].attempts \in Nat /\ LockDuration - e \in Int
    BY <1>c, RowFields
  <2>2. /\ row'[j].status = "running"
        /\ \A k \in Jobs : k # j => row'[k] = row[k]
    BY <1>c, <2>1, PutRow
  <2>3. \A v \in Workers : held[v] # j
    BY AcquireFree
  <2>4. held[w] = NoJob
    BY <1>3 DEF Acquire, TypeOK
  <2>5. Ow[j] = {} /\ Ow' = [Ow EXCEPT ![j] = {w}]
    <3>1. \A v \in Workers : held'[v] = IF v = w THEN j ELSE held[v]
      BY DEF TypeOK
    <3>2. Ow[j] = {} /\ Ow'[j] = {w}
      BY <2>3, <3>1 DEF Ow
    <3>3. \A k \in Jobs : k # j => Ow'[k] = Ow[k]
      BY <2>4, <3>1 DEF Ow
    <3>4. Ow \in [Jobs -> SUBSET Workers] /\ Ow' \in [Jobs -> SUBSET Workers]
      BY DEF Ow
    <3> QED BY <3>2, <3>3, <3>4
  <2>6. St[j] \in {"pending", "running"} /\ St' = [St EXCEPT ![j] = "running"]
    BY <2>2 DEF St, Candidates
  <2>7. JL!Claim(j, w)
    BY <2>5, <2>6 DEF JL!Claim, St, Ow
  <2> QED BY <2>7 DEF JL!Next
<1>4. ASSUME NEW w \in Workers, Step(w) PROVE [JL!Next]_(JL!vars)
  <2>0. /\ pc[w] # "idle"
        /\ held[w] \in Jobs /\ held[w] # NoJob /\ WorkerInv(w)
    <3>1. pc[w] # "idle"
      BY <1>4 DEF Step, Begin, HandlerReturns, HandlerThrows, TimesOut,
             Complete, CompleteThenThrows, FailSelect, FailUpdate, DlqSelect,
             DlqUpdate, DlqInsert
    <3> QED BY <3>1, Busy
  <2>1. CASE Begin(w) \/ HandlerReturns(w) \/ HandlerThrows(w) \/ TimesOut(w)
    <3>1. UNCHANGED <<held, row>>
      BY <2>1 DEF Begin, HandlerReturns, HandlerThrows, TimesOut,
                  HandleJobFailure, Goto
    <3> QED BY <1>s, <3>1
  <2>2. row[held[w]].status \in {"running", "deleted"}
    BY <2>0 DEF WorkerInv
  <2>3. "completed" \in JL!Outcome("running") /\ "pending" \in JL!Outcome("running")
        /\ "failed" \in JL!Outcome("running") /\ "failed" \in JL!Outcome("deleted")
        /\ "deleted" \in JL!Outcome("deleted")
    BY DEF JL!Outcome
  <2>4. ASSUME Release({w}), UNCHANGED row PROVE JL!Next
    BY <1>a, <2>4
  <2>5. CASE Complete(w)
    <3>1. CASE Exists(held[w])
      <4>1. row[held[w]].attempts \in Nat /\ row[held[w]].status = "running"
        BY <1>c, <2>0, <2>2, <3>1, RowFields DEF Exists
      <4>2. Put(held[w], "completed", row[held[w]].attempts, 0)
        BY <2>5, <3>1 DEF Complete, CompleteRow
      <4>3. /\ row'[held[w]].status = "completed"
            /\ \A k \in Jobs : k # held[w] => row'[k] = row[k]
        BY <1>c, <2>0, <4>1, <4>2, PutRow
      <4> QED BY <1>e, <2>0, <2>3, <2>5, <4>1, <4>3 DEF Complete
    <3>2. CASE ~Exists(held[w])
      BY <2>4, <2>5, <3>2 DEF Complete, CompleteRow
    <3> QED BY <3>1, <3>2
  <2>6. CASE FailSelect(w)
    <3>1. CASE Exists(held[w])
      BY <1>s, <2>6, <3>1 DEF FailSelect
    <3>2. CASE ~Exists(held[w])
      BY <2>4, <2>6, <3>2 DEF FailSelect
    <3> QED BY <3>1, <3>2
  <2>7. CASE FailUpdate(w)
    <3>1. CASE Exists(held[w])
      <4>1. row[held[w]].status = "running"
        BY <2>2, <3>1 DEF Exists
      <4>2. seen[w] + 1 \in Nat /\ RetryDelay - Age(w) \in Int
        BY DEF TypeOK, Age
      <4>3. \/ Put(held[w], "pending", seen[w] + 1, RetryDelay - Age(w))
            \/ Put(held[w], "failed", seen[w] + 1, 0)
        BY <2>7, <3>1 DEF FailUpdate
      <4>4. /\ row'[held[w]].status \in {"pending", "failed"}
            /\ \A k \in Jobs : k # held[w] => row'[k] = row[k]
        BY <1>c, <2>0, <4>2, <4>3, PutRow
      <4> QED BY <1>e, <2>0, <2>3, <2>7, <4>1, <4>4 DEF FailUpdate
    <3>2. CASE ~Exists(held[w])
      BY <2>4, <2>7, <3>2 DEF FailUpdate
    <3> QED BY <3>1, <3>2
  <2>8. CASE DlqSelect(w)
    BY <1>s, <2>8 DEF DlqSelect
  <2>9. CASE DlqUpdate(w) \/ DlqInsert(w)
    <3>1. CASE UNCHANGED row
      <4>1. \E ws : Release(ws)
        BY <2>9 DEF DlqUpdate, DlqInsert
      <4> QED BY <1>a, <3>1, <4>1
    <3>2. CASE row' # row
      <4>1. Release({w}) /\ row' = [row EXCEPT ![held[w]] = DeadLetter(w)]
        BY <2>9, <3>2 DEF DlqUpdate, DlqInsert
      <4>2. /\ row'[held[w]].status = "failed"
            /\ \A k \in Jobs : k # held[w] => row'[k] = row[k]
        BY <1>c, <2>0, <4>1 DEF DeadLetter
      <4> QED BY <1>e, <2>0, <2>2, <2>3, <4>1, <4>2
    <3> QED BY <3>1, <3>2
  <2> QED BY <1>4, <2>1, <2>5, <2>6, <2>7, <2>8, <2>9
          DEF Step, CompleteThenThrows
<1>5. ASSUME NEW w \in Workers, CompleteRejects(w) PROVE [JL!Next]_(JL!vars)
  <2>1. UNCHANGED <<held, row>>
    BY <1>5 DEF CompleteRejects, HandleJobFailure, Goto
  <2> QED BY <1>s, <2>1
<1>6. ASSUME NEW w \in Workers, ReplyLost(w) PROVE JL!Next
  BY <1>6, <1>a DEF ReplyLost
<1>7. ASSUME NEW p \in Processes, Crash(p) PROVE JL!Next
  BY <1>7, <1>a DEF Crash
<1>8. CASE Tick
  <2>1. \A j \in Jobs : row'[j].status = row[j].status
    BY <1>8, <1>c DEF Tick, Row
  <2> QED BY <1>8, <1>s, <2>1 DEF Tick
<1>9. CASE UNCHANGED vars
  BY <1>9, <1>s DEF vars
<1> QED BY <1>1, <1>2, <1>3, <1>4, <1>5, <1>6, <1>7, <1>8, <1>9 DEF Next

\* The rows of SQLJobStorage and the slots of the schedulers implement the
\* lifecycle, whatever crashes, lost replies and clears happen, provided the
\* lease outlives the job and nothing fails after complete() was applied.
THEOREM SqlImplementsLifecycle ==
  ASSUME LeaseOutlivesJob, ~LateErrors
  PROVE  Spec => Implements
<1>1. Init => JL!Init
  BY ConstantsAssumption DEF Init, JL!Init
<1>2. TypeOK /\ SafeInv /\ [Next]_vars => [JL!Next]_(JL!vars)
  BY AbstractStep
<1> QED BY <1>1, <1>2, SafeAlways, PTL DEF Spec, Implements, JL!Spec

-----------------------------------------------------------------------------
(* Late errors.                                                            *)

\* Only the end of fail(), or of the dead-letter save(), writes a completed
\* row otherwise than clear() does, and it counts the attempt.
LEMMA ReopenStep ==
  ASSUME TypeOK, SafeInv, Next, NEW j \in Jobs,
         row[j].status = "completed",
         row'[j].status \notin {"completed", "deleted"}
  PROVE  /\ row'[j].attempts = row[j].attempts + 1
         /\ \E w \in Workers : held[w] = j /\ held'[w] = NoJob
<1> USE ConstantsAssumption
<1>c. row \in [Jobs -> Row] /\ \A k \in Jobs : row[k] \in Row
  BY DEF TypeOK
<1>s. row'[j] # row[j]
  OBVIOUS
<1>1. ASSUME NEW k \in Jobs, NEW d \in Delays, Enqueue(k, d) PROVE FALSE
  BY <1>1, <1>c, <1>s DEF Enqueue
<1>2. CASE Clear
  BY <1>2, <1>c DEF Clear, Exists
<1>3. ASSUME NEW w \in Workers, Acquire(w) PROVE FALSE
  <2> PICK e \in 0..StoreTime, k \in Jobs :
         k \in Candidates(e) /\ Put(k, "running", row[k].attempts, LockDuration - e)
    BY <1>3 DEF Acquire
  <2>1. row[k].attempts \in Nat /\ LockDuration - e \in Int
    BY <1>c, RowFields
  <2>2. \A i \in Jobs : i # k => row'[i] = row[i]
    BY <1>c, <2>1, PutRow
  <2>3. k # j
    BY DEF Candidates
  <2> QED BY <1>s, <2>2, <2>3
<1>4. ASSUME NEW w \in Workers, Step(w)
      PROVE  /\ row'[j].attempts = row[j].attempts + 1
             /\ held[w] = j /\ held'[w] = NoJob
  <2>0. /\ pc[w] # "idle" /\ held[w] \in Jobs /\ held[w] # NoJob
        /\ WorkerInv(w) /\ copy[w] \in Nat /\ seen[w] \in Nat
    <3>1. pc[w] # "idle"
      BY <1>4 DEF Step, Begin, HandlerReturns, HandlerThrows, TimesOut,
             Complete, CompleteThenThrows, FailSelect, FailUpdate, DlqSelect,
             DlqUpdate, DlqInsert
    <3> QED BY <3>1, Busy DEF TypeOK
  <2>1. ~(\/ Begin(w) \/ HandlerReturns(w) \/ HandlerThrows(w) \/ TimesOut(w)
          \/ FailSelect(w) \/ DlqSelect(w))
    BY <1>s DEF Begin, HandlerReturns, HandlerThrows, TimesOut, FailSelect,
               DlqSelect
  <2>2. ASSUME CompleteRow(held[w]) PROVE FALSE
    <3>1. CASE Exists(held[w])
      <4>1. row[held[w]].attempts \in Nat
        BY <1>c, <2>0, RowFields
      <4>2. /\ row'[held[w]].status = "completed"
            /\ \A k \in Jobs : k # held[w] => row'[k] = row[k]
        BY <1>c, <2>0, <2>2, <3>1, <4>1, PutRow DEF CompleteRow
      <4> QED BY <1>s, <4>2
    <3> QED BY <1>s, <2>2, <3>1 DEF CompleteRow
  <2>3. CASE FailUpdate(w)
    <3>1. CASE Exists(held[w])
      <4>1. seen[w] + 1 \in Nat /\ RetryDelay - Age(w) \in Int
        BY <2>0 DEF TypeOK, Age
      <4>2. \/ Put(held[w], "pending", seen[w] + 1, RetryDelay - Age(w))
            \/ Put(held[w], "failed", seen[w] + 1, 0)
        BY <2>3, <3>1 DEF FailUpdate
      <4>3. /\ row'[held[w]].attempts = seen[w] + 1
            /\ \A k \in Jobs : k # held[w] => row'[k] = row[k]
        BY <1>c, <2>0, <4>1, <4>2, PutRow
      <4>4. held[w] = j
        BY <1>s, <4>3
      <4>5. seen[w] = row[j].attempts
        BY <2>0, <2>3, <4>4 DEF FailUpdate, WorkerInv
      <4> QED BY <2>3, <4>3, <4>4, <4>5 DEF FailUpdate, Release
    <3> QED BY <1>s, <2>3, <3>1 DEF FailUpdate
  <2>4. CASE DlqUpdate(w) \/ DlqInsert(w)
    <3>1. Release({w}) /\ row' = [row EXCEPT ![held[w]] = DeadLetter(w)]
      BY <1>s, <2>4 DEF DlqUpdate, DlqInsert
    <3>2. held[w] = j
      BY <1>s, <3>1
    <3>3. copy[w] = row[j].attempts
      BY <2>0, <3>2 DEF WorkerInv
    <3> QED BY <1>c, <3>1, <3>2, <3>3 DEF Release, DeadLetter
  <2> QED BY <1>4, <2>1, <2>2, <2>3, <2>4
          DEF Step, Complete, CompleteThenThrows
<1>5. ASSUME NEW w \in Workers, CompleteRejects(w) \/ ReplyLost(w) PROVE FALSE
  BY <1>5, <1>s DEF CompleteRejects, ReplyLost
<1>6. ASSUME NEW p \in Processes, Crash(p) PROVE FALSE
  BY <1>6, <1>s DEF Crash
<1>7. CASE Tick
  BY <1>7, <1>c, <1>s DEF Tick
<1> QED BY <1>1, <1>2, <1>3, <1>4, <1>5, <1>6, <1>7 DEF Next

\* Whatever fails after complete(), as long as the lease outlives the job: a
\* completed job is reopened by the slot that has it in hand alone, when it
\* lets go of it, and with one more attempt on the record.
THEOREM LateErrorsReopen ==
  ASSUME LeaseOutlivesJob
  PROVE  Spec => ReopenedByItsWorker
<1>1. TypeOK /\ SafeInv /\ [Next]_vars =>
        [\A j \in Jobs :
           /\ row[j].status = "completed"
           /\ row'[j].status \notin {"completed", "deleted"}
           => /\ row'[j].attempts = row[j].attempts + 1
              /\ \E w \in Workers : held[w] = j /\ held'[w] = NoJob]_vars
  BY ReopenStep
<1> QED BY <1>1, SafeAlways, PTL DEF Spec, ReopenedByItsWorker
=============================================================================
