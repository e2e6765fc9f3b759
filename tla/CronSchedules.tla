--------------------------- MODULE CronSchedules ---------------------------
(***************************************************************************)
(* checkCronSchedules of several JobScheduler processes with the same cron *)
(* tasks, and the lock they share through acquireCronLock, or keep each to *)
(* itself when the storage has none.                                       *)
(*                                                                         *)
(* Every tick() of the worker loop starts a check and does not wait for    *)
(* it, so checks of one process overlap.  A check reads the clock once, on *)
(* entry.  It gives up control only while it waits for the lock and for    *)
(* enqueue; either takes at most StoreTime.                                *)
(***************************************************************************)
EXTENDS Integers, FiniteSetsExt

CONSTANTS
  Processes,      \* the processes that run a scheduler
  Checks,         \* bound: the checks that may be under way at once
  Host,           \* the process of each check
  NTasks,         \* cronTasks.length; task i is cronTasks[i - 1]
  Patterns,       \* the patterns in use
  Interval,       \* the seconds of a numeric pattern, 0 for an expression
  Match,          \* the minutes an expression matches
  MinuteLength,   \* the length of a minute, in units of the clock
  LockTtl,        \* lockDuration of checkCronSchedules
  SharedLock,     \* the storage implements acquireCronLock
  StoreTime,      \* the longest a call of the storage takes
  MaxFaults,      \* bound: the replies lost and the enqueues rejected
  MaxTime         \* bound: the end of time

ASSUME CronAssumption ==
  /\ Host \in [Checks -> Processes]
  /\ NTasks \in Nat
  /\ Interval \in [Patterns -> Nat]
  /\ Match \in [Patterns -> SUBSET Nat]
  /\ MinuteLength \in Nat \ {0}
  /\ LockTtl \in Nat
  /\ SharedLock \in BOOLEAN
  /\ StoreTime \in Nat
  /\ MaxFaults \in Nat
  /\ MaxTime \in Nat

VARIABLES
  pattern,   \* task.pattern, the same in every process
  clock,     \* Date.now()
  lastRun,   \* task.lastRun in each process, Never when undefined
  lock,      \* when the lock of a pattern expires, per process that keeps it
  pc,        \* where each check is
  began,     \* its "now"
  at,        \* the task it is at
  got,       \* the lock was acquired
  left,      \* what is left of the time its current call may take
  polled,    \* the processes that have started a check at this instant
  fires,     \* how often a process has enqueued a task for a minute
  dropped,   \* the tasks and minutes whose enqueue was rejected
  faults     \* the faults that have happened

cronVars == <<pattern, clock, lastRun, lock, pc, began, at, got, left, polled,
              fires, dropped, faults>>
check == <<pc, began, at, got, left>>

Tasks == 1..NTasks
Never == -1
Minute(t) == t \div MinuteLength
Minutes == 0..Minute(MaxTime)

CronTypeOK ==
  /\ pattern \in [Tasks -> Patterns]
  /\ clock \in 0..MaxTime
  /\ lastRun \in [Processes -> [Tasks -> -1..MaxTime]]
  /\ lock \in [Processes -> [Patterns -> Nat]]
  /\ pc \in [Checks -> {"idle", "lock", "reply", "enqueue"}]
  /\ began \in [Checks -> 0..MaxTime]
  /\ at \in [Checks -> 0..NTasks]
  /\ \A c \in Checks : at[c] = 0 <=> pc[c] = "idle"
  /\ got \in [Checks -> BOOLEAN]
  /\ left \in [Checks -> 0..StoreTime]
  /\ polled \subseteq Processes
  /\ fires \in [Processes -> [Tasks -> [Minutes -> Nat]]]
  /\ dropped \subseteq Tasks \X Minutes
  /\ faults \in 0..MaxFaults

\* schedule() was called for each task before the loop was started.
CronInit ==
  /\ pattern \in [Tasks -> Patterns]
  /\ clock = 0
  /\ lastRun = [p \in Processes |-> [t \in Tasks |-> Never]]
  /\ lock = [p \in Processes |-> [k \in Patterns |-> 0]]
  /\ pc = [c \in Checks |-> "idle"]
  /\ began = [c \in Checks |-> 0]
  /\ at = [c \in Checks |-> 0]
  /\ got = [c \in Checks |-> FALSE]
  /\ left = [c \in Checks |-> 0]
  /\ polled = {}
  /\ fires = [p \in Processes |-> [t \in Tasks |-> [m \in Minutes |-> 0]]]
  /\ dropped = {}
  /\ faults = 0

-----------------------------------------------------------------------------
\* Mutants of ShouldFire: lastRun is compared with the previous minute, or
\* not at all; an interval is rounded down to whole minutes.
ShouldFireSkips(p, t, now) ==
  LET run == lastRun[p][t]
      k == pattern[t]
  IN  IF Interval[k] > 0
        THEN run = Never \/ now - run >= Interval[k]
        ELSE /\ Minute(now) \in Match[k]
             /\ run = Never \/ run + MinuteLength < Minute(now) * MinuteLength
ShouldFireAnew(p, t, now) ==
  LET run == lastRun[p][t]
      k == pattern[t]
  IN  IF Interval[k] > 0
        THEN run = Never \/ now - run >= Interval[k]
        ELSE Minute(now) \in Match[k]
ShouldFireRounded(p, t, now) ==
  LET run == lastRun[p][t]
      k == pattern[t]
  IN  IF Interval[k] > 0
        THEN run = Never \/ Minute(now) - Minute(run) >= Minute(Interval[k])
        ELSE /\ Minute(now) \in Match[k]
             /\ run = Never \/ run < Minute(now) * MinuteLength

\* shouldFire of task t in process p for a check that began at now.
ShouldFire(p, t, now) ==
  LET run == lastRun[p][t]
      k == pattern[t]
  IN  IF Interval[k] > 0
        THEN run = Never \/ now - run >= Interval[k]
        ELSE /\ Minute(now) \in Match[k]
             /\ run = Never \/ run < Minute(now) * MinuteLength

\* The loop over cronTasks goes on from task "from" to the next one that
\* should fire, and calls for its lock, or ends.
Scan(c, from, now) ==
  LET due == {t \in from..NTasks : ShouldFire(Host[c], t, now)} IN
  IF due = {}
    THEN /\ pc' = [pc EXCEPT ![c] = "idle"]
         /\ began' = [began EXCEPT ![c] = 0]
         /\ at' = [at EXCEPT ![c] = 0]
         /\ got' = [got EXCEPT ![c] = FALSE]
         /\ left' = [left EXCEPT ![c] = 0]
    ELSE /\ pc' = [pc EXCEPT ![c] = "lock"]
         /\ began' = [began EXCEPT ![c] = now]
         /\ at' = [at EXCEPT ![c] = Min(due)]
         /\ got' = [got EXCEPT ![c] = FALSE]
         /\ left' = [left EXCEPT ![c] = StoreTime]

\* tick() starts a check.
Begin(c) ==
  /\ pc[c] = "idle"
  /\ Scan(c, 1, clock)
  /\ polled' = polled \cup {Host[c]}
  /\ UNCHANGED <<pattern, clock, lastRun, lock, fires, dropped, faults>>

\* Who keeps the lock that process p asks for.
Keeper(p) == IF SharedLock THEN CHOOSE q \in Processes : TRUE ELSE p

\* SET NX PX of acquireCronLock, or acquireLocalCronLock.  The key has the
\* pattern and the queue in it, not the name of the task.
Lock(c) ==
  LET q == Keeper(Host[c])
      k == pattern[at[c]]
      free == clock >= lock[q][k]
  IN  /\ pc[c] = "lock"
      /\ got' = [got EXCEPT ![c] = free]
      /\ lock' = IF free THEN [lock EXCEPT ![q][k] = clock + LockTtl] ELSE lock
      /\ pc' = [pc EXCEPT ![c] = "reply"]
      /\ UNCHANGED <<pattern, clock, lastRun, began, at, left, polled, fires,
                     dropped, faults>>

\* The check resumes with the lock: it stamps the task and enqueues it.
Won(c) ==
  /\ pc[c] = "reply"
  /\ got[c]
  /\ lastRun' = [lastRun EXCEPT ![Host[c]][at[c]] = began[c]]
  /\ pc' = [pc EXCEPT ![c] = "enqueue"]
  /\ left' = [left EXCEPT ![c] = StoreTime]
  /\ UNCHANGED <<pattern, clock, lock, began, at, got, polled, fires, dropped,
                 faults>>

\* The check resumes without it.  acquireCronLock answers an error, before or
\* after the lock was set, the same way; the local lock has none.
Lost(c) ==
  /\ \/ /\ pc[c] = "reply" /\ ~got[c]
        /\ UNCHANGED faults
     \/ /\ pc[c] \in {"lock", "reply"} /\ SharedLock
        /\ faults < MaxFaults /\ faults' = faults + 1
  /\ Scan(c, at[c] + 1, began[c])
  /\ UNCHANGED <<pattern, clock, lastRun, lock, polled, fires, dropped>>

\* The job is saved and the loop goes on with the clock it began with.
Enqueue(c) ==
  /\ pc[c] = "enqueue"
  /\ fires' = [fires EXCEPT ![Host[c]][at[c]][Minute(began[c])] = @ + 1]
  /\ Scan(c, at[c] + 1, began[c])
  /\ UNCHANGED <<pattern, clock, lastRun, lock, polled, dropped, faults>>

\* enqueue rejects, and with it the whole check.  lastRun stays.
EnqueueRejects(c) ==
  /\ pc[c] = "enqueue"
  /\ faults < MaxFaults
  /\ faults' = faults + 1
  /\ dropped' = dropped \cup {<<at[c], Minute(began[c])>>}
  /\ Scan(c, NTasks + 1, began[c])
  /\ UNCHANGED <<pattern, clock, lastRun, lock, polled, fires>>

\* Time passes.  No call takes longer than it may, and every process with a
\* check to spare polls at least once in every unit of time.
CronTick ==
  /\ clock < MaxTime
  /\ \A c \in Checks : IF pc[c] = "idle" THEN Host[c] \in polled ELSE left[c] > 0
  /\ clock' = clock + 1
  /\ left' = [c \in Checks |-> IF pc[c] = "idle" THEN 0 ELSE left[c] - 1]
  /\ polled' = {}
  /\ UNCHANGED <<pattern, lastRun, lock, pc, began, at, got, fires, dropped,
                 faults>>

CronNext ==
  \/ \E c \in Checks :
       \/ Begin(c)
       \/ Lock(c)
       \/ Won(c)
       \/ Lost(c)
       \/ Enqueue(c)
       \/ EnqueueRejects(c)
  \/ CronTick

CronSpec == CronInit /\ [][CronNext]_cronVars

-----------------------------------------------------------------------------
(* Properties.                                                             *)

\* lastRun is written after an await and read before the next: overlapping
\* checks of one process nevertheless enqueue a task once per minute, as long
\* as the lock outlives two calls of the storage: its own reply, and the call
\* of a check that began before that reply.
OncePerProcess ==
  \A p \in Processes, t \in Tasks, m \in Minutes :
    Interval[pattern[t]] = 0 => fires[p][t][m] <= 1

\* The lock of one minute may still be held in the next, or its reply be
\* lost: no minute that an expression matches passes without its task being
\* enqueued, unless the storage rejected it.
EveryMinuteFires ==
  \A t \in Tasks, m \in Minutes :
    /\ Interval[pattern[t]] = 0 /\ m \in Match[pattern[t]]
    /\ clock > (m + 1) * MinuteLength + 2 * StoreTime
    => (\E p \in Processes : fires[p][t][m] > 0) \/ <<t, m>> \in dropped

\* A numeric pattern: overlapping checks that have all found the task due do
\* not enqueue it again before its interval has passed, under the same
\* condition on the lock.
IntervalKept ==
  [][\A p \in Processes, t \in Tasks :
       lastRun[p][t] \notin {Never, lastRun'[p][t]} =>
         lastRun'[p][t] >= lastRun[p][t] + Interval[pattern[t]]]_cronVars
=============================================================================
