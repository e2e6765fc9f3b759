-------------------------- MODULE SchedulerProofs ---------------------------
(* The loop of a JobScheduler for any maxConcurrency, and its cron checks    *)
(* for any processes, tasks and overlapping checks.                          *)
EXTENDS SchedulerLoop, CronSchedules, WellFoundedInduction, TLAPS

\* What one call of tick() does, however many timers are pending: it respects
\* the slots, and a running loop is left with a timer or an acquire in flight.
LEMMA TickLemma ==
  ASSUME TypeOK, SlotsRespected,
         NEW on \in BOOLEAN, NEW t \in BOOLEAN, NEW s \in 0..MaxStrays,
         Tick(on, t, s)
  PROVE  /\ timer' \in BOOLEAN /\ strays' \in 0..MaxStrays
         /\ pending' \in Nat
         /\ active + pending' <= MaxConcurrency
         /\ on => timer' \/ pending' > 0
<1> USE LoopAssumption DEF TypeOK, SlotsRespected
<1>1. CASE on /\ active + pending < MaxConcurrency
  <2>1. pending' = MaxConcurrency - active /\ timer' = t /\ strays' = s
    BY <1>1 DEF Tick
  <2> QED BY <1>1, <2>1
<1>2. CASE on /\ active + pending >= MaxConcurrency /\ pending = 0
  <2>1. pending' = pending /\ SetTimer(t, s)
    BY <1>2 DEF Tick
  <2>2. timer' = TRUE /\ strays' \in 0..MaxStrays
    BY <2>1 DEF SetTimer, More
  <2> QED BY <1>2, <2>1, <2>2
<1>3. CASE on => active + pending >= MaxConcurrency /\ pending > 0
  <2>1. pending' = pending /\ timer' = t /\ strays' = s
    BY <1>3 DEF Tick
  <2> QED BY <1>3, <2>1
<1> QED BY <1>1, <1>2, <1>3

\* The inductive invariant is the conjunction of the three invariants.
LoopInv == TypeOK /\ SlotsRespected /\ NeverStalls

\* A step that calls tick() while it runs, the rest being in order.
LEMMA TickStep ==
  ASSUME LoopInv, NEW t \in BOOLEAN, NEW s \in 0..MaxStrays,
         running' \in BOOLEAN, Tick(running', t, s),
         immediates' \in 0..MaxImmediates,
         UNCHANGED <<active, drain>>
  PROVE  LoopInv'
<1>1. /\ timer' \in BOOLEAN /\ strays' \in 0..MaxStrays
      /\ pending' \in Nat
      /\ active + pending' <= MaxConcurrency
      /\ running' => timer' \/ pending' > 0
  <2> DEFINE on == running'
  <2>1. on \in BOOLEAN /\ Tick(on, t, s)
    OBVIOUS
  <2> HIDE DEF on
  <2>2. on => timer' \/ pending' > 0
    BY <2>1, TickLemma DEF LoopInv
  <2>3. /\ timer' \in BOOLEAN /\ strays' \in 0..MaxStrays
        /\ pending' \in Nat
        /\ active + pending' <= MaxConcurrency
    BY <2>1, TickLemma DEF LoopInv
  <2> QED BY <2>2, <2>3 DEF on
<1>2. TypeOK'
  BY <1>1 DEF LoopInv, TypeOK
<1>3. SlotsRespected'
  BY <1>1 DEF SlotsRespected
<1>4. NeverStalls'
  BY <1>1 DEF NeverStalls
<1> QED BY <1>2, <1>3, <1>4 DEF LoopInv

\* Counting up and down stays within the bound.
LEMMA Counting ==
  ASSUME NEW bound \in Nat \ {0}, NEW n \in 0..bound
  PROVE  /\ More(n, bound) \in 1..bound
         /\ n > 0 => Less(n, bound) \subseteq 0..bound
BY DEF More, Less

\* One step of the loop keeps the invariant.
LEMMA LoopStep ==
  ASSUME LoopInv, [Next]_vars
  PROVE  LoopInv'
<1> USE LoopAssumption
<1>t. TypeOK /\ SlotsRespected /\ NeverStalls
  BY DEF LoopInv
<1>1. CASE Start
  <2>1. running' = TRUE /\ Tick(running', timer, strays)
        /\ UNCHANGED <<immediates, active, drain>>
    BY <1>1 DEF Start
  <2> QED BY <1>t, <2>1, TickStep DEF TypeOK
<1>2. CASE Stop \/ RequestCloses
  <2>1. StopLoop
    BY <1>2, <1>t DEF Stop, RequestCloses, TypeOK
  <2> QED BY <1>t, <2>1
          DEF LoopInv, TypeOK, SlotsRespected, NeverStalls, StopLoop
<1>3. CASE DrainEnds \/ DrainDeadline
  BY <1>3, <1>t DEF LoopInv, TypeOK, SlotsRespected, NeverStalls, DrainEnds,
                    DrainDeadline
<1>4. CASE TimerFires
  <2>1. UNCHANGED <<running, immediates, active, drain>>
        /\ Tick(running, FALSE, strays)
    BY <1>4 DEF TimerFires
  <2>2. Tick(running', FALSE, strays)
    BY <2>1
  <2> QED BY <1>t, <2>1, <2>2, TickStep DEF TypeOK
<1>5. CASE StrayFires
  <2>1. UNCHANGED <<running, immediates, active, drain>>
        /\ strays > 0
    BY <1>5 DEF StrayFires
  <2> PICK s \in Less(strays, MaxStrays) : Tick(running, timer, s)
    BY <1>5 DEF StrayFires
  <2>2. s \in 0..MaxStrays
    BY <1>t, <2>1, Counting DEF TypeOK
  <2>3. Tick(running', timer, s)
    BY <2>1
  <2> QED BY <1>t, <2>1, <2>2, <2>3, TickStep DEF TypeOK
<1>6. CASE ImmediateFires
  <2>1. UNCHANGED <<running, active, drain>>
        /\ immediates > 0 /\ immediates' \in Less(immediates, MaxImmediates)
        /\ Tick(running, timer, strays)
    BY <1>6 DEF ImmediateFires
  <2>2. immediates' \in 0..MaxImmediates
    BY <1>t, <2>1, Counting DEF TypeOK
  <2>3. Tick(running', timer, strays)
    BY <2>1
  <2> QED BY <1>t, <2>1, <2>2, <2>3, TickStep DEF TypeOK
<1>7. CASE AcquireJob
  BY <1>7, <1>t DEF LoopInv, TypeOK, SlotsRespected, NeverStalls, AcquireJob
<1>8. CASE AcquireNothing
  <2>1. timer' = TRUE /\ strays' \in 0..MaxStrays
    BY <1>8, <1>t, Counting DEF AcquireNothing, SetTimer, TypeOK
  <2> QED BY <1>8, <1>t, <2>1
          DEF LoopInv, TypeOK, SlotsRespected, NeverStalls, AcquireNothing
<1>9. CASE JobEnds
  <2>1. immediates' \in 1..MaxImmediates
    BY <1>9, <1>t, Counting DEF JobEnds, TypeOK
  <2> QED BY <1>9, <1>t, <2>1
          DEF LoopInv, TypeOK, SlotsRespected, NeverStalls, JobEnds
<1>10. CASE UNCHANGED vars
  BY <1>10, <1>t DEF LoopInv, TypeOK, SlotsRespected, NeverStalls, vars
<1> QED BY <1>1, <1>2, <1>3, <1>4, <1>5, <1>6, <1>7, <1>8, <1>9, <1>10
        DEF Next

\* The invariant holds throughout.
LEMMA LoopAlways == Spec => []LoopInv
<1>1. Init => LoopInv
  <2> SUFFICES ASSUME Init PROVE LoopInv
    OBVIOUS
  <2>1. TypeOK
    <3>1. running \in BOOLEAN /\ timer \in BOOLEAN
      BY Zenon DEF Init
    <3>2. 0 \in 0..MaxStrays /\ 0 \in 0..MaxImmediates /\ 0 \in Nat
      BY LoopAssumption
    <3> QED BY <3>1, <3>2, Zenon DEF Init, TypeOK
  <2>2. SlotsRespected
    BY LoopAssumption DEF Init, SlotsRespected
  <2>3. NeverStalls
    BY DEF Init, NeverStalls
  <2> QED BY <2>1, <2>2, <2>3 DEF LoopInv
<1>2. LoopInv /\ [Next]_vars => LoopInv'
  BY LoopStep
<1> QED BY <1>1, <1>2, PTL DEF Spec

\* tick() never runs past maxConcurrency, for any number of pending timers,
\* restarts and acquires in flight.
THEOREM LoopRespectsSlots == Spec => []SlotsRespected
<1>1. LoopInv => SlotsRespected
  BY DEF LoopInv
<1> QED BY <1>1, LoopAlways, PTL

\* A running loop always has a callback to come that calls tick() again.
THEOREM LoopNeverStalls == Spec => []NeverStalls
<1>1. LoopInv => NeverStalls
  BY DEF LoopInv
<1> QED BY <1>1, LoopAlways, PTL

\* After stop(), left-over timers and callbacks acquire nothing.
THEOREM LoopStops == Spec => NoAcquireAfterStop
<1>1. LoopInv /\ [Next]_vars =>
        [~running /\ ~running' => pending' <= pending]_vars
  <2> SUFFICES ASSUME LoopInv, Next, ~running, ~running'
               PROVE  pending' <= pending
    BY DEF vars, LoopInv, TypeOK
  <2>1. pending \in Nat /\ running = FALSE
    BY DEF LoopInv, TypeOK
  <2>2. CASE TimerFires \/ StrayFires \/ ImmediateFires
    <3>1. pending' = pending
      BY <2>1, <2>2 DEF TimerFires, StrayFires, ImmediateFires, Tick
    <3> QED BY <2>1, <3>1
  <2>3. CASE AcquireJob \/ AcquireNothing
    BY <2>1, <2>3 DEF AcquireJob, AcquireNothing
  <2>4. CASE Stop \/ RequestCloses \/ DrainEnds \/ DrainDeadline
             \/ JobEnds
    BY <2>1, <2>4 DEF Stop, RequestCloses, StopLoop, DrainEnds,
          DrainDeadline, JobEnds
  <2>5. ~Start
    BY DEF Start
  <2> QED BY <2>2, <2>3, <2>4, <2>5 DEF Next
<1> QED BY <1>1, LoopAlways, PTL DEF Spec, NoAcquireAfterStop

-----------------------------------------------------------------------------
(* The cron checks.                                                          *)

\* The first of the tasks that are due is one of them, and no later than any.
LEMMA FirstDue ==
  ASSUME NEW S \in SUBSET Nat, S # {}
  PROVE  Min(S) \in S /\ \A y \in S : Min(S) <= y
<1>1. PICK x \in S : \A y \in S : ~(<<y, x>> \in OpToRel(<, Nat))
  BY NatLessThanWellFounded, WFMin
<1>2. OpToRel(<, Nat) = {ss \in Nat \X Nat : ss[1] < ss[2]}
  BY DEF OpToRel
<1>3. \A y \in S : x <= y
  <2> TAKE y \in S
  <2>1. <<y, x>> \in {ss \in Nat \X Nat : ss[1] < ss[2]} <=> y < x
    OBVIOUS
  <2>2. ~(y < x)
    BY <1>1, <1>2, <2>1
  <2> QED BY <2>2
<1> QED BY <1>3 DEF Min

LEMMA MinuteOf ==
  ASSUME NEW t \in Nat
  PROVE  /\ Minute(t) \in Nat
         /\ Minute(t) * MinuteLength <= t
BY CronAssumption DEF Minute

LEMMA MinuteMonotone ==
  ASSUME NEW s \in Nat, NEW t \in Nat, s <= t
  PROVE  Minute(s) <= Minute(t)
BY CronAssumption DEF Minute

-----------------------------------------------------------------------------
\* The lock check c asks for, and what it has found out about its task.
LockOf(c) == lock[Keeper(Host[c])][pattern[at[c]]]
Due(c) == ShouldFire(Host[c], at[c], began[c])
Winner(c) == pc[c] = "reply" /\ got[c]
Expression(t) == Interval[pattern[t]] = 0

\* The task of a check that waits for the lock is still due, or its lock is
\* held until after the call.  That of a check that has got the lock is due,
\* and the lock is held until after any call that has begun by now.  A check
\* that enqueues has left its stamp and is the first one of its minute.
CheckInv(c) ==
  /\ pc[c] = "lock" => Due(c) \/ clock + left[c] < LockOf(c)
  /\ Winner(c) => Due(c) /\ clock + left[c] + StoreTime < LockOf(c)
  /\ pc[c] = "enqueue" /\ Expression(at[c]) =>
       /\ lastRun[Host[c]][at[c]] >= Minute(began[c]) * MinuteLength
       /\ fires[Host[c]][at[c]][Minute(began[c])] = 0

\* Two checks of a process that are at one task.
PairInv(c, d) ==
  c # d /\ Host[c] = Host[d] /\ at[c] = at[d] =>
    /\ ~(Winner(c) /\ Winner(d))
    /\ pc[c] = "enqueue" /\ pc[d] = "enqueue" /\ Expression(at[c]) =>
         Minute(began[c]) # Minute(began[d])

\* A task that was enqueued for a minute has the stamp of that minute or of a
\* later one.
FiresInv ==
  \A p \in Processes, t \in Tasks, m \in Minutes :
    Expression(t) =>
      /\ fires[p][t][m] <= 1
      /\ fires[p][t][m] > 0 => lastRun[p][t] >= m * MinuteLength

CronInv ==
  /\ CronTypeOK
  /\ \A c \in Checks : CheckInv(c)
  /\ \A c, d \in Checks : PairInv(c, d)
  /\ FiresInv

-----------------------------------------------------------------------------
(* Types.                                                                  *)

LEMMA KeeperIsProcess ==
  ASSUME NEW p \in Processes
  PROVE  Keeper(p) \in Processes
BY DEF Keeper

\* What Scan does to check c, and that it leaves the others alone.
Same(d) ==
  /\ pc'[d] = pc[d] /\ began'[d] = began[d] /\ at'[d] = at[d]
  /\ got'[d] = got[d] /\ left'[d] = left[d]

CheckTypes ==
  /\ pc \in [Checks -> {"idle", "lock", "reply", "enqueue"}]
  /\ began \in [Checks -> 0..MaxTime]
  /\ at \in [Checks -> 0..NTasks]
  /\ \A c \in Checks : at[c] = 0 <=> pc[c] = "idle"
  /\ got \in [Checks -> BOOLEAN]
  /\ left \in [Checks -> 0..StoreTime]

LEMMA ScanDoes ==
  ASSUME CheckTypes, NEW c \in Checks, NEW from \in Nat \ {0},
         NEW now \in 0..MaxTime, Scan(c, from, now)
  PROVE  /\ CheckTypes'
         /\ \A d \in Checks : d # c => Same(d)
         /\ \/ pc'[c] = "idle" /\ at'[c] = 0
            \/ /\ pc'[c] = "lock" /\ at'[c] \in Tasks /\ began'[c] = now
               /\ ShouldFire(Host[c], at'[c], now)
               /\ at'[c] >= from /\ left'[c] = StoreTime
         /\ \A s \in Tasks : s >= from /\ ShouldFire(Host[c], s, now) =>
              pc'[c] = "lock" /\ began'[c] = now /\ at'[c] <= s
<1> DEFINE due == {t \in from..NTasks : ShouldFire(Host[c], t, now)}
<1>1. CASE due = {}
  <2>1. /\ pc' = [pc EXCEPT ![c] = "idle"] /\ began' = [began EXCEPT ![c] = 0]
        /\ at' = [at EXCEPT ![c] = 0] /\ got' = [got EXCEPT ![c] = FALSE]
        /\ left' = [left EXCEPT ![c] = 0]
    BY <1>1 DEF Scan
  <2>2. ~\E s \in Tasks : s >= from /\ ShouldFire(Host[c], s, now)
    BY <1>1, CronAssumption DEF Tasks
  <2> HIDE DEF due
  <2>3. CheckTypes'
    BY <2>1, CronAssumption DEF CheckTypes
  <2> QED BY <2>1, <2>2, <2>3 DEF CheckTypes, Same
<1>2. CASE due # {}
  <2>1. due \subseteq Nat
    BY CronAssumption
  <2>2. PICK t \in due : t = Min(due) /\ \A s \in due : t <= s
    <3> HIDE DEF due
    <3> QED BY <1>2, <2>1, FirstDue
  <2>3. /\ t \in Tasks /\ t \in 0..NTasks /\ t # 0 /\ t >= from
        /\ ShouldFire(Host[c], t, now)
    BY <2>2, CronAssumption DEF Tasks
  <2>4. /\ pc' = [pc EXCEPT ![c] = "lock"] /\ began' = [began EXCEPT ![c] = now]
        /\ at' = [at EXCEPT ![c] = t] /\ got' = [got EXCEPT ![c] = FALSE]
        /\ left' = [left EXCEPT ![c] = StoreTime]
    BY <1>2, <2>2 DEF Scan
  <2>5. \A s \in Tasks :
          s >= from /\ ShouldFire(Host[c], s, now) => t <= s
    BY <2>2, CronAssumption DEF Tasks
  <2> HIDE DEF due
  <2>6. CheckTypes'
    BY <2>3, <2>4, CronAssumption DEF CheckTypes
  <2> QED BY <2>3, <2>4, <2>5, <2>6 DEF CheckTypes, Same
<1> QED BY <1>1, <1>2

LEMMA OneFire ==
  ASSUME fires \in [Processes -> [Tasks -> [Minutes -> Nat]]],
         NEW h \in Processes, NEW t \in Tasks, NEW m \in Minutes,
         fires' = [fires EXCEPT ![h][t][m] = @ + 1]
  PROVE  /\ fires' \in [Processes -> [Tasks -> [Minutes -> Nat]]]
         /\ \A p \in Processes, s \in Tasks, n \in Minutes :
              fires'[p][s][n] = IF p = h /\ s = t /\ n = m
                                THEN fires[p][s][n] + 1 ELSE fires[p][s][n]
<1>1. PICK f \in [Minutes -> Nat] : f = fires[h][t]
  OBVIOUS
<1>2. PICK g \in [Minutes -> Nat] : g = [f EXCEPT ![m] = @ + 1]
  <2>1. PICK v \in Nat : v = f[m] + 1
    OBVIOUS
  <2>2. [f EXCEPT ![m] = v] \in [Minutes -> Nat]
    OBVIOUS
  <2> QED BY <2>1, <2>2
<1>3. fires' = [fires EXCEPT ![h][t] = g]
  BY <1>1, <1>2
<1>4. \A n \in Minutes : g[n] = IF n = m THEN f[n] + 1 ELSE f[n]
  BY <1>2
<1> QED BY <1>1, <1>3, <1>4

LEMMA CronTypesInit ==
  ASSUME CronInit
  PROVE  CronTypeOK
BY CronAssumption DEF CronInit, CronTypeOK, Never, Tasks

LEMMA CronTypesStep ==
  ASSUME CronTypeOK, [CronNext]_cronVars
  PROVE  CronTypeOK'
<1>1. CheckTypes
  BY DEF CronTypeOK, CheckTypes
<1>2. \A c \in Checks : /\ Host[c] \in Processes /\ began[c] \in 0..MaxTime
                        /\ at[c] + 1 \in Nat \ {0} /\ began[c] \in Nat
  BY CronAssumption DEF CronTypeOK
<1>3. ASSUME CheckTypes',
             pattern' \in [Tasks -> Patterns], clock' \in 0..MaxTime,
             lastRun' \in [Processes -> [Tasks -> -1..MaxTime]],
             lock' \in [Processes -> [Patterns -> Nat]],
             polled' \subseteq Processes,
             fires' \in [Processes -> [Tasks -> [Minutes -> Nat]]],
             dropped' \subseteq Tasks \X Minutes, faults' \in 0..MaxFaults
      PROVE  CronTypeOK'
  BY <1>3 DEF CheckTypes, CronTypeOK, Minutes
<1>4. \A c \in Checks : Minute(began[c]) \in Minutes
  BY <1>2, MinuteOf, MinuteMonotone, CronAssumption DEF Minutes
<1>5. ASSUME NEW c \in Checks, Begin(c) PROVE CronTypeOK'
  <2>1. CheckTypes'
    <3>1. 1 \in Nat \ {0} /\ clock \in 0..MaxTime /\ Scan(c, 1, clock)
      BY <1>5 DEF Begin, CronTypeOK
    <3> QED BY <1>1, <3>1, ScanDoes
  <2>2. polled' \subseteq Processes
    BY <1>2, <1>5 DEF Begin, CronTypeOK
  <2> QED BY <1>3, <1>5, <2>1, <2>2 DEF Begin, CronTypeOK
<1>6. ASSUME NEW c \in Checks, Lock(c) PROVE CronTypeOK'
  <2> DEFINE q == Keeper(Host[c])
             k == pattern[at[c]]
             free == clock >= lock[q][k]
  <2>1. /\ got' = [got EXCEPT ![c] = free]
        /\ lock' = IF free THEN [lock EXCEPT ![q][k] = clock + LockTtl]
                            ELSE lock
        /\ pc' = [pc EXCEPT ![c] = "reply"] /\ pc[c] = "lock"
        /\ UNCHANGED <<pattern, clock, lastRun, began, at, left, polled, fires,
                       dropped, faults>>
    BY <1>6 DEF Lock
  <2>2. clock + LockTtl \in Nat /\ free \in BOOLEAN
    BY CronAssumption DEF CronTypeOK
  <2> HIDE DEF q, k, free
  <2>3. lock' \in [Processes -> [Patterns -> Nat]]
    BY <2>1, <2>2 DEF CronTypeOK
  <2>4. CheckTypes'
    BY <1>1, <2>1, <2>2 DEF CheckTypes
  <2> QED BY <1>3, <2>1, <2>3, <2>4 DEF CronTypeOK
<1>7. ASSUME NEW c \in Checks, Won(c) PROVE CronTypeOK'
  <2>1. lastRun' \in [Processes -> [Tasks -> -1..MaxTime]]
    <3>1. began[c] \in -1..MaxTime
      BY <1>2, CronAssumption
    <3> QED BY <1>7, <3>1 DEF Won, CronTypeOK
  <2>2. CheckTypes'
    BY <1>1, <1>7, CronAssumption DEF CheckTypes, Won
  <2> QED BY <1>3, <1>7, <2>1, <2>2 DEF Won, CronTypeOK
<1>8. ASSUME NEW c \in Checks, Lost(c) PROVE CronTypeOK'
  <2>1. CheckTypes'
    BY <1>1, <1>2, <1>8, ScanDoes DEF Lost
  <2>2. faults' \in 0..MaxFaults
    BY <1>8, CronAssumption DEF Lost, CronTypeOK
  <2> QED BY <1>3, <1>8, <2>1, <2>2 DEF Lost, CronTypeOK
<1>9. ASSUME NEW c \in Checks, Enqueue(c) PROVE CronTypeOK'
  <2>1. CheckTypes'
    BY <1>1, <1>2, <1>9, ScanDoes DEF Enqueue
  <2>2. fires' \in [Processes -> [Tasks -> [Minutes -> Nat]]]
    <3>1. at[c] \in Tasks
      BY <1>9, CronAssumption DEF Enqueue, CronTypeOK, Tasks
    <3> QED BY <1>2, <1>4, <1>9, <3>1, OneFire DEF Enqueue, CronTypeOK
  <2> QED BY <1>3, <1>9, <2>1, <2>2 DEF Enqueue, CronTypeOK
<1>10. ASSUME NEW c \in Checks, EnqueueRejects(c) PROVE CronTypeOK'
  <2>1. CheckTypes'
    <3>1. NTasks + 1 \in Nat \ {0}
      BY CronAssumption
    <3> QED BY <1>1, <1>2, <1>10, <3>1, ScanDoes DEF EnqueueRejects
  <2>2. faults' \in 0..MaxFaults
    BY <1>10, CronAssumption DEF EnqueueRejects, CronTypeOK
  <2>3. at[c] \in Tasks
    BY <1>10, CronAssumption DEF EnqueueRejects, CronTypeOK, Tasks
  <2>4. dropped' \subseteq Tasks \X Minutes
    BY <1>4, <1>10, <2>3 DEF EnqueueRejects, CronTypeOK
  <2> QED BY <1>3, <1>10, <2>1, <2>2, <2>4 DEF EnqueueRejects, CronTypeOK
<1>11. CASE CronTick
  <2>1. CheckTypes'
    BY <1>1, <1>11, CronAssumption DEF CheckTypes, CronTick
  <2>2. clock' \in 0..MaxTime
    BY <1>11, CronAssumption DEF CronTick, CronTypeOK
  <2> QED BY <1>3, <1>11, <2>1, <2>2 DEF CronTick, CronTypeOK
<1>12. CASE UNCHANGED cronVars
  BY <1>12 DEF cronVars, CronTypeOK, Minutes
<1> QED BY <1>5, <1>6, <1>7, <1>8, <1>9, <1>10, <1>11, <1>12 DEF CronNext

\* Types of what is looked up along the way.
LEMMA Lookups ==
  ASSUME CronTypeOK, NEW c \in Checks
  PROVE  /\ Host[c] \in Processes /\ Keeper(Host[c]) \in Processes
         /\ began[c] \in Nat /\ Minute(began[c]) \in Minutes
         /\ left[c] \in Nat /\ left[c] <= StoreTime
         /\ clock \in Nat
         /\ pc[c] # "idle" => /\ at[c] \in Tasks
                              /\ pattern[at[c]] \in Patterns
                              /\ LockOf(c) \in Nat
                              /\ lastRun[Host[c]][at[c]] \in Int
<1>1. Host[c] \in Processes /\ Keeper(Host[c]) \in Processes
  BY CronAssumption, KeeperIsProcess
<1>2. began[c] \in Nat /\ began[c] <= MaxTime
  BY CronAssumption DEF CronTypeOK
<1>3. Minute(began[c]) \in Minutes
  BY <1>2, MinuteOf, MinuteMonotone, CronAssumption DEF Minutes
<1>4. left[c] \in Nat /\ left[c] <= StoreTime /\ clock \in Nat
  BY CronAssumption DEF CronTypeOK
<1>5. ASSUME pc[c] # "idle"
      PROVE  /\ at[c] \in Tasks /\ pattern[at[c]] \in Patterns
             /\ LockOf(c) \in Nat /\ lastRun[Host[c]][at[c]] \in Int
  <2>1. at[c] \in Tasks
    BY <1>5, CronAssumption DEF CronTypeOK, Tasks
  <2>2. pattern[at[c]] \in Patterns
    BY <2>1 DEF CronTypeOK
  <2>3. LockOf(c) \in Nat
    BY <1>1, <2>2 DEF CronTypeOK, LockOf
  <2>4. lastRun[Host[c]][at[c]] \in -1..MaxTime
    BY <1>1, <2>1 DEF CronTypeOK
  <2> QED BY <2>1, <2>2, <2>3, <2>4, CronAssumption
<1> QED BY <1>1, <1>2, <1>3, <1>4, <1>5

-----------------------------------------------------------------------------
(* Other checks.                                                           *)

LEMMA SameDue ==
  ASSUME NEW d \in Checks, Same(d), pattern' = pattern,
         lastRun'[Host[d]][at[d]] = lastRun[Host[d]][at[d]]
  PROVE  Due(d)' <=> Due(d)
BY DEF Due, ShouldFire, Same, Minute

\* A check that does nothing is not disturbed by one that neither stamps nor
\* enqueues what it is at.
LEMMA OtherCheck ==
  ASSUME CronTypeOK, NEW d \in Checks, CheckInv(d), Same(d),
         pattern' = pattern, clock' = clock,
         pc[d] # "idle" =>
           /\ lastRun'[Host[d]][at[d]] = lastRun[Host[d]][at[d]]
           /\ lock'[Keeper(Host[d])][pattern[at[d]]] \in Nat
           /\ lock'[Keeper(Host[d])][pattern[at[d]]] >= LockOf(d),
         pc[d] = "enqueue" /\ Expression(at[d]) =>
           fires'[Host[d]][at[d]][Minute(began[d])] = 0
  PROVE  CheckInv(d)'
<1>1. CASE pc[d] = "idle"
  BY <1>1 DEF CheckInv, Winner, Same
<1>2. CASE pc[d] # "idle"
  <2>1. Due(d)' <=> Due(d)
    BY <1>2, SameDue
  <2>2. /\ LockOf(d)' = lock'[Keeper(Host[d])][pattern[at[d]]]
        /\ LockOf(d)' >= LockOf(d) /\ LockOf(d)' \in Nat
    BY <1>2 DEF LockOf, Same, Keeper
  <2>3. /\ left[d] \in Nat /\ clock \in Nat /\ LockOf(d) \in Nat
        /\ StoreTime \in Nat
    BY <1>2, Lookups, CronAssumption
  <2>4. pc'[d] = "lock" => Due(d)' \/ clock' + left'[d] < LockOf(d)'
    BY <2>1, <2>2, <2>3 DEF CheckInv, Same
  <2>5. Winner(d)' =>
          Due(d)' /\ clock' + left'[d] + StoreTime < LockOf(d)'
    BY <2>1, <2>2, <2>3 DEF CheckInv, Same, Winner
  <2>6. pc'[d] = "enqueue" /\ Expression(at[d])' =>
          /\ lastRun'[Host[d]][at'[d]] >= Minute(began'[d]) * MinuteLength
          /\ fires'[Host[d]][at'[d]][Minute(began'[d])] = 0
    BY <1>2 DEF CheckInv, Same, Expression
  <2> QED BY <2>4, <2>5, <2>6 DEF CheckInv, Minute
<1> QED BY <1>1, <1>2

LEMMA OtherPair ==
  ASSUME NEW c \in Checks, NEW d \in Checks, PairInv(c, d), Same(c), Same(d),
         pattern' = pattern
  PROVE  PairInv(c, d)'
BY DEF PairInv, Same, Winner, Expression, Minute

\* A check that goes on to another task, or ends.
LEMMA ScanKeeps ==
  ASSUME CronInv, NEW c \in Checks, NEW from \in Nat \ {0},
         NEW now \in 0..MaxTime, Scan(c, from, now),
         UNCHANGED <<pattern, clock, lastRun, lock>>,
         \A d \in Checks : d # c /\ pc[d] = "enqueue" /\ Expression(at[d]) =>
           fires'[Host[d]][at[d]][Minute(began[d])] = 0
  PROVE  /\ \A d \in Checks : CheckInv(d)'
         /\ \A d, e \in Checks : PairInv(d, e)'
<1>1. CronTypeOK /\ CheckTypes
  BY DEF CronInv, CronTypeOK, CheckTypes
<1>2. /\ \A d \in Checks : d # c => Same(d)
      /\ \/ pc'[c] = "idle" /\ at'[c] = 0
         \/ /\ pc'[c] = "lock" /\ at'[c] \in Tasks /\ began'[c] = now
            /\ ShouldFire(Host[c], at'[c], now)
  BY <1>1, ScanDoes
<1>3. ASSUME NEW d \in Checks PROVE CheckInv(d)'
  <2>1. CASE d # c
    <3>1. Same(d) /\ CheckInv(d)
      BY <1>2, <2>1 DEF CronInv
    <3>2. pc[d] # "idle" => LockOf(d) \in Nat
      BY <1>1, Lookups
    <3>3. pc[d] # "idle" =>
            /\ lastRun'[Host[d]][at[d]] = lastRun[Host[d]][at[d]]
            /\ lock'[Keeper(Host[d])][pattern[at[d]]] \in Nat
            /\ lock'[Keeper(Host[d])][pattern[at[d]]] >= LockOf(d)
      BY <3>2 DEF LockOf
    <3> QED BY <1>1, <2>1, <3>1, <3>3, OtherCheck
  <2>2. CASE d = c
    <3>1. pc'[c] = "lock" => Due(c)'
      <4>1. \A p, t, n : ShouldFire(p, t, n)' <=> ShouldFire(p, t, n)
        BY DEF ShouldFire, Minute
      <4>2. Due(c)' <=> ShouldFire(Host[c], at'[c], began'[c])
        BY <4>1 DEF Due, ShouldFire, Minute
      <4> QED BY <1>2, <4>2
    <3> QED BY <1>2, <2>2, <3>1 DEF CheckInv, Winner
  <2> QED BY <2>1, <2>2
<1>4. ASSUME NEW d \in Checks, NEW e \in Checks PROVE PairInv(d, e)'
  <2>1. CASE d # c /\ e # c
    BY <1>2, <2>1, OtherPair DEF CronInv
  <2>2. CASE d = c \/ e = c
    BY <1>2, <2>2 DEF PairInv, Winner
  <2> QED BY <2>1, <2>2
<1> QED BY <1>3, <1>4

-----------------------------------------------------------------------------
(* The steps.                                                              *)

\* The lock outlives its own reply and a call that had begun before it: with
\* less, a check may get the lock after another has let it expire and before
\* that one's stamp is in lastRun.
LockOutlivesCalls == LockTtl > 2 * StoreTime

LEMMA BeginKeeps ==
  ASSUME CronInv, CronTypeOK', NEW c \in Checks, Begin(c)
  PROVE  CronInv'
<1>1. /\ 1 \in Nat \ {0} /\ clock \in 0..MaxTime /\ Scan(c, 1, clock)
      /\ UNCHANGED <<pattern, clock, lastRun, lock, fires>>
  BY DEF Begin, CronInv, CronTypeOK
<1>2. \A d \in Checks : d # c /\ pc[d] = "enqueue" /\ Expression(at[d]) =>
        fires'[Host[d]][at[d]][Minute(began[d])] = 0
  BY <1>1 DEF CronInv, CheckInv
<1>3. /\ \A d \in Checks : CheckInv(d)'
      /\ \A d, e \in Checks : PairInv(d, e)'
  BY <1>1, <1>2, ScanKeeps
<1>4. FiresInv'
  BY <1>1 DEF CronInv, FiresInv, Minutes, Minute, Expression
<1> QED BY <1>3, <1>4 DEF CronInv

LEMMA LostKeeps ==
  ASSUME CronInv, CronTypeOK', NEW c \in Checks,
         Lost(c) \/ EnqueueRejects(c)
  PROVE  CronInv'
<1>1. PICK from \in Nat \ {0} : Scan(c, from, began[c])
  <2>1. at[c] + 1 \in Nat \ {0} /\ NTasks + 1 \in Nat \ {0}
    BY CronAssumption DEF CronInv, CronTypeOK
  <2> QED BY <2>1 DEF Lost, EnqueueRejects
<1>2. /\ UNCHANGED <<pattern, clock, lastRun, lock, fires>>
      /\ began[c] \in 0..MaxTime
  BY DEF Lost, EnqueueRejects, CronInv, CronTypeOK
<1>3. \A d \in Checks : d # c /\ pc[d] = "enqueue" /\ Expression(at[d]) =>
        fires'[Host[d]][at[d]][Minute(began[d])] = 0
  BY <1>2 DEF CronInv, CheckInv
<1>4. /\ \A d \in Checks : CheckInv(d)'
      /\ \A d, e \in Checks : PairInv(d, e)'
  BY <1>1, <1>2, <1>3, ScanKeeps
<1>5. FiresInv'
  BY <1>2 DEF CronInv, FiresInv, Minutes, Minute, Expression
<1> QED BY <1>4, <1>5 DEF CronInv

LEMMA EnqueueKeeps ==
  ASSUME CronInv, CronTypeOK', NEW c \in Checks, Enqueue(c)
  PROVE  CronInv'
<1>1. CronTypeOK
  BY DEF CronInv
<1>2. PICK h \in Processes, t \in Tasks, m \in Minutes :
        h = Host[c] /\ t = at[c] /\ m = Minute(began[c])
  BY <1>1, Lookups DEF Enqueue
<1>3. \A p \in Processes, s \in Tasks, n \in Minutes :
        fires'[p][s][n] = IF p = h /\ s = t /\ n = m
                          THEN fires[p][s][n] + 1 ELSE fires[p][s][n]
  <2>1. fires' = [fires EXCEPT ![h][t][m] = @ + 1]
    BY <1>2 DEF Enqueue
  <2> QED BY <1>1, <2>1, OneFire DEF CronTypeOK
<1>4. /\ UNCHANGED <<pattern, clock, lastRun, lock>>
      /\ began[c] \in 0..MaxTime /\ at[c] + 1 \in Nat \ {0}
      /\ Scan(c, at[c] + 1, began[c])
  BY CronAssumption DEF Enqueue, CronInv, CronTypeOK
<1>5. ASSUME NEW d \in Checks, d # c, pc[d] = "enqueue", Expression(at[d])
      PROVE  fires'[Host[d]][at[d]][Minute(began[d])] = 0
  <2>1. /\ Host[d] \in Processes /\ at[d] \in Tasks
        /\ Minute(began[d]) \in Minutes
    BY <1>1, <1>5, Lookups
  <2>2. ~(Host[d] = h /\ at[d] = t /\ Minute(began[d]) = m)
    BY <1>2, <1>5 DEF CronInv, PairInv, Enqueue
  <2>3. fires[Host[d]][at[d]][Minute(began[d])] = 0
    BY <1>5 DEF CronInv, CheckInv
  <2> QED BY <1>3, <2>1, <2>2, <2>3
<1>6. /\ \A d \in Checks : CheckInv(d)'
      /\ \A d, e \in Checks : PairInv(d, e)'
  BY <1>4, <1>5, ScanKeeps
<1>7. ASSUME NEW p \in Processes, NEW s \in Tasks, NEW n \in Minutes,
             Expression(s)
      PROVE  /\ fires'[p][s][n] <= 1
             /\ fires'[p][s][n] > 0 => lastRun[p][s] >= n * MinuteLength
  <2>1. CASE p = h /\ s = t /\ n = m
    <3>1. fires[p][s][n] = 0 /\ lastRun[p][s] >= n * MinuteLength
      BY <1>2, <1>7, <2>1 DEF CronInv, CheckInv, Enqueue
    <3>2. fires'[p][s][n] = 1
      BY <1>3, <2>1, <3>1
    <3> QED BY <3>1, <3>2
  <2>2. CASE ~(p = h /\ s = t /\ n = m)
    <3>1. fires'[p][s][n] = fires[p][s][n]
      BY <1>3, <2>2
    <3> QED BY <1>7, <3>1 DEF CronInv, FiresInv
  <2> QED BY <2>1, <2>2
<1>8. FiresInv'
  BY <1>4, <1>7 DEF FiresInv, Minutes, Minute, Expression
<1> QED BY <1>6, <1>8 DEF CronInv

LEMMA LockKeeps ==
  ASSUME LockOutlivesCalls, CronInv, CronTypeOK', NEW c \in Checks, Lock(c)
  PROVE  CronInv'
<1>1. CronTypeOK /\ StoreTime \in Nat /\ LockTtl \in Nat
  BY CronAssumption DEF CronInv
<1>2. PICK q \in Processes, k \in Patterns :
        q = Keeper(Host[c]) /\ k = pattern[at[c]]
  BY <1>1, Lookups DEF Lock
<1>3. LockOf(c) = lock[q][k] /\ LockOf(c) \in Nat /\ clock \in Nat
      /\ left[c] \in Nat /\ left[c] <= StoreTime
  BY <1>1, <1>2, Lookups DEF Lock, LockOf
<1> DEFINE free == clock >= lock[q][k]
<1>4. /\ got' = [got EXCEPT ![c] = free]
      /\ lock' = IF free THEN [lock EXCEPT ![q][k] = clock + LockTtl] ELSE lock
      /\ pc' = [pc EXCEPT ![c] = "reply"] /\ pc[c] = "lock"
      /\ UNCHANGED <<pattern, clock, lastRun, began, at, left, fires>>
  BY <1>2 DEF Lock
<1>5. \A d \in Checks : d # c => Same(d)
  BY <1>1, <1>4 DEF Same, CronTypeOK
<1>6. got'[c] = free /\ pc'[c] = "reply"
  BY <1>1, <1>4 DEF CronTypeOK
<1>7. \A p \in Processes, l \in Patterns :
        lock'[p][l] >= lock[p][l] /\ lock'[p][l] \in Nat
  BY <1>1, <1>3, <1>4 DEF CronTypeOK
<1>8. free => lock'[q][k] = clock + LockTtl
  BY <1>1, <1>4 DEF CronTypeOK
<1> HIDE DEF free
<1>9. free => Due(c)
  BY <1>3, <1>4 DEF CronInv, CheckInv, free
<1>10. CheckInv(c)'
  <2>1. Due(c)' <=> Due(c)
    BY <1>4 DEF Due, ShouldFire, Minute
  <2>2. LockOf(c)' = lock'[q][k]
    BY <1>2, <1>4 DEF LockOf, Keeper
  <2>3. free => clock' + left'[c] + StoreTime < LockOf(c)'
    BY <1>1, <1>3, <1>4, <1>8, <2>2 DEF LockOutlivesCalls
  <2>4. Winner(c)' => free
    BY <1>6 DEF Winner
  <2> QED BY <1>6, <1>9, <2>1, <2>3, <2>4 DEF CheckInv
<1>11. ASSUME NEW d \in Checks, d # c PROVE CheckInv(d)'
  <2>1. Same(d) /\ CheckInv(d)
    BY <1>5, <1>11 DEF CronInv
  <2>2. pc[d] # "idle" =>
          /\ lastRun'[Host[d]][at[d]] = lastRun[Host[d]][at[d]]
          /\ lock'[Keeper(Host[d])][pattern[at[d]]] \in Nat
          /\ lock'[Keeper(Host[d])][pattern[at[d]]] >= LockOf(d)
    BY <1>1, <1>4, <1>7, Lookups DEF LockOf
  <2>3. pc[d] = "enqueue" /\ Expression(at[d]) =>
          fires'[Host[d]][at[d]][Minute(began[d])] = 0
    BY <1>4, <2>1 DEF CheckInv
  <2> QED BY <1>1, <1>4, <2>1, <2>2, <2>3, OtherCheck
<1>12. ASSUME NEW d \in Checks, d # c, Host[d] = Host[c], at[d] = at[c],
              Winner(d)
       PROVE  ~free
  <2>1. clock + left[d] + StoreTime < LockOf(d)
    BY <1>12 DEF CronInv, CheckInv
  <2>2. LockOf(d) = lock[q][k]
    BY <1>2, <1>12 DEF LockOf
  <2>3. left[d] \in Nat
    BY <1>1, Lookups
  <2> QED BY <1>1, <1>3, <2>1, <2>2, <2>3 DEF free
<1>13. ASSUME NEW d \in Checks, NEW e \in Checks PROVE PairInv(d, e)'
  <2>1. CASE d # c /\ e # c
    BY <1>4, <1>5, <2>1, OtherPair DEF CronInv
  <2>2. CASE d = c /\ e # c
    <3>1. Winner(c)' => free
      BY <1>6 DEF Winner
    <3>2. Winner(e)' <=> Winner(e)
      BY <1>5, <2>2 DEF Same, Winner
    <3>3. at'[e] = at[e] /\ at'[c] = at[c]
      BY <1>4
    <3> QED BY <1>6, <1>12, <2>2, <3>1, <3>2, <3>3 DEF PairInv
  <2>3. CASE d # c /\ e = c
    <3>1. Winner(c)' => free
      BY <1>6 DEF Winner
    <3>2. Winner(d)' <=> Winner(d)
      BY <1>5, <2>3 DEF Same, Winner
    <3>3. at'[d] = at[d] /\ at'[c] = at[c]
      BY <1>4
    <3> QED BY <1>6, <1>12, <2>3, <3>1, <3>2, <3>3 DEF PairInv
  <2>4. CASE d = e
    BY <2>4 DEF PairInv
  <2> QED BY <2>1, <2>2, <2>3, <2>4
<1>14. FiresInv'
  BY <1>4 DEF CronInv, FiresInv, Minutes, Minute, Expression
<1> QED BY <1>10, <1>11, <1>13, <1>14 DEF CronInv

\* The stamp of a task that is due is older than a check's "now": by a whole
\* interval, or by the beginning of the minute.
LEMMA StampGrows ==
  ASSUME CronTypeOK, NEW c \in Checks, pc[c] # "idle", Due(c)
  PROVE  /\ lastRun[Host[c]][at[c]] <= began[c]
         /\ \/ lastRun[Host[c]][at[c]] = Never
            \/ lastRun[Host[c]][at[c]] + Interval[pattern[at[c]]] <= began[c]
         /\ Expression(at[c]) =>
              lastRun[Host[c]][at[c]] < Minute(began[c]) * MinuteLength
<1>1. PICK run \in Int : run = lastRun[Host[c]][at[c]]
  BY Lookups
<1>2. PICK i \in Nat : i = Interval[pattern[at[c]]]
  BY Lookups, CronAssumption
<1>3. PICK n \in Nat : n = began[c]
  BY Lookups
<1>4. PICK start \in Nat : start = Minute(n) * MinuteLength /\ start <= n
  <2>1. Minute(n) \in Nat /\ MinuteLength \in Nat
    BY MinuteOf, CronAssumption
  <2>2. Minute(n) * MinuteLength \in Nat
    BY <2>1
  <2> QED BY <2>2, MinuteOf
<1>5. IF i > 0 THEN run = Never \/ n - run >= i
               ELSE run = Never \/ run < start
  BY <1>1, <1>2, <1>3, <1>4 DEF Due, ShouldFire
<1>6. run <= n /\ (run = Never \/ run + i <= n) /\ (i = 0 => run < start)
  BY <1>4, <1>5 DEF Never
<1> QED BY <1>1, <1>2, <1>3, <1>4, <1>6 DEF Expression

LEMMA WonKeeps ==
  ASSUME CronInv, CronTypeOK', NEW c \in Checks, Won(c)
  PROVE  CronInv'
<1>1. CronTypeOK /\ StoreTime \in Nat /\ pc[c] # "idle" /\ Winner(c)
  BY CronAssumption DEF CronInv, Won, Winner
<1>2. PICK h \in Processes, t \in Tasks : h = Host[c] /\ t = at[c]
  BY <1>1, Lookups
<1>3. /\ lastRun' = [lastRun EXCEPT ![h][t] = began[c]]
      /\ pc' = [pc EXCEPT ![c] = "enqueue"]
      /\ left' = [left EXCEPT ![c] = StoreTime]
      /\ UNCHANGED <<pattern, clock, lock, began, at, got, fires>>
  BY <1>2 DEF Won
<1>4. \A d \in Checks : d # c => Same(d)
  BY <1>1, <1>3 DEF Same, CronTypeOK
<1>5. Due(c) /\ clock + left[c] + StoreTime < LockOf(c)
  BY <1>1 DEF CronInv, CheckInv
<1>6. /\ lastRun[h][t] <= began[c]
      /\ Expression(t) => lastRun[h][t] < Minute(began[c]) * MinuteLength
  BY <1>1, <1>2, <1>5, StampGrows
<1>7. /\ \A p \in Processes, s \in Tasks :
           lastRun'[p][s] = IF p = h /\ s = t THEN began[c] ELSE lastRun[p][s]
  BY <1>1, <1>3 DEF CronTypeOK
<1>8. \A p \in Processes, s \in Tasks :
        lastRun[p][s] \in Int /\ lastRun'[p][s] \in Int
        /\ lastRun'[p][s] >= lastRun[p][s]
  <2>1. \A p \in Processes, s \in Tasks : lastRun[p][s] \in -1..MaxTime
    BY <1>1 DEF CronTypeOK
  <2>2. began[c] \in Nat
    BY <1>1, Lookups
  <2> QED BY <1>6, <1>7, <2>1, <2>2, CronAssumption
<1>9. /\ began[c] \in Nat /\ Minute(began[c]) \in Minutes
      /\ Minute(began[c]) \in Nat
      /\ began[c] >= Minute(began[c]) * MinuteLength
  BY <1>1, Lookups, MinuteOf
<1>10. FiresInv'
  <2>1. ASSUME NEW p \in Processes, NEW s \in Tasks, NEW n \in Minutes,
               Expression(s), fires[p][s][n] > 0
        PROVE  lastRun'[p][s] >= n * MinuteLength
    <3>1. lastRun[p][s] >= n * MinuteLength
      BY <2>1 DEF CronInv, FiresInv
    <3>2. n * MinuteLength \in Int
      BY CronAssumption DEF Minutes
    <3> QED BY <1>8, <3>1, <3>2
  <2> QED BY <1>3, <2>1 DEF CronInv, FiresInv, Minutes, Minute, Expression
<1>11. ASSUME Expression(t) PROVE fires[h][t][Minute(began[c])] = 0
  <2>1. ~(lastRun[h][t] >= Minute(began[c]) * MinuteLength)
    <3>1. Minute(began[c]) * MinuteLength \in Int
      BY <1>9, CronAssumption
    <3> QED BY <1>6, <1>8, <1>11, <3>1
  <2>2. ~(fires[h][t][Minute(began[c])] > 0)
    BY <1>9, <1>11, <2>1 DEF CronInv, FiresInv
  <2>3. fires[h][t][Minute(began[c])] \in Nat
    BY <1>1, <1>9 DEF CronTypeOK
  <2> QED BY <2>2, <2>3
<1>12. CheckInv(c)'
  <2>1. pc'[c] = "enqueue" /\ at'[c] = t /\ began'[c] = began[c]
    BY <1>1, <1>2, <1>3 DEF CronTypeOK
  <2>2. lastRun'[h][t] = began[c]
    BY <1>7
  <2>3. Expression(at[c])' <=> Expression(t)
    BY <1>2, <1>3 DEF Expression
  <2> QED BY <1>2, <1>3, <1>9, <1>11, <2>1, <2>2, <2>3
          DEF CheckInv, Winner, Minute
<1>13. ASSUME NEW d \in Checks, d # c PROVE CheckInv(d)'
  <2>1. Same(d) /\ CheckInv(d)
    BY <1>4, <1>13 DEF CronInv
  <2>2. CASE pc[d] = "idle" \/ ~(Host[d] = h /\ at[d] = t)
    <3>1. pc[d] # "idle" =>
            /\ lastRun'[Host[d]][at[d]] = lastRun[Host[d]][at[d]]
            /\ lock'[Keeper(Host[d])][pattern[at[d]]] \in Nat
            /\ lock'[Keeper(Host[d])][pattern[at[d]]] >= LockOf(d)
      BY <1>1, <1>3, <1>7, <2>2, Lookups DEF LockOf
    <3>2. pc[d] = "enqueue" /\ Expression(at[d]) =>
            fires'[Host[d]][at[d]][Minute(began[d])] = 0
      BY <1>3, <2>1 DEF CheckInv
    <3> QED BY <1>1, <1>3, <2>1, <3>1, <3>2, OtherCheck
  <2>3. CASE pc[d] # "idle" /\ Host[d] = h /\ at[d] = t
    <3>1. ~Winner(d) /\ ~Winner(d)'
      BY <1>1, <1>2, <1>13, <2>1, <2>3 DEF CronInv, PairInv, Same, Winner
    <3>2. clock' + left'[d] < LockOf(d)'
      <4>1. LockOf(d)' = LockOf(c)
        BY <1>2, <1>3, <2>1, <2>3 DEF LockOf, Keeper, Same
      <4>2. /\ left[d] \in Nat /\ left[d] <= StoreTime /\ clock \in Nat
            /\ left[c] \in Nat /\ LockOf(c) \in Nat
        BY <1>1, Lookups
      <4> QED BY <1>1, <1>3, <1>5, <2>1, <4>1, <4>2 DEF Same
    <3>3. ASSUME pc[d] = "enqueue", Expression(t)
          PROVE  /\ lastRun'[h][t] >= Minute(began[d]) * MinuteLength
                 /\ fires[h][t][Minute(began[d])] = 0
      <4>1. /\ lastRun[h][t] >= Minute(began[d]) * MinuteLength
            /\ fires[h][t][Minute(began[d])] = 0
        BY <2>1, <2>3, <3>3 DEF CheckInv
      <4>2. Minute(began[d]) * MinuteLength \in Int
        BY <1>1, Lookups, MinuteOf, CronAssumption
      <4> QED BY <1>8, <4>1, <4>2
    <3>4. /\ pc'[d] = pc[d] /\ at'[d] = t /\ began'[d] = began[d]
          /\ Expression(at[d])' <=> Expression(t)
      BY <1>3, <2>1, <2>3 DEF Same, Expression
    <3> QED BY <1>3, <2>3, <3>1, <3>2, <3>3, <3>4 DEF CheckInv, Minute
  <2> QED BY <2>2, <2>3
<1>14. ASSUME NEW d \in Checks, d # c, Host[d] = h, at[d] = t,
              pc[d] = "enqueue", Expression(t)
       PROVE  Minute(began[d]) # Minute(began[c])
  <2>1. lastRun[h][t] >= Minute(began[d]) * MinuteLength
    BY <1>14 DEF CronInv, CheckInv
  <2>2. /\ Minute(began[d]) * MinuteLength \in Int
        /\ Minute(began[c]) * MinuteLength \in Int
    BY <1>1, Lookups, MinuteOf, CronAssumption
  <2>3. Minute(began[d]) * MinuteLength # Minute(began[c]) * MinuteLength
    BY <1>6, <1>8, <1>14, <2>1, <2>2
  <2> QED BY <2>3
<1>15. ASSUME NEW d \in Checks, NEW e \in Checks PROVE PairInv(d, e)'
  <2>1. CASE d # c /\ e # c
    BY <1>3, <1>4, <2>1, OtherPair DEF CronInv
  <2>2. pc'[c] = "enqueue" /\ ~Winner(c)'
    BY <1>1, <1>3 DEF CronTypeOK, Winner
  <2>3. Expression(t)' <=> Expression(t)
    BY <1>3 DEF Expression
  <2>4. CASE d = c /\ e # c
    <3>1. pc'[e] = pc[e]
      BY <1>4, <2>4 DEF Same
    <3> QED BY <1>2, <1>3, <1>14, <2>2, <2>3, <2>4, <3>1
            DEF PairInv, Minute, Expression
  <2>5. CASE d # c /\ e = c
    <3>1. pc'[d] = pc[d]
      BY <1>4, <2>5 DEF Same
    <3> QED BY <1>2, <1>3, <1>14, <2>2, <2>3, <2>5, <3>1
            DEF PairInv, Minute, Expression
  <2>6. CASE d = e
    BY <2>6 DEF PairInv
  <2> QED BY <2>1, <2>4, <2>5, <2>6
<1> QED BY <1>10, <1>12, <1>13, <1>15 DEF CronInv

\* While time passes the deadline of a call stays where it is.
LEMMA CronTickKeeps ==
  ASSUME CronInv, CronTypeOK', CronTick
  PROVE  CronInv'
<1>1. CronTypeOK /\ StoreTime \in Nat
  BY CronAssumption DEF CronInv
<1>2. /\ UNCHANGED <<pattern, lastRun, lock, pc, began, at, got, fires>>
      /\ clock' = clock + 1
  BY DEF CronTick
<1>3. \A d \in Checks : pc[d] # "idle" => left'[d] = left[d] - 1
  BY DEF CronTick
<1>4. ASSUME NEW d \in Checks PROVE CheckInv(d)'
  <2>1. CheckInv(d)
    BY DEF CronInv
  <2>2. /\ Due(d)' <=> Due(d)
        /\ LockOf(d)' = LockOf(d)
        /\ Winner(d)' <=> Winner(d)
        /\ Expression(at[d])' <=> Expression(at[d])
    BY <1>2 DEF Due, ShouldFire, Minute, LockOf, Keeper, Winner, Expression
  <2>3. pc[d] # "idle" => clock' + left'[d] = clock + left[d]
    BY <1>1, <1>2, <1>3, Lookups
  <2>4. Winner(d) => pc[d] # "idle"
    BY DEF Winner
  <2> QED BY <1>2, <2>1, <2>2, <2>3, <2>4 DEF CheckInv, Minute
<1>5. \A d, e \in Checks : PairInv(d, e)'
  BY <1>2 DEF CronInv, PairInv, Winner, Expression, Minute
<1>6. FiresInv'
  BY <1>2 DEF CronInv, FiresInv, Minutes, Minute, Expression
<1> QED BY <1>4, <1>5, <1>6 DEF CronInv

LEMMA CronStart ==
  ASSUME CronInit
  PROVE  CronInv
<1>1. CronTypeOK
  BY CronTypesInit
<1>2. \A c \in Checks : pc[c] = "idle"
  BY DEF CronInit
<1>3. FiresInv
  BY DEF CronInit, FiresInv
<1> QED BY <1>1, <1>2, <1>3 DEF CronInv, CheckInv, PairInv, Winner

LEMMA CronStep ==
  ASSUME LockOutlivesCalls, CronInv, [CronNext]_cronVars
  PROVE  CronInv'
<1>1. CronTypeOK'
  BY CronTypesStep DEF CronInv
<1>2. ASSUME UNCHANGED cronVars PROVE CronInv'
  <2>1. UNCHANGED <<pattern, clock, lastRun, lock, pc, began, at, got, left,
                    fires>>
    BY <1>2 DEF cronVars
  <2>2. \A d \in Checks : CheckInv(d)'
    BY <2>1 DEF CronInv, CheckInv, Due, ShouldFire, Minute, LockOf, Keeper,
                Winner, Expression
  <2>3. \A d, e \in Checks : PairInv(d, e)'
    BY <2>1 DEF CronInv, PairInv, Winner, Expression, Minute
  <2>4. FiresInv'
    BY <2>1 DEF CronInv, FiresInv, Minutes, Minute, Expression
  <2> QED BY <1>1, <2>2, <2>3, <2>4 DEF CronInv
<1> QED BY <1>1, <1>2, BeginKeeps, LockKeeps, WonKeeps, LostKeeps,
           EnqueueKeeps, CronTickKeeps DEF CronNext

-----------------------------------------------------------------------------
(* Theorems.                                                               *)

\* The tasks, locks and checks of checkCronSchedules stay well typed.
THEOREM CronTypes == CronSpec => []CronTypeOK
BY CronTypesInit, CronTypesStep, PTL DEF CronSpec

\* OncePerProcess, for any processes, tasks, overlapping checks and faults: no
\* process enqueues a task twice for one minute, if the lock lasts longer than
\* two calls of the storage.
THEOREM CronOncePerProcess ==
  ASSUME LockOutlivesCalls
  PROVE  CronSpec => []OncePerProcess
<1>1. CronInv => OncePerProcess
  BY DEF CronInv, FiresInv, Expression, OncePerProcess
<1>2. CronInv /\ [CronNext]_cronVars => CronInv'
  BY CronStep
<1> QED BY <1>1, <1>2, CronStart, PTL DEF CronSpec

\* IntervalKept: under the same condition a numeric pattern is stamped, and so
\* enqueued, by a process no sooner than its interval after the last time.
THEOREM CronIntervalKept ==
  ASSUME LockOutlivesCalls
  PROVE  CronSpec => IntervalKept
<1> DEFINE Kept == \A p \in Processes, t \in Tasks :
                     lastRun[p][t] \notin {Never, lastRun'[p][t]} =>
                       lastRun'[p][t] >= lastRun[p][t] + Interval[pattern[t]]
<1>1. CronInv /\ [CronNext]_cronVars => [Kept]_cronVars
  <2> SUFFICES ASSUME CronInv, CronNext PROVE Kept
    OBVIOUS
  <2>1. CASE lastRun' = lastRun
    BY <2>1
  <2>2. ASSUME NEW c \in Checks, Won(c) PROVE Kept
    <3>1. CronTypeOK /\ pc[c] # "idle" /\ Due(c)
      BY <2>2 DEF CronInv, CheckInv, Won, Winner
    <3>2. lastRun' = [lastRun EXCEPT ![Host[c]][at[c]] = began[c]]
      BY <2>2 DEF Won
    <3>3. \A p \in Processes, t \in Tasks :
            lastRun'[p][t] = lastRun[p][t] \/ (p = Host[c] /\ t = at[c]
                                               /\ lastRun'[p][t] = began[c])
      BY <3>1, <3>2, Lookups DEF CronTypeOK
    <3>4. \/ lastRun[Host[c]][at[c]] = Never
          \/ lastRun[Host[c]][at[c]] + Interval[pattern[at[c]]] <= began[c]
      BY <3>1, StampGrows
    <3>5. began[c] \in Nat
      BY <3>1, Lookups
    <3>6. /\ lastRun[Host[c]][at[c]] \in Int
          /\ Interval[pattern[at[c]]] \in Nat
      BY <3>1, Lookups, CronAssumption
    <3> QED BY <3>3, <3>4, <3>5, <3>6
  <2> QED BY <2>1, <2>2 DEF CronNext, Begin, Lock, Lost, Enqueue,
                            EnqueueRejects, CronTick
<1>2. CronInv /\ [CronNext]_cronVars => CronInv'
  BY CronStep
<1> QED BY <1>1, <1>2, CronStart, PTL DEF CronSpec, IntervalKept

-----------------------------------------------------------------------------
(* No minute is missed.                                                    *)

\* A pass over all tasks takes at most so long.
Pass == 2 * NTasks * StoreTime

\* The time a check may be under way, before and after its next call.
Spent(c) ==
  IF pc[c] = "enqueue" THEN 2 * at[c] * StoreTime
                       ELSE (2 * at[c] - 1) * StoreTime

TimeInv ==
  /\ \A c \in Checks : pc[c] # "idle" =>
       began[c] <= clock /\ clock + left[c] <= began[c] + Spent(c)
  /\ \A p \in Processes, t \in Tasks : lastRun[p][t] <= clock

LEMMA Times ==
  ASSUME NEW a \in Nat, NEW b \in Nat, a <= b
  PROVE  a * StoreTime <= b * StoreTime /\ a * StoreTime \in Nat
BY CronAssumption

LEMMA SpentIs ==
  ASSUME NEW a \in Nat \ {0}
  PROVE  /\ 2 * a * StoreTime = 2 * (a * StoreTime)
         /\ (2 * a - 1) * StoreTime = 2 * (a * StoreTime) - StoreTime
         /\ a * StoreTime \in Nat
         /\ a * StoreTime >= StoreTime
BY CronAssumption

\* While a check is under way it stays within that time, and no stamp is from
\* the future.
LEMMA TimeScan ==
  ASSUME CronTypeOK, TimeInv, NEW c \in Checks, NEW from \in Nat \ {0},
         NEW now \in 0..MaxTime, Scan(c, from, now), now <= clock,
         clock <= now + 2 * ((from - 1) * StoreTime),
         UNCHANGED <<clock, lastRun>>
  PROVE  TimeInv'
<1>1. CheckTypes /\ StoreTime \in Nat /\ clock \in Nat /\ now \in Nat
  BY CronAssumption DEF CronTypeOK, CheckTypes
<1>2. /\ \A d \in Checks : d # c => Same(d)
      /\ \/ pc'[c] = "idle"
         \/ /\ pc'[c] = "lock" /\ at'[c] \in Tasks /\ began'[c] = now
            /\ at'[c] >= from /\ left'[c] = StoreTime
  BY <1>1, ScanDoes
<1>3. ASSUME pc'[c] = "lock"
      PROVE  clock + StoreTime <= now + (2 * at'[c] - 1) * StoreTime
  <2>1. PICK a \in Nat \ {0} : a = at'[c] /\ a >= from
    BY <1>2, <1>3, CronAssumption DEF Tasks
  <2>2. PICK b \in Nat : b = from - 1
    OBVIOUS
  <2>3. PICK x \in Nat : x = b * StoreTime
    BY <1>1
  <2>4. PICK y \in Nat : y = a * StoreTime
    BY <1>1
  <2>5. (b + 1) * StoreTime = x + StoreTime
    BY <1>1, <2>3
  <2>6. (b + 1) * StoreTime <= a * StoreTime
    BY <2>1, <2>2, Times
  <2>7. (2 * a - 1) * StoreTime = 2 * y - StoreTime
    BY <2>4, SpentIs
  <2>8. clock <= now + 2 * x
    BY <2>2, <2>3
  <2> QED BY <1>1, <2>1, <2>4, <2>5, <2>6, <2>7, <2>8
<1>4. ASSUME NEW d \in Checks, pc'[d] # "idle"
      PROVE  began'[d] <= clock' /\ clock' + left'[d] <= began'[d] + Spent(d)'
  <2>1. CASE d = c
    BY <1>2, <1>3, <1>4, <2>1 DEF Spent
  <2>2. CASE d # c
    BY <1>2, <1>4, <2>2 DEF Same, Spent, TimeInv
  <2> QED BY <2>1, <2>2
<1> QED BY <1>4 DEF TimeInv

LEMMA TimeStart ==
  ASSUME CronInit
  PROVE  TimeInv
BY DEF CronInit, TimeInv, Never

LEMMA TimeStep ==
  ASSUME CronTypeOK, TimeInv, [CronNext]_cronVars
  PROVE  TimeInv'
<1>1. /\ StoreTime \in Nat /\ clock \in Nat /\ NTasks \in Nat
      /\ CheckTypes
  BY CronAssumption DEF CronTypeOK, CheckTypes
<1>2. ASSUME NEW c \in Checks, pc[c] # "idle"
      PROVE  /\ began[c] \in 0..MaxTime /\ began[c] <= clock
             /\ at[c] \in Nat \ {0} /\ at[c] + 1 \in Nat \ {0}
             /\ at[c] \in Tasks
             /\ clock <= began[c] + 2 * (at[c] * StoreTime)
             /\ clock <= began[c] + 2 * ((at[c] + 1 - 1) * StoreTime)
             /\ pc[c] # "enqueue" => clock + left[c] + StoreTime
                                       <= began[c] + 2 * (at[c] * StoreTime)
             /\ left[c] \in Nat
  <2>1. /\ began[c] \in 0..MaxTime /\ at[c] \in Tasks /\ at[c] \in Nat \ {0}
        /\ left[c] \in Nat /\ began[c] \in Nat
    BY <1>1, <1>2, Lookups, CronAssumption DEF CronTypeOK, Tasks
  <2>2. PICK x \in Nat : x = at[c] * StoreTime
    BY <1>1, <2>1
  <2>3. /\ 2 * at[c] * StoreTime = 2 * x
        /\ (2 * at[c] - 1) * StoreTime = 2 * x - StoreTime
    BY <2>1, <2>2, SpentIs
  <2>4. began[c] <= clock /\ clock + left[c] <= began[c] + Spent(c)
    BY <1>2 DEF TimeInv
  <2>5. at[c] + 1 - 1 = at[c]
    BY <2>1
  <2>6. pc[c] # "enqueue" => Spent(c) = 2 * x - StoreTime
    BY <2>3 DEF Spent
  <2>7. pc[c] = "enqueue" => Spent(c) = 2 * x
    BY <2>3 DEF Spent
  <2>8. /\ clock <= began[c] + 2 * x
        /\ pc[c] # "enqueue" => clock + left[c] + StoreTime <= began[c] + 2 * x
    BY <1>1, <2>1, <2>4, <2>6, <2>7
  <2> QED BY <2>1, <2>2, <2>4, <2>5, <2>8
<1>3. ASSUME NEW c \in Checks, Begin(c) PROVE TimeInv'
  <2>1. /\ Scan(c, 1, clock) /\ UNCHANGED <<clock, lastRun>>
        /\ clock \in 0..MaxTime /\ 1 \in Nat \ {0}
    BY <1>3 DEF Begin, CronTypeOK
  <2>2. clock <= clock + 2 * ((1 - 1) * StoreTime) /\ clock <= clock
    BY <1>1
  <2> QED BY <2>1, <2>2, TimeScan
<1>4. ASSUME NEW c \in Checks, Lock(c) PROVE TimeInv'
  BY <1>1, <1>4 DEF Lock, TimeInv, Spent, CheckTypes
<1>5. ASSUME NEW c \in Checks, Won(c) PROVE TimeInv'
  <2>1. /\ pc[c] = "reply"
        /\ lastRun' = [lastRun EXCEPT ![Host[c]][at[c]] = began[c]]
        /\ pc' = [pc EXCEPT ![c] = "enqueue"]
        /\ left' = [left EXCEPT ![c] = StoreTime]
        /\ UNCHANGED <<clock, began, at>>
    BY <1>5 DEF Won
  <2>2. ASSUME NEW p \in Processes, NEW s \in Tasks
        PROVE  lastRun'[p][s] <= clock'
    <3>1. lastRun'[p][s] \in {lastRun[p][s], began[c]}
      BY <1>2, <2>1, Lookups DEF CronTypeOK
    <3> QED BY <1>2, <2>1, <3>1 DEF TimeInv
  <2>3. ASSUME NEW d \in Checks, pc'[d] # "idle"
        PROVE  began'[d] <= clock' /\ clock' + left'[d] <= began'[d] + Spent(d)'
    <3>1. CASE d = c
      <4>1. PICK x \in Nat : x = at[c] * StoreTime
        BY <1>1, <1>2, <2>1
      <4>2. Spent(c)' = 2 * x
        <5>1. pc'[c] = "enqueue" /\ at'[c] = at[c]
          BY <1>1, <2>1 DEF CheckTypes
        <5>2. 2 * at[c] * StoreTime = 2 * x
          BY <1>2, <2>1, <4>1, SpentIs
        <5> QED BY <5>1, <5>2 DEF Spent
      <4>3. left'[c] = StoreTime /\ began[c] \in Nat
        BY <1>1, <1>2, <2>1 DEF CheckTypes
      <4>4. clock + left[c] + StoreTime <= began[c] + 2 * x
        BY <1>2, <2>1, <4>1
      <4>5. left[c] \in Nat /\ began[c] <= clock
        BY <1>2, <2>1
      <4> QED BY <1>1, <2>1, <3>1, <4>2, <4>3, <4>4, <4>5
    <3>2. CASE d # c
      <4>1. Same(d)
        BY <1>1, <1>5, <3>2 DEF Won, Same, CheckTypes
      <4> QED BY <2>1, <2>3, <4>1 DEF Same, Spent, TimeInv
    <3> QED BY <3>1, <3>2
  <2> QED BY <2>2, <2>3 DEF TimeInv
<1>6. ASSUME NEW c \in Checks, Lost(c) PROVE TimeInv'
  <2>1. /\ pc[c] # "idle" /\ Scan(c, at[c] + 1, began[c])
        /\ UNCHANGED <<clock, lastRun>>
    BY <1>6 DEF Lost
  <2> QED BY <1>2, <2>1, TimeScan
<1>7. ASSUME NEW c \in Checks, Enqueue(c) PROVE TimeInv'
  <2>1. /\ pc[c] # "idle" /\ Scan(c, at[c] + 1, began[c])
        /\ UNCHANGED <<clock, lastRun>>
    BY <1>7 DEF Enqueue
  <2> QED BY <1>2, <2>1, TimeScan
<1>8. ASSUME NEW c \in Checks, EnqueueRejects(c) PROVE TimeInv'
  <2>1. PICK n \in Nat \ {0} : n = NTasks + 1
    BY <1>1
  <2>2. pc[c] # "idle" /\ UNCHANGED <<clock, lastRun>>
    BY <1>8 DEF EnqueueRejects
  <2>3. Scan(c, n, began[c])
    BY <1>8, <2>1, Zenon DEF EnqueueRejects
  <2>4. /\ began[c] \in 0..MaxTime /\ began[c] <= clock /\ began[c] \in Nat
        /\ at[c] \in Nat /\ at[c] <= n - 1 /\ n - 1 \in Nat
    BY <1>1, <1>2, <2>1, <2>2 DEF Tasks
  <2>5. PICK x \in Nat : x = at[c] * StoreTime
    BY <1>1, <2>4
  <2>6. PICK y \in Nat : y = (n - 1) * StoreTime
    BY <1>1, <2>4
  <2>7. x <= y
    <3>1. PICK k \in Nat : k = n - 1
      BY <2>4
    <3>2. at[c] <= k
      BY <2>4, <3>1
    <3> QED BY <2>4, <2>5, <2>6, <3>1, <3>2, Times
  <2>8. clock <= began[c] + 2 * x
    BY <1>2, <2>2, <2>5
  <2>9. clock <= began[c] + 2 * y
    BY <1>1, <2>4, <2>7, <2>8
  <2> QED BY <2>2, <2>3, <2>4, <2>6, <2>9, TimeScan
<1>9. CASE CronTick
  <2>1. /\ clock' = clock + 1 /\ UNCHANGED <<pc, began, at, lastRun>>
        /\ \A d \in Checks : pc[d] # "idle" => left'[d] = left[d] - 1
    BY <1>9 DEF CronTick
  <2>2. ASSUME NEW d \in Checks, pc'[d] # "idle"
        PROVE  began'[d] <= clock' /\ clock' + left'[d] <= began'[d] + Spent(d)'
    <3>1. clock' + left'[d] = clock + left[d]
      <4>1. left[d] \in Nat /\ left'[d] = left[d] - 1
        BY <1>2, <2>1, <2>2
      <4> QED BY <1>1, <2>1, <4>1
    <3>2. began[d] <= clock /\ clock + left[d] <= began[d] + Spent(d)
      BY <2>1, <2>2 DEF TimeInv
    <3>3. Spent(d)' = Spent(d) /\ began[d] \in Nat
      BY <1>2, <2>1, <2>2 DEF Spent
    <3> QED BY <1>1, <2>1, <3>1, <3>2, <3>3
  <2>3. ASSUME NEW p \in Processes, NEW s \in Tasks
        PROVE  lastRun'[p][s] <= clock'
    <3>1. lastRun[p][s] \in Int /\ lastRun[p][s] <= clock
      BY CronAssumption DEF TimeInv, CronTypeOK
    <3> QED BY <1>1, <2>1, <3>1
  <2> QED BY <2>2, <2>3 DEF TimeInv
<1>10. CASE UNCHANGED cronVars
  BY <1>10 DEF cronVars, TimeInv, Spent
<1> QED BY <1>3, <1>4, <1>5, <1>6, <1>7, <1>8, <1>9, <1>10 DEF CronNext

LEMMA WithinPass ==
  ASSUME CronTypeOK, TimeInv, NEW c \in Checks, pc[c] # "idle"
  PROVE  /\ began[c] \in Nat /\ left[c] \in Nat /\ Pass \in Nat
         /\ began[c] <= clock /\ clock + left[c] <= began[c] + Pass
<1>1. /\ StoreTime \in Nat /\ NTasks \in Nat /\ clock \in Nat
      /\ began[c] \in Nat /\ left[c] \in Nat
      /\ at[c] \in Nat \ {0} /\ at[c] <= NTasks
  BY Lookups, CronAssumption DEF Tasks
<1>2. PICK x \in Nat : x = at[c] * StoreTime
  BY <1>1
<1>3. PICK y \in Nat : y = NTasks * StoreTime
  BY <1>1
<1>4. x <= y
  BY <1>1, <1>2, <1>3, Times
<1>5. Pass = 2 * y
  BY <1>1, <1>3 DEF Pass
<1>6. Spent(c) = 2 * x \/ Spent(c) = 2 * x - StoreTime
  BY <1>1, <1>2, SpentIs DEF Spent
<1>7. began[c] <= clock /\ clock + left[c] <= began[c] + Spent(c)
  BY DEF TimeInv
<1> QED BY <1>1, <1>4, <1>5, <1>6, <1>7

\* The lock of a pattern that has been taken before the minute, or has been
\* lost since, is free again by Wait; somebody has it for the minute by Take.
Round == 2 * Pass + 1 + LockTtl
Wait(m) == m * MinuteLength + Pass + LockTtl + faults * Round
Take(m) == Wait(m) + 2 * Pass + 1

\* The condition: a minute is longer than what may pass until then.
MinuteIsLong ==
  MinuteLength > 3 * Pass + LockTtl + 1 + MaxFaults * Round + 2 * StoreTime

\* Two tasks of one pattern would compete for one lock.
DistinctPatterns == \A s, t \in Tasks : pattern[s] = pattern[t] => s = t

\* Nobody has enqueued task t for minute m, or tried to.
Open(t, m) ==
  /\ \A p \in Processes : fires[p][t][m] = 0
  /\ <<t, m>> \notin dropped

\* Check c has got the lock for it from keeper q, and is about to.
Claim(c, q, t, m) ==
  /\ Keeper(Host[c]) = q /\ at[c] = t /\ Minute(began[c]) = m
  /\ Winner(c) \/ pc[c] = "enqueue"
Claimed(q, t, m) == \E c \in Checks : Claim(c, q, t, m)

\* A check of process p that will find the lock free.
Seeks(d, p, m) == Host[d] = p /\ pc[d] # "idle" /\ began[d] >= Wait(m)

\* As long as nobody has got the lock, the first check that finds it free is
\* on its way to it, or will soon begin.
SeekInv(p, t, m) ==
  /\ lock[Keeper(p)][pattern[t]] <= Wait(m)
  /\ \A d \in Checks : Seeks(d, p, m) =>
       at[d] <= t /\ (at[d] = t => pc[d] = "lock")
  /\ \/ clock <= Wait(m) + Pass + 1
     \/ \E d \in Checks : Seeks(d, p, m) /\ began[d] <= Wait(m) + Pass + 1
  /\ p \in polled /\ clock >= Wait(m) =>
       \E d \in Checks : Seeks(d, p, m) /\ began[d] = clock

\* Who has got it has got it in time.
HoldInv(c, q, t, m) ==
  Claim(c, q, t, m) =>
    /\ lock[q][pattern[t]] <= Take(m) + LockTtl
    /\ clock + left[c] < lock[q][pattern[t]]
    /\ IF pc[c] = "enqueue" THEN clock + left[c] <= Take(m) + 2 * StoreTime
                            ELSE clock + left[c] <= Take(m) + StoreTime

\* A stamp of this minute is that of a check that is about to enqueue.
StampInv(r, q, t, m) ==
  Keeper(r) = q /\ lastRun[r][t] >= m * MinuteLength =>
    \E c \in Checks :
      Claim(c, q, t, m) /\ Host[c] = r /\ pc[c] = "enqueue"

TaskInv(p, t, m) ==
  /\ Claimed(Keeper(p), t, m) \/ SeekInv(p, t, m)
  /\ \A c \in Checks : HoldInv(c, Keeper(p), t, m)
  /\ \A r \in Processes : StampInv(r, Keeper(p), t, m)

\* Task t has to be enqueued for minute m, and process p will see to it.
Asked(p, t, m) ==
  /\ p \in Processes /\ t \in Tasks /\ m \in Minutes
  /\ \E c \in Checks : Host[c] = p
  /\ Expression(t) /\ m \in Match[pattern[t]]

Setting(p, t, m) ==
  /\ LockOutlivesCalls /\ MinuteIsLong
  /\ CronInv /\ TimeInv /\ DistinctPatterns
  /\ Asked(p, t, m) /\ TaskInv(p, t, m)

DeadlineInv ==
  \A p \in Processes, t \in Tasks, m \in Minutes :
    Asked(p, t, m) /\ Open(t, m) => TaskInv(p, t, m)

LEMMA MinuteIs ==
  ASSUME NEW n \in Nat, NEW m \in Nat
  PROVE  /\ m * MinuteLength \in Nat
         /\ Minute(n) = m <=>
              m * MinuteLength <= n /\ n < m * MinuteLength + MinuteLength
BY CronAssumption DEF Minute

LEMMA Numbers ==
  ASSUME MinuteIsLong, CronTypeOK, NEW m \in Nat
  PROVE  /\ Pass \in Nat /\ Wait(m) \in Nat /\ m * MinuteLength \in Nat
         /\ StoreTime \in Nat /\ LockTtl \in Nat /\ clock \in Nat
         /\ m * MinuteLength + Pass + LockTtl <= Wait(m)
         /\ Wait(m) + 2 * Pass + 1 + 2 * StoreTime
              < m * MinuteLength + MinuteLength
<1>1. /\ StoreTime \in Nat /\ LockTtl \in Nat /\ NTasks \in Nat
      /\ MinuteLength \in Nat /\ MaxFaults \in Nat
      /\ clock \in Nat /\ faults \in Nat /\ faults <= MaxFaults
  BY CronAssumption DEF CronTypeOK
<1>2. Pass \in Nat
  BY <1>1 DEF Pass
<1>3. PICK r \in Nat : r = Round
  BY <1>1, <1>2 DEF Round
<1>4. PICK f \in Nat : f = faults * r
  BY <1>1
<1>5. PICK g \in Nat : g = MaxFaults * r
  BY <1>1
<1>6. f <= g
  BY <1>1, <1>4, <1>5
<1>7. PICK s \in Nat : s = m * MinuteLength
  BY <1>1
<1>8. Wait(m) = s + Pass + LockTtl + f
  BY <1>3, <1>4, <1>7 DEF Wait
<1>9. MinuteLength > 3 * Pass + LockTtl + 1 + g + 2 * StoreTime
  BY <1>3, <1>5 DEF MinuteIsLong
<1> QED BY <1>1, <1>2, <1>6, <1>7, <1>8, <1>9

\* Types and bounds of what a setting speaks of.
LEMMA SettingTypes ==
  ASSUME NEW p \in Processes, NEW t \in Tasks, NEW m \in Minutes,
         Setting(p, t, m)
  PROVE  /\ m \in Nat /\ t \in Nat /\ Keeper(p) \in Processes
         /\ pattern[t] \in Patterns
         /\ lock[Keeper(p)][pattern[t]] \in Nat
         /\ Pass \in Nat /\ Wait(m) \in Nat /\ m * MinuteLength \in Nat
         /\ StoreTime \in Nat /\ LockTtl \in Nat /\ LockTtl > 2 * StoreTime
         /\ clock \in Nat
         /\ m * MinuteLength + Pass + LockTtl <= Wait(m)
         /\ Wait(m) + 2 * Pass + 1 + 2 * StoreTime
              < m * MinuteLength + MinuteLength
         /\ MinuteLength \in Nat
<1>1. CronTypeOK /\ MinuteIsLong /\ LockTtl > 2 * StoreTime
  BY DEF Setting, CronInv, LockOutlivesCalls
<1>2. m \in Nat /\ t \in Nat /\ MinuteLength \in Nat
  BY CronAssumption DEF Minutes, Tasks
<1>3. Keeper(p) \in Processes /\ pattern[t] \in Patterns
  BY <1>1, KeeperIsProcess DEF CronTypeOK
<1>4. lock[Keeper(p)][pattern[t]] \in Nat
  BY <1>1, <1>3 DEF CronTypeOK
<1> QED BY <1>1, <1>2, <1>3, <1>4, Numbers

\* Until the task is enqueued the minute has not passed.
LEMMA InTime ==
  ASSUME NEW p \in Processes, NEW t \in Tasks, NEW m \in Minutes,
         Setting(p, t, m)
  PROVE  /\ clock < m * MinuteLength + MinuteLength
         /\ ~Claimed(Keeper(p), t, m) => clock <= Take(m)
<1> DEFINE q == Keeper(p)
<1>1. CronTypeOK /\ TimeInv /\ TaskInv(p, t, m)
  BY DEF Setting, CronInv
<1>2. PICK w \in Nat : w = Wait(m)
  BY SettingTypes
<1>3. /\ Pass \in Nat /\ StoreTime \in Nat /\ clock \in Nat
      /\ m * MinuteLength \in Nat /\ MinuteLength \in Nat
      /\ w + 2 * Pass + 1 + 2 * StoreTime < m * MinuteLength + MinuteLength
      /\ Take(m) = w + 2 * Pass + 1
  BY <1>2, SettingTypes DEF Take
<1> HIDE DEF q
<1>4. ASSUME NEW c \in Checks, Claim(c, q, t, m)
      PROVE  clock <= w + 2 * Pass + 1 + 2 * StoreTime
  <2>1. HoldInv(c, q, t, m) /\ pc[c] # "idle"
    BY <1>1, <1>4 DEF TaskInv, q, Claim, Winner
  <2>2. left[c] \in Nat
    BY <1>1, Lookups
  <2>3. \/ clock + left[c] <= Take(m) + 2 * StoreTime
        \/ clock + left[c] <= Take(m) + StoreTime
    BY <1>4, <2>1 DEF HoldInv
  <2> QED BY <1>3, <2>2, <2>3
<1>5. ASSUME ~Claimed(q, t, m)
      PROVE  clock <= w + 2 * Pass + 1
  <2>1. \/ clock <= w + Pass + 1
        \/ \E d \in Checks : Seeks(d, p, m) /\ began[d] <= w + Pass + 1
    BY <1>1, <1>2, <1>5 DEF TaskInv, SeekInv, q
  <2>2. ASSUME NEW d \in Checks, Seeks(d, p, m), began[d] <= w + Pass + 1
        PROVE  clock <= w + 2 * Pass + 1
    <3>1. pc[d] # "idle"
      BY <2>2 DEF Seeks
    <3>2. /\ began[d] \in Nat /\ left[d] \in Nat
          /\ clock + left[d] <= began[d] + Pass
      BY <1>1, <3>1, WithinPass
    <3> QED BY <1>3, <2>2, <3>2
  <2> QED BY <1>3, <2>1, <2>2
<1>6. Claimed(q, t, m) => clock <= w + 2 * Pass + 1 + 2 * StoreTime
  BY <1>4 DEF Claimed
<1> QED BY <1>3, <1>5, <1>6 DEF q

\* A task nobody has got the lock for is due.
LEMMA StillDue ==
  ASSUME NEW p \in Processes, NEW t \in Tasks, NEW m \in Minutes,
         Setting(p, t, m), ~Claimed(Keeper(p), t, m),
         NEW now \in Nat, now >= m * MinuteLength, now <= clock
  PROVE  ShouldFire(p, t, now)
<1>1. /\ m \in Nat /\ m * MinuteLength \in Nat /\ clock \in Nat
      /\ MinuteLength \in Nat
  BY SettingTypes
<1>2. now < m * MinuteLength + MinuteLength
  BY <1>1, InTime
<1>3. Minute(now) = m
  BY <1>1, <1>2, MinuteIs
<1>4. StampInv(p, Keeper(p), t, m)
  BY DEF Setting, TaskInv
<1>5. ~(lastRun[p][t] >= m * MinuteLength)
  BY <1>4 DEF StampInv, Claimed
<1>6. lastRun[p][t] \in Int
  BY CronAssumption DEF Setting, CronInv, CronTypeOK
<1>7. lastRun[p][t] < m * MinuteLength
  BY <1>1, <1>5, <1>6
<1>8. Interval[pattern[t]] = 0 /\ m \in Match[pattern[t]]
  BY DEF Setting, Asked, Expression
<1> QED BY <1>3, <1>7, <1>8 DEF ShouldFire

LEMMA SameClaim ==
  ASSUME NEW e \in Checks, Same(e), NEW q, NEW t, NEW m
  PROVE  Claim(e, q, t, m)' <=> Claim(e, q, t, m)
BY DEF Same, Claim, Winner, Keeper, Minute

\* Who has the lock and who has left a stamp keeps it when a check that is not
\* about to enqueue the task goes on.
LEMMA ClaimsStay ==
  ASSUME NEW p \in Processes, NEW t \in Tasks, NEW m \in Minutes,
         Setting(p, t, m), NEW c \in Checks,
         \A e \in Checks : e # c => Same(e),
         pc[c] = "enqueue" => ~Claim(c, Keeper(p), t, m),
         ~Claim(c, Keeper(p), t, m)',
         UNCHANGED <<pattern, clock, lastRun>>,
         lock'[Keeper(p)][pattern[t]] = lock[Keeper(p)][pattern[t]],
         Wait(m)' \in Nat, Wait(m)' >= Wait(m)
  PROVE  /\ \A e \in Checks : HoldInv(e, Keeper(p), t, m)'
         /\ \A r \in Processes : StampInv(r, Keeper(p), t, m)'
<1> DEFINE q == Keeper(p)
<1>1. /\ \A e \in Checks : HoldInv(e, q, t, m)
      /\ \A r \in Processes : StampInv(r, q, t, m)
      /\ CronTypeOK
  BY DEF Setting, TaskInv, CronInv
<1>2. /\ Pass \in Nat /\ StoreTime \in Nat /\ LockTtl \in Nat
      /\ Wait(m) \in Nat /\ clock \in Nat
      /\ lock[q][pattern[t]] \in Nat
  BY SettingTypes
<1>3. q' = q /\ Pass' = Pass
  BY DEF Keeper, Pass
<1> HIDE DEF q
<1>4. ASSUME NEW e \in Checks, Claim(e, q, t, m)'
      PROVE  e # c /\ Same(e) /\ Claim(e, q, t, m)
  <2>1. e # c
    BY <1>4 DEF q
  <2> QED BY <1>4, <2>1, SameClaim
<1>5. ASSUME NEW e \in Checks PROVE HoldInv(e, q, t, m)'
  <2>1. SUFFICES ASSUME Claim(e, q, t, m)'
                 PROVE  /\ lock'[q][pattern'[t]] <= Take(m)' + LockTtl
                        /\ clock' + left'[e] < lock'[q][pattern'[t]]
                        /\ IF pc'[e] = "enqueue"
                           THEN clock' + left'[e] <= Take(m)' + 2 * StoreTime
                           ELSE clock' + left'[e] <= Take(m)' + StoreTime
    BY <1>3 DEF HoldInv
  <2>2. Same(e) /\ Claim(e, q, t, m)
    BY <1>4, <2>1
  <2>3. /\ lock[q][pattern[t]] <= Take(m) + LockTtl
        /\ clock + left[e] < lock[q][pattern[t]]
        /\ IF pc[e] = "enqueue"
           THEN clock + left[e] <= Take(m) + 2 * StoreTime
           ELSE clock + left[e] <= Take(m) + StoreTime
    BY <1>1, <2>2 DEF HoldInv
  <2>4. /\ Take(m) = Wait(m) + 2 * Pass + 1
        /\ Take(m)' = Wait(m)' + 2 * Pass + 1
    BY <1>3 DEF Take
  <2>5. left[e] \in Nat
    BY <1>1, Lookups
  <2>6. /\ lock'[q][pattern'[t]] = lock[q][pattern[t]] /\ clock' = clock
        /\ left'[e] = left[e] /\ pc'[e] = pc[e]
    BY <2>2 DEF Same, q
  <2> QED BY <1>2, <2>3, <2>4, <2>5, <2>6
<1>6. ASSUME NEW r \in Processes PROVE StampInv(r, q, t, m)'
  <2>1. SUFFICES ASSUME Keeper(r) = q, lastRun[r][t] >= m * MinuteLength
                 PROVE  \E e \in Checks :
                          /\ Claim(e, q, t, m)'
                          /\ Host[e] = r /\ pc'[e] = "enqueue"
    BY <1>3 DEF StampInv, Keeper
  <2>2. PICK e \in Checks : /\ Claim(e, q, t, m)
                            /\ Host[e] = r /\ pc[e] = "enqueue"
    BY <1>1, <2>1 DEF StampInv
  <2>3. e # c
    BY <2>2 DEF q
  <2>4. Same(e) /\ Claim(e, q, t, m)'
    BY <2>2, <2>3, SameClaim
  <2> QED BY <2>2, <2>4 DEF Same
<1> QED BY <1>3, <1>5, <1>6 DEF q

\* A check that has not got the lock for the task goes on with its tasks, or
\* begins.
LEMMA ScanSeeks ==
  ASSUME NEW p \in Processes, NEW t \in Tasks, NEW m \in Minutes,
         Setting(p, t, m), NEW c \in Checks, NEW from \in Nat \ {0},
         NEW now \in 0..MaxTime, Scan(c, from, now), now <= clock,
         pc[c] # "idle" => began[c] = now,
         ~Claim(c, Keeper(p), t, m),
         ~Claimed(Keeper(p), t, m) /\ Host[c] = p /\ now >= Wait(m) =>
           from <= t,
         UNCHANGED <<pattern, clock, lastRun, lock, faults>>,
         p \in polled' => p \in polled \/ (Host[c] = p /\ now = clock)
  PROVE  TaskInv(p, t, m)'
<1> DEFINE q == Keeper(p)
<1>1. CronTypeOK /\ CheckTypes /\ TaskInv(p, t, m)
  BY DEF Setting, CronInv, CronTypeOK, CheckTypes
<1>2. /\ \A d \in Checks : d # c => Same(d)
      /\ \/ pc'[c] = "idle"
         \/ pc'[c] = "lock" /\ began'[c] = now
      /\ \A s \in Tasks : s >= from /\ ShouldFire(Host[c], s, now) =>
           pc'[c] = "lock" /\ began'[c] = now /\ at'[c] <= s
  BY <1>1, ScanDoes
<1>3. /\ Wait(m) \in Nat /\ m * MinuteLength \in Nat /\ Pass \in Nat
      /\ LockTtl \in Nat /\ clock \in Nat /\ t \in Nat
      /\ m * MinuteLength + Pass + LockTtl <= Wait(m)
  BY SettingTypes
<1>4. Wait(m)' = Wait(m) /\ Pass' = Pass /\ q' = q
  BY DEF Wait, Round, Pass, Keeper
<1>5. ~Claim(c, q, t, m)'
  BY <1>2 DEF Claim, Winner
<1>6. /\ \A e \in Checks : HoldInv(e, q, t, m)'
      /\ \A r \in Processes : StampInv(r, q, t, m)'
  BY <1>2, <1>3, <1>4, <1>5, ClaimsStay
<1> HIDE DEF q
<1>7. CASE Claimed(q, t, m)
  <2>1. PICK e \in Checks : Claim(e, q, t, m)
    BY <1>7 DEF Claimed
  <2>2. e # c
    BY <2>1 DEF q
  <2>3. Claim(e, q, t, m)'
    BY <1>2, <2>1, <2>2, SameClaim
  <2> QED BY <1>4, <1>6, <2>3 DEF TaskInv, Claimed, q
<1>8. CASE ~Claimed(q, t, m)
  <2>1. SeekInv(p, t, m)
    BY <1>1, <1>8 DEF TaskInv, q
  <2>2. ASSUME Host[c] = p, now >= Wait(m)
        PROVE  /\ pc'[c] = "lock" /\ began'[c] = now /\ at'[c] <= t
               /\ Seeks(c, p, m)'
    <3>1. now \in Nat /\ now >= m * MinuteLength /\ from <= t
      BY <1>3, <1>8, <2>2, CronAssumption DEF q
    <3>2. ShouldFire(p, t, now)
      BY <1>8, <3>1, StillDue DEF q
    <3>3. t >= from
      BY <1>3, <3>1
    <3>4. pc'[c] = "lock" /\ began'[c] = now /\ at'[c] <= t
      BY <1>2, <2>2, <3>2, <3>3
    <3> QED BY <1>4, <2>2, <3>4 DEF Seeks
  <2>3. ASSUME NEW d \in Checks, Seeks(d, p, m)
        PROVE  Seeks(d, p, m)' /\ began'[d] = began[d]
    <3>1. CASE d = c
      BY <2>2, <2>3, <3>1 DEF Seeks
    <3>2. CASE d # c
      BY <1>2, <1>4, <2>3, <3>2 DEF Seeks, Same
    <3> QED BY <3>1, <3>2
  <2>4. ASSUME NEW d \in Checks, Seeks(d, p, m)'
        PROVE  at'[d] <= t /\ (at'[d] = t => pc'[d] = "lock")
    <3>1. CASE d = c
      <4>1. pc'[c] = "lock" /\ began'[c] = now /\ Host[c] = p
        BY <1>2, <2>4, <3>1 DEF Seeks
      <4>2. now >= Wait(m)
        BY <1>4, <2>4, <3>1, <4>1 DEF Seeks
      <4> QED BY <2>2, <3>1, <4>1, <4>2
    <3>2. CASE d # c
      <4>1. Seeks(d, p, m) /\ Same(d)
        BY <1>2, <1>4, <2>4, <3>2 DEF Seeks, Same
      <4> QED BY <2>1, <4>1 DEF SeekInv, Same
    <3> QED BY <3>1, <3>2
  <2>5. lock'[q][pattern'[t]] <= Wait(m)'
    BY <1>4, <2>1 DEF SeekInv, q
  <2>6. \/ clock' <= Wait(m)' + Pass + 1
        \/ \E d \in Checks : /\ Seeks(d, p, m)'
                             /\ began'[d] <= Wait(m)' + Pass + 1
    <3>1. CASE clock <= Wait(m) + Pass + 1
      BY <1>4, <3>1
    <3>2. CASE \E d \in Checks :
                 Seeks(d, p, m) /\ began[d] <= Wait(m) + Pass + 1
      BY <1>4, <2>3, <3>2
    <3> QED BY <2>1, <3>1, <3>2 DEF SeekInv
  <2>7. ASSUME p \in polled', clock' >= Wait(m)'
        PROVE  \E d \in Checks : Seeks(d, p, m)' /\ began'[d] = clock'
    <3>1. CASE p \in polled
      <4>1. PICK d \in Checks : Seeks(d, p, m) /\ began[d] = clock
        BY <1>4, <2>1, <2>7, <3>1 DEF SeekInv
      <4> QED BY <2>3, <4>1
    <3>2. CASE Host[c] = p /\ now = clock
      BY <1>4, <2>2, <2>7, <3>2
    <3> QED BY <2>7, <3>1, <3>2
  <2>8. SeekInv(p, t, m)'
    BY <1>4, <2>4, <2>5, <2>6, <2>7 DEF SeekInv, q
  <2> QED BY <1>4, <1>6, <2>8 DEF TaskInv, q
<1> QED BY <1>7, <1>8

\* A fault puts everything off by a round.
LEMMA FaultPutsOff ==
  ASSUME NEW p \in Processes, NEW t \in Tasks, NEW m \in Minutes,
         Setting(p, t, m), CronTypeOK', TimeInv', NEW c \in Checks,
         NEW from \in Nat \ {0}, NEW now \in 0..MaxTime, Scan(c, from, now),
         pc[c] = "enqueue" => ~Claim(c, Keeper(p), t, m),
         faults' = faults + 1,
         UNCHANGED <<pattern, clock, lastRun, lock>>
  PROVE  TaskInv(p, t, m)'
<1> DEFINE q == Keeper(p)
<1>1. CronTypeOK /\ CheckTypes /\ TaskInv(p, t, m)
  BY DEF Setting, CronInv, CronTypeOK, CheckTypes
<1>2. /\ \A d \in Checks : d # c => Same(d)
      /\ pc'[c] = "idle" \/ pc'[c] = "lock"
  BY <1>1, ScanDoes
<1>3. /\ Wait(m) \in Nat /\ Pass \in Nat /\ clock \in Nat
      /\ LockTtl \in Nat /\ StoreTime \in Nat /\ LockTtl > 2 * StoreTime
      /\ lock[q][pattern[t]] \in Nat
  BY SettingTypes
<1>4. /\ Wait(m)' = Wait(m) + 2 * Pass + 1 + LockTtl
      /\ Pass' = Pass /\ q' = q
  <2>1. PICK f \in Nat : f = faults
    BY CronAssumption, <1>1 DEF CronTypeOK
  <2>2. PICK r \in Nat : r = Round /\ r = 2 * Pass + 1 + LockTtl
    BY <1>3 DEF Round
  <2>3. PICK s \in Nat : s = m * MinuteLength
    BY SettingTypes
  <2>4. (f + 1) * r = f * r + r /\ f * r \in Nat
    OBVIOUS
  <2>5. Pass' = Pass /\ Round' = Round
    BY DEF Pass, Round
  <2>6. Wait(m) = s + Pass + LockTtl + f * r
    BY <2>1, <2>2, <2>3 DEF Wait
  <2>7. Wait(m)' = s + Pass + LockTtl + (f + 1) * r
    BY <2>1, <2>2, <2>3, <2>5 DEF Wait
  <2>8. PICK g \in Nat : g = f * r
    BY <2>4
  <2>9. q' = q
    BY DEF Keeper
  <2> QED BY <1>3, <2>2, <2>4, <2>5, <2>6, <2>7, <2>8, <2>9
<1>5. ~Claim(c, q, t, m)'
  BY <1>2 DEF Claim, Winner
<1>6. Wait(m)' \in Nat /\ Wait(m)' >= Wait(m)
  BY <1>3, <1>4
<1>7. /\ \A e \in Checks : HoldInv(e, q, t, m)'
      /\ \A r \in Processes : StampInv(r, q, t, m)'
  BY <1>2, <1>5, <1>6, ClaimsStay
<1>8. lock[q][pattern[t]] <= Wait(m)' /\ clock < Wait(m)'
  <2>1. Take(m) = Wait(m) + 2 * Pass + 1
    BY DEF Take
  <2>2. CASE Claimed(q, t, m)
    <3>1. PICK e \in Checks : Claim(e, q, t, m)
      BY <2>2 DEF Claimed
    <3>2. /\ lock[q][pattern[t]] <= Take(m) + LockTtl
          /\ clock + left[e] < lock[q][pattern[t]]
      BY <1>1, <3>1 DEF TaskInv, HoldInv
    <3>3. left[e] \in Nat
      BY <1>1, Lookups
    <3> HIDE DEF q
    <3> QED BY <1>3, <1>4, <2>1, <3>2, <3>3
  <2>3. CASE ~Claimed(q, t, m)
    <3>1. clock <= Take(m)
      BY <2>3, InTime
    <3>2. lock[q][pattern[t]] <= Wait(m)
      BY <1>1, <2>3 DEF TaskInv, SeekInv
    <3> HIDE DEF q
    <3> QED BY <1>3, <1>4, <2>1, <3>1, <3>2
  <2> QED BY <2>2, <2>3
<1> HIDE DEF q
<1>9. ASSUME NEW d \in Checks PROVE ~Seeks(d, p, m)'
  <2>1. SUFFICES ASSUME pc'[d] # "idle", began'[d] >= Wait(m)'
                 PROVE  FALSE
    BY DEF Seeks
  <2>2. began'[d] <= clock' /\ clock' = clock /\ began'[d] \in Nat
    BY <2>1, CronAssumption DEF TimeInv, CronTypeOK
  <2> QED BY <1>3, <1>6, <1>8, <2>1, <2>2
<1>10. SeekInv(p, t, m)'
  <2>1. lock'[q][pattern'[t]] <= Wait(m)'
    BY <1>8
  <2>2. clock' <= Wait(m)' + Pass + 1 /\ ~(clock' >= Wait(m)')
    BY <1>3, <1>6, <1>8
  <2> QED BY <1>4, <1>9, <2>1, <2>2 DEF SeekInv, q
<1> QED BY <1>4, <1>7, <1>10 DEF TaskInv, q

\* Time passes: the process begins a check in every unit of it, unless its
\* checks are all under way.
LEMMA TickSeeks ==
  ASSUME NEW p \in Processes, NEW t \in Tasks, NEW m \in Minutes,
         Setting(p, t, m), CronTick
  PROVE  TaskInv(p, t, m)'
<1> DEFINE q == Keeper(p)
<1>1. CronTypeOK /\ TimeInv /\ TaskInv(p, t, m)
  BY DEF Setting, CronInv
<1>2. /\ clock' = clock + 1 /\ polled' = {}
      /\ UNCHANGED <<pattern, lastRun, lock, pc, began, at, got, faults>>
      /\ \A d \in Checks : IF pc[d] = "idle" THEN Host[d] \in polled
                                             ELSE left'[d] = left[d] - 1
  BY DEF CronTick
<1>3. /\ Wait(m) \in Nat /\ Pass \in Nat /\ clock \in Nat
  BY SettingTypes
<1>4. Wait(m)' = Wait(m) /\ Pass' = Pass /\ q' = q /\ Take(m)' = Take(m)
  BY <1>2 DEF Wait, Take, Round, Pass, Keeper
<1>5. \A e \in Checks : Claim(e, q, t, m)' <=> Claim(e, q, t, m)
  BY <1>2 DEF Claim, Winner, Keeper, Minute
<1> HIDE DEF q
<1>6. ASSUME NEW e \in Checks PROVE HoldInv(e, q, t, m)'
  <2>1. SUFFICES ASSUME Claim(e, q, t, m)'
                 PROVE  /\ lock'[q][pattern'[t]] <= Take(m)' + LockTtl
                        /\ clock' + left'[e] < lock'[q][pattern'[t]]
                        /\ IF pc'[e] = "enqueue"
                           THEN clock' + left'[e] <= Take(m)' + 2 * StoreTime
                           ELSE clock' + left'[e] <= Take(m)' + StoreTime
    BY <1>4 DEF HoldInv
  <2>2. Claim(e, q, t, m) /\ HoldInv(e, q, t, m) /\ pc[e] # "idle"
    BY <1>1, <1>5, <2>1 DEF TaskInv, Claim, Winner, q
  <2>3. clock' + left'[e] = clock + left[e]
    <3>1. left[e] \in Nat /\ left'[e] = left[e] - 1
      BY <1>1, <1>2, <2>2, Lookups
    <3> QED BY <1>2, <1>3, <3>1
  <2> QED BY <1>2, <1>4, <2>2, <2>3 DEF HoldInv
<1>7. ASSUME NEW r \in Processes PROVE StampInv(r, q, t, m)'
  <2>1. StampInv(r, q, t, m)
    BY <1>1 DEF TaskInv, q
  <2> QED BY <1>2, <1>4, <1>5, <2>1 DEF StampInv, Keeper
<1>8. \A d \in Checks : Seeks(d, p, m)' <=> Seeks(d, p, m)
  BY <1>2, <1>4 DEF Seeks
<1>9. CASE Claimed(q, t, m)
  <2>1. Claimed(q, t, m)'
    BY <1>5, <1>9 DEF Claimed
  <2> QED BY <1>4, <1>6, <1>7, <2>1 DEF TaskInv, q
<1>10. CASE ~Claimed(q, t, m)
  <2>1. SeekInv(p, t, m)
    BY <1>1, <1>10 DEF TaskInv, q
  <2>2. \/ clock' <= Wait(m) + Pass + 1
        \/ \E d \in Checks : Seeks(d, p, m) /\ began[d] <= Wait(m) + Pass + 1
    <3>1. CASE \E d \in Checks :
                 Seeks(d, p, m) /\ began[d] <= Wait(m) + Pass + 1
      BY <3>1
    <3>2. CASE clock <= Wait(m) + Pass + 1
      <4>1. PICK c \in Checks : Host[c] = p
        BY DEF Setting, Asked
      <4>2. CASE pc[c] = "idle"
        <5>1. p \in polled
          BY <1>2, <4>1, <4>2
        <5>2. CASE clock >= Wait(m)
          BY <2>1, <3>2, <5>1, <5>2 DEF SeekInv
        <5>3. CASE ~(clock >= Wait(m))
          BY <1>2, <1>3, <5>3
        <5> QED BY <5>2, <5>3
      <4>3. CASE pc[c] # "idle"
        <5>1. /\ began[c] \in Nat /\ left[c] \in Nat /\ began[c] <= clock
              /\ clock + left[c] <= began[c] + Pass
          BY <1>1, <4>3, WithinPass
        <5>2. CASE began[c] >= Wait(m)
          <6>1. Seeks(c, p, m) /\ began[c] <= Wait(m) + Pass + 1
            BY <1>3, <3>2, <4>1, <4>3, <5>1, <5>2 DEF Seeks
          <6> QED BY <6>1
        <5>3. CASE ~(began[c] >= Wait(m))
          BY <1>2, <1>3, <5>1, <5>3
        <5> QED BY <5>2, <5>3
      <4> QED BY <4>2, <4>3
    <3> QED BY <2>1, <3>1, <3>2 DEF SeekInv
  <2>3. SeekInv(p, t, m)'
    <3>1. /\ lock[q][pattern[t]] <= Wait(m)
          /\ \A d \in Checks : Seeks(d, p, m) =>
               at[d] <= t /\ (at[d] = t => pc[d] = "lock")
      BY <2>1 DEF SeekInv, q
    <3> QED BY <1>2, <1>4, <1>8, <2>2, <3>1 DEF SeekInv, q
  <2> QED BY <1>4, <1>6, <1>7, <2>3 DEF TaskInv, q
<1> QED BY <1>9, <1>10

\* A check that stamps a task for this minute has got its lock.
LEMMA WonSeeks ==
  ASSUME NEW p \in Processes, NEW t \in Tasks, NEW m \in Minutes,
         Setting(p, t, m), NEW c \in Checks, Won(c)
  PROVE  TaskInv(p, t, m)'
<1> DEFINE q == Keeper(p)
           h == Host[c]
<1>1. /\ CronTypeOK /\ CheckTypes /\ TimeInv /\ CheckInv(c)
      /\ TaskInv(p, t, m)
  BY DEF Setting, CronInv, CronTypeOK, CheckTypes
<1>2. /\ pc[c] = "reply" /\ got[c]
      /\ lastRun' = [lastRun EXCEPT ![h][at[c]] = began[c]]
      /\ pc' = [pc EXCEPT ![c] = "enqueue"]
      /\ left' = [left EXCEPT ![c] = StoreTime]
      /\ UNCHANGED <<pattern, clock, lock, began, at, got, polled, faults>>
  BY DEF Won
<1>3. /\ Wait(m) \in Nat /\ Pass \in Nat /\ clock \in Nat /\ m \in Nat
      /\ StoreTime \in Nat /\ LockTtl \in Nat /\ MinuteLength \in Nat
      /\ m * MinuteLength \in Nat /\ lock[q][pattern[t]] \in Nat
  BY SettingTypes
<1>4. Wait(m)' = Wait(m) /\ Pass' = Pass /\ q' = q /\ Take(m)' = Take(m)
  BY <1>2 DEF Wait, Take, Round, Pass, Keeper
<1>5. /\ \A d \in Checks : d # c => Same(d)
      /\ pc'[c] = "enqueue" /\ left'[c] = StoreTime
      /\ Winner(c) /\ left[c] \in Nat /\ began[c] \in Nat
      /\ h \in Processes /\ at[c] \in Tasks /\ began[c] <= clock
  BY <1>1, <1>2, Lookups DEF Same, CheckTypes, Winner, TimeInv
<1> HIDE DEF q, h
<1>6. ASSUME NEW e \in Checks
      PROVE  Claim(e, q, t, m)' <=> Claim(e, q, t, m)
  <2>1. CASE e # c
    BY <1>5, <2>1, SameClaim
  <2>2. CASE e = c
    BY <1>2, <1>5, <2>2 DEF Claim, Keeper, Minute
  <2> QED BY <2>1, <2>2
<1>7. ASSUME NEW e \in Checks PROVE HoldInv(e, q, t, m)'
  <2>1. SUFFICES ASSUME Claim(e, q, t, m)'
                 PROVE  /\ lock'[q][pattern'[t]] <= Take(m)' + LockTtl
                        /\ clock' + left'[e] < lock'[q][pattern'[t]]
                        /\ IF pc'[e] = "enqueue"
                           THEN clock' + left'[e] <= Take(m)' + 2 * StoreTime
                           ELSE clock' + left'[e] <= Take(m)' + StoreTime
    BY <1>4 DEF HoldInv
  <2>2. Claim(e, q, t, m) /\ HoldInv(e, q, t, m)
    BY <1>1, <1>6, <2>1 DEF TaskInv, q
  <2>3. CASE e # c
    BY <1>2, <1>4, <1>5, <2>2, <2>3 DEF HoldInv, Same
  <2>4. CASE e = c
    <3>1. LockOf(c) = lock[q][pattern[t]]
      BY <2>2, <2>4 DEF LockOf, Claim
    <3>2. clock + left[c] + StoreTime < lock[q][pattern[t]]
      BY <1>1, <1>5, <3>1 DEF CheckInv
    <3>3. /\ lock[q][pattern[t]] <= Take(m) + LockTtl
          /\ clock + left[c] <= Take(m) + StoreTime
      BY <1>2, <2>2, <2>4 DEF HoldInv
    <3>4. Take(m) \in Nat
      BY <1>3 DEF Take
    <3> QED BY <1>2, <1>3, <1>4, <1>5, <2>4, <3>2, <3>3, <3>4
  <2> QED BY <2>3, <2>4
<1>8. ASSUME NEW r \in Processes PROVE StampInv(r, q, t, m)'
  <2>1. SUFFICES ASSUME Keeper(r) = q, lastRun'[r][t] >= m * MinuteLength
                 PROVE  \E e \in Checks :
                          /\ Claim(e, q, t, m)'
                          /\ Host[e] = r /\ pc'[e] = "enqueue"
    BY <1>4 DEF StampInv, Keeper
  <2>2. CASE r = h /\ at[c] = t
    <3>1. lastRun'[r][t] = began[c]
      BY <1>1, <1>2, <1>5, <2>2 DEF CronTypeOK
    <3>2. began[c] < m * MinuteLength + MinuteLength
      BY <1>3, <1>5, InTime
    <3>3. Minute(began[c]) = m
      BY <1>3, <1>5, <2>1, <3>1, <3>2, MinuteIs
    <3>4. Claim(c, q, t, m)
      BY <1>5, <2>1, <2>2, <3>3 DEF Claim, h
    <3> QED BY <1>5, <1>6, <2>2, <3>4 DEF h
  <2>3. CASE ~(r = h /\ at[c] = t)
    <3>1. lastRun'[r][t] = lastRun[r][t]
      BY <1>1, <1>2, <1>5, <2>3 DEF CronTypeOK
    <3>2. PICK e \in Checks : /\ Claim(e, q, t, m)
                              /\ Host[e] = r /\ pc[e] = "enqueue"
      BY <1>1, <2>1, <3>1 DEF TaskInv, StampInv, q
    <3>3. e # c
      BY <1>2, <3>2
    <3> QED BY <1>5, <1>6, <3>2, <3>3 DEF Same
  <2> QED BY <2>2, <2>3
<1>9. CASE Claimed(q, t, m)
  <2>1. Claimed(q, t, m)'
    BY <1>6, <1>9 DEF Claimed
  <2> QED BY <1>4, <1>7, <1>8, <2>1 DEF TaskInv, q
<1>10. CASE ~Claimed(q, t, m)
  <2>1. SeekInv(p, t, m)
    BY <1>1, <1>10 DEF TaskInv, q
  <2>2. \A d \in Checks : Seeks(d, p, m)' <=> Seeks(d, p, m)
    BY <1>2, <1>4, <1>5 DEF Seeks, Same
  <2>3. \A d \in Checks : Seeks(d, p, m) =>
          at'[d] <= t /\ (at'[d] = t => pc'[d] = "lock")
    BY <1>2, <1>5, <2>1 DEF SeekInv, Same
  <2>4. SeekInv(p, t, m)'
    BY <1>2, <1>4, <2>1, <2>2, <2>3 DEF SeekInv
  <2> QED BY <1>4, <1>7, <1>8, <2>4 DEF TaskInv, q
<1> QED BY <1>9, <1>10

\* The lock is asked for.
LEMMA LockSeeks ==
  ASSUME NEW p \in Processes, NEW t \in Tasks, NEW m \in Minutes,
         Setting(p, t, m), NEW c \in Checks, Lock(c)
  PROVE  TaskInv(p, t, m)'
<1> DEFINE q == Keeper(p)
           k == pattern[at[c]]
           kc == Keeper(Host[c])
           l == lock[q][pattern[t]]
           mine == kc = q /\ at[c] = t
<1>1. /\ CronTypeOK /\ CheckTypes /\ TimeInv /\ DistinctPatterns
      /\ TaskInv(p, t, m)
  BY DEF Setting, CronInv, CronTypeOK, CheckTypes
<1>2. /\ pc[c] = "lock" /\ pc' = [pc EXCEPT ![c] = "reply"]
      /\ UNCHANGED <<pattern, clock, lastRun, began, at, left, polled, faults>>
  BY DEF Lock
<1> DEFINE free == clock >= lock[kc][k]
<1>3. /\ got' = [got EXCEPT ![c] = free]
      /\ lock' = IF free THEN [lock EXCEPT ![kc][k] = clock + LockTtl] ELSE lock
  BY DEF Lock
<1>4. /\ Wait(m) \in Nat /\ Pass \in Nat /\ clock \in Nat /\ m \in Nat
      /\ StoreTime \in Nat /\ LockTtl \in Nat /\ LockTtl > 2 * StoreTime
      /\ m * MinuteLength \in Nat /\ MinuteLength \in Nat /\ l \in Nat
      /\ m * MinuteLength + Pass + LockTtl <= Wait(m)
      /\ q \in Processes /\ pattern[t] \in Patterns
  BY SettingTypes
<1>5. /\ Wait(m)' = Wait(m) /\ Pass' = Pass /\ q' = q /\ Take(m)' = Take(m)
      /\ Take(m) = Wait(m) + 2 * Pass + 1
  BY <1>2 DEF Wait, Take, Round, Pass, Keeper
<1>6. /\ \A d \in Checks : d # c => Same(d)
      /\ pc'[c] = "reply"
      /\ left[c] \in Nat /\ left[c] <= StoreTime /\ began[c] \in Nat
      /\ at[c] \in Tasks /\ k \in Patterns /\ kc \in Processes
      /\ began[c] <= clock /\ clock + left[c] <= began[c] + Pass
  BY <1>1, <1>2, <1>3, Lookups, WithinPass DEF Same, CheckTypes
<1>7. ~Claim(c, q, t, m)
  BY <1>2 DEF Claim, Winner
<1>8. \A d \in Checks : Seeks(d, p, m)' <=> Seeks(d, p, m)
  BY <1>2, <1>5, <1>6 DEF Seeks, Same
<1> HIDE DEF q, k, kc, l, free
\* A check that neither gets the lock for this minute nor finds it free.
<1>9. ASSUME ~Claim(c, q, t, m)', lock'[q][pattern[t]] = l,
             ~Claimed(q, t, m) => ~(Seeks(c, p, m) /\ at[c] = t)
      PROVE  TaskInv(p, t, m)'
  <2>1. /\ \A e \in Checks : HoldInv(e, q, t, m)'
        /\ \A r \in Processes : StampInv(r, q, t, m)'
    BY <1>2, <1>4, <1>5, <1>6, <1>7, <1>9, ClaimsStay DEF q, l
  <2>2. CASE Claimed(q, t, m)
    <3>1. PICK e \in Checks : Claim(e, q, t, m)
      BY <2>2 DEF Claimed
    <3>2. Claim(e, q, t, m)'
      BY <1>6, <1>7, <3>1, SameClaim
    <3> QED BY <1>5, <2>1, <3>2 DEF TaskInv, Claimed, q
  <2>3. CASE ~Claimed(q, t, m)
    <3>1. SeekInv(p, t, m)
      BY <1>1, <2>3 DEF TaskInv, q
    <3>2. \A d \in Checks : Seeks(d, p, m) =>
            at'[d] <= t /\ (at'[d] = t => pc'[d] = "lock")
      BY <1>2, <1>6, <1>9, <2>3, <3>1 DEF SeekInv, Same
    <3>3. lock'[q][pattern'[t]] <= Wait(m)'
      BY <1>2, <1>5, <1>9, <3>1 DEF SeekInv, l, q
    <3>4. SeekInv(p, t, m)'
      BY <1>2, <1>5, <1>8, <3>1, <3>2, <3>3 DEF SeekInv, q
    <3> QED BY <1>5, <2>1, <3>4 DEF TaskInv, q
  <2> QED BY <2>2, <2>3
<1>10. CASE ~mine
  <2>1. ~Claim(c, q, t, m)'
    BY <1>2, <1>10 DEF Claim, kc, Keeper
  <2>2. ~(kc = q /\ k = pattern[t])
    BY <1>1, <1>6, <1>10 DEF DistinctPatterns, k
  <2>3. lock'[q][pattern[t]] = l
    <3>1. CASE free
      <4>1. PICK v : lock' = [lock EXCEPT ![kc][k] = v]
        BY <1>3, <3>1
      <4>2. lock \in [Processes -> [Patterns -> Nat]]
        BY <1>1 DEF CronTypeOK
      <4> QED BY <1>4, <1>6, <2>2, <4>1, <4>2 DEF l
    <3>2. CASE ~free
      BY <1>3, <3>2 DEF l
    <3> QED BY <3>1, <3>2
  <2>4. ~(Seeks(c, p, m) /\ at[c] = t)
    BY <1>10 DEF Seeks, q, kc
  <2> QED BY <1>9, <2>1, <2>3, <2>4
<1>11. CASE mine /\ ~(clock >= l)
  <2>a. ~free
    BY <1>11 DEF free, l, k
  <2>1. ~got'[c] /\ lock' = lock
    BY <1>1, <1>3, <2>a DEF CheckTypes
  <2>2. ~Claim(c, q, t, m)'
    BY <1>6, <2>1 DEF Claim, Winner
  <2>3. ASSUME ~Claimed(q, t, m), Seeks(c, p, m) PROVE FALSE
    <3>1. l <= Wait(m)
      BY <1>1, <2>3 DEF TaskInv, SeekInv, q, l
    <3>2. began[c] >= Wait(m)
      BY <2>3 DEF Seeks
    <3> QED BY <1>4, <1>6, <1>11, <3>1, <3>2
  <2> QED BY <1>9, <2>1, <2>2, <2>3 DEF l
<1>12. CASE mine /\ clock >= l
  <2>a. free
    BY <1>12 DEF free, l, k
  <2>1. lock' = [lock EXCEPT ![q][pattern[t]] = clock + LockTtl]
    BY <1>3, <1>12, <2>a DEF k
  <2>2. got'[c] /\ lock'[q][pattern[t]] = clock + LockTtl
    <3>1. got'[c]
      BY <1>1, <1>3, <2>a DEF CheckTypes
    <3> QED BY <1>1, <1>4, <2>1, <3>1 DEF CronTypeOK
  <2>3. ~Claimed(q, t, m)
    <3>1. SUFFICES ASSUME NEW e \in Checks, Claim(e, q, t, m) PROVE FALSE
      BY DEF Claimed
    <3>2. clock + left[e] < l /\ left[e] \in Nat
      BY <1>1, <3>1, Lookups DEF TaskInv, HoldInv, q, l
    <3> QED BY <1>4, <1>12, <3>2
  <2>4. ASSUME NEW e \in Checks, Claim(e, q, t, m)' PROVE e = c
    BY <1>6, <2>3, <2>4, SameClaim DEF Claimed
  <2>5. SeekInv(p, t, m) /\ clock <= Take(m)
    BY <1>1, <2>3, InTime DEF TaskInv, q
  <2>6. ASSUME NEW r \in Processes PROVE StampInv(r, q, t, m)'
    <3>1. StampInv(r, q, t, m)
      BY <1>1 DEF TaskInv, q
    <3>2. ~(Keeper(r) = q /\ lastRun[r][t] >= m * MinuteLength)
      BY <2>3, <3>1 DEF StampInv, Claimed
    <3> QED BY <1>2, <1>5, <3>2 DEF StampInv, Keeper
  <2>7. CASE Minute(began[c]) = m
    <3>1. Claim(c, q, t, m)'
      BY <1>2, <1>6, <1>12, <2>2, <2>7 DEF Claim, Winner, kc, Keeper, Minute
    <3>2. ASSUME NEW e \in Checks PROVE HoldInv(e, q, t, m)'
      <4>1. SUFFICES ASSUME e = c
                     PROVE  /\ lock'[q][pattern[t]] <= Take(m) + LockTtl
                            /\ clock + left[c] < lock'[q][pattern[t]]
                            /\ clock + left[c] <= Take(m) + StoreTime
        BY <1>2, <1>5, <1>6, <2>4 DEF HoldInv
      <4>2. Take(m) \in Nat
        BY <1>4, <1>5
      <4> QED BY <1>4, <1>6, <2>2, <2>5, <4>2
    <3> QED BY <1>5, <2>6, <3>1, <3>2 DEF TaskInv, Claimed, q
  <2>8. CASE Minute(began[c]) # m
    <3>1. ~Claim(c, q, t, m)'
      BY <1>2, <2>8 DEF Claim, Minute
    <3>2. \A e \in Checks : HoldInv(e, q, t, m)'
      BY <2>4, <3>1 DEF HoldInv
    <3>3. began[c] < m * MinuteLength
      <4>1. PICK s \in Nat : s = m * MinuteLength
        BY <1>4
      <4>2. ~(s <= began[c] /\ began[c] < s + MinuteLength)
        BY <1>4, <1>6, <2>8, <4>1, MinuteIs
      <4>3. clock < s + MinuteLength
        BY <4>1, InTime
      <4> QED BY <1>4, <1>6, <4>1, <4>2, <4>3
    <3>4. clock + LockTtl <= Wait(m)
      BY <1>4, <1>6, <3>3
    <3>5. ~Seeks(c, p, m)
      BY <1>4, <1>6, <3>3 DEF Seeks
    <3>6. \A d \in Checks : Seeks(d, p, m) =>
            at'[d] <= t /\ (at'[d] = t => pc'[d] = "lock")
      BY <1>6, <2>5, <3>5 DEF SeekInv, Same
    <3>7. lock'[q][pattern'[t]] <= Wait(m)'
      BY <1>2, <1>5, <2>2, <3>4
    <3>8. SeekInv(p, t, m)'
      BY <1>2, <1>5, <1>8, <2>5, <3>6, <3>7 DEF SeekInv, q
    <3> QED BY <1>5, <2>6, <3>2, <3>8 DEF TaskInv, q
  <2> QED BY <2>7, <2>8
<1> QED BY <1>10, <1>11, <1>12

\* What has been enqueued stays enqueued.
LEMMA StaysDone ==
  ASSUME CronTypeOK, [CronNext]_cronVars, NEW t \in Tasks, NEW m \in Minutes,
         Open(t, m)'
  PROVE  Open(t, m)
<1>1. CASE fires' = fires /\ dropped \subseteq dropped'
  BY <1>1 DEF Open
<1>2. ASSUME NEW c \in Checks, Enqueue(c) PROVE Open(t, m)
  <2>1. /\ fires' = [fires EXCEPT ![Host[c]][at[c]][Minute(began[c])] = @ + 1]
        /\ dropped' = dropped /\ pc[c] # "idle"
    BY <1>2 DEF Enqueue
  <2>2. /\ Host[c] \in Processes /\ at[c] \in Tasks
        /\ Minute(began[c]) \in Minutes
    BY <2>1, Lookups
  <2>3. fires \in [Processes -> [Tasks -> [Minutes -> Nat]]]
    BY DEF CronTypeOK
  <2>4. \A p \in Processes :
          \/ fires'[p][t][m] = fires[p][t][m]
          \/ fires'[p][t][m] = fires[p][t][m] + 1
    BY <2>1, <2>2, <2>3, OneFire
  <2>5. \A p \in Processes : fires[p][t][m] \in Nat
    BY <2>3
  <2>6. \A p \in Processes : fires[p][t][m] = 0
    BY <2>4, <2>5 DEF Open
  <2> QED BY <2>1, <2>6 DEF Open
<1> QED BY <1>1, <1>2 DEF CronNext, Begin, Lock, Won, Lost, EnqueueRejects,
                          CronTick, cronVars

LEMMA TaskStep ==
  ASSUME NEW p \in Processes, NEW t \in Tasks, NEW m \in Minutes,
         Setting(p, t, m), CronTypeOK', TimeInv', Open(t, m)',
         [CronNext]_cronVars
  PROVE  TaskInv(p, t, m)'
<1> DEFINE q == Keeper(p)
<1>1. CronTypeOK /\ TimeInv /\ TaskInv(p, t, m)
  BY DEF Setting, CronInv
<1>2. /\ Wait(m) \in Nat /\ clock \in Nat /\ t \in Nat
      /\ clock \in 0..MaxTime
  BY <1>1, SettingTypes DEF CronTypeOK
<1>3. ASSUME NEW c \in Checks, pc[c] # "idle"
      PROVE  /\ began[c] \in 0..MaxTime /\ began[c] <= clock
             /\ at[c] \in Tasks /\ at[c] \in Nat /\ at[c] + 1 \in Nat \ {0}
  <2>1. at[c] \in Tasks /\ began[c] <= clock
    BY <1>1, <1>3, Lookups, WithinPass
  <2>2. began[c] \in 0..MaxTime
    BY <1>1 DEF CronTypeOK
  <2> QED BY <2>1, <2>2, CronAssumption DEF Tasks
<1> HIDE DEF q
\* A check that is past the lock and goes on.
<1>4. ASSUME NEW c \in Checks, pc[c] # "idle", pc[c] # "lock",
             ~Claim(c, q, t, m), Scan(c, at[c] + 1, began[c]),
             UNCHANGED <<pattern, clock, lastRun, lock, faults, polled>>
      PROVE  TaskInv(p, t, m)'
  <2>1. ASSUME ~Claimed(q, t, m), Host[c] = p, began[c] >= Wait(m)
        PROVE  at[c] + 1 <= t
    <3>1. Seeks(c, p, m)
      BY <1>4, <2>1 DEF Seeks
    <3>2. at[c] <= t /\ at[c] # t
      BY <1>1, <1>4, <2>1, <3>1 DEF TaskInv, SeekInv, q
    <3> QED BY <1>2, <1>3, <1>4, <3>2
  <2>2. PICK n \in Nat \ {0} : n = at[c] + 1
    BY <1>3, <1>4
  <2>3. Scan(c, n, began[c])
    BY <1>4, <2>2, Zenon
  <2>4. ~Claimed(q, t, m) /\ Host[c] = p /\ began[c] >= Wait(m) => n <= t
    BY <2>1, <2>2
  <2>5. began[c] \in 0..MaxTime /\ began[c] <= clock
    BY <1>3, <1>4
  <2> QED BY <1>4, <2>3, <2>4, <2>5, ScanSeeks DEF q
<1>5. ASSUME NEW c \in Checks, Begin(c) PROVE TaskInv(p, t, m)'
  <2>1. /\ pc[c] = "idle" /\ Scan(c, 1, clock)
        /\ polled' = polled \cup {Host[c]}
        /\ UNCHANGED <<pattern, clock, lastRun, lock, faults>>
    BY <1>5 DEF Begin
  <2>2. ~Claim(c, q, t, m)
    BY <2>1 DEF Claim, Winner
  <2>3. p \in polled' => p \in polled \/ (Host[c] = p /\ clock = clock)
    BY <2>1
  <2>4. 1 \in Nat \ {0} /\ 1 <= t /\ clock <= clock
    BY <1>2 DEF Tasks
  <2> QED BY <1>2, <2>1, <2>2, <2>3, <2>4, ScanSeeks DEF q
<1>6. ASSUME NEW c \in Checks, Lock(c) PROVE TaskInv(p, t, m)'
  BY <1>6, LockSeeks
<1>7. ASSUME NEW c \in Checks, Won(c) PROVE TaskInv(p, t, m)'
  BY <1>7, WonSeeks
<1>8. ASSUME NEW c \in Checks, Lost(c) PROVE TaskInv(p, t, m)'
  <2>1. /\ pc[c] # "idle" /\ pc[c] # "enqueue"
        /\ Scan(c, at[c] + 1, began[c])
        /\ UNCHANGED <<pattern, clock, lastRun, lock, polled>>
    BY <1>8 DEF Lost
  <2>2. CASE pc[c] = "reply" /\ ~got[c] /\ faults' = faults
    <3>1. ~Claim(c, q, t, m)
      BY <2>2 DEF Claim, Winner
    <3> QED BY <1>4, <2>1, <2>2, <3>1
  <2>3. CASE faults' = faults + 1
    <3>1. PICK n \in Nat \ {0} : n = at[c] + 1
      BY <1>3, <2>1
    <3>2. Scan(c, n, began[c])
      BY <2>1, <3>1, Zenon
    <3>3. began[c] \in 0..MaxTime
      BY <1>3, <2>1
    <3> QED BY <2>1, <2>3, <3>2, <3>3, FaultPutsOff
  <2> QED BY <1>8, <2>2, <2>3 DEF Lost
<1>9. ASSUME NEW c \in Checks, Enqueue(c) PROVE TaskInv(p, t, m)'
  <2>1. /\ pc[c] = "enqueue" /\ Scan(c, at[c] + 1, began[c])
        /\ fires' = [fires EXCEPT ![Host[c]][at[c]][Minute(began[c])] = @ + 1]
        /\ UNCHANGED <<pattern, clock, lastRun, lock, polled, faults>>
    BY <1>9 DEF Enqueue
  <2>2. /\ Host[c] \in Processes /\ at[c] \in Tasks
        /\ Minute(began[c]) \in Minutes
    BY <1>1, <2>1, Lookups
  <2>3. fires \in [Processes -> [Tasks -> [Minutes -> Nat]]]
    BY <1>1 DEF CronTypeOK
  <2>4. fires'[Host[c]][at[c]][Minute(began[c])]
          = fires[Host[c]][at[c]][Minute(began[c])] + 1
    BY <2>1, <2>2, <2>3, OneFire
  <2>5. fires[Host[c]][at[c]][Minute(began[c])] \in Nat
    BY <2>2, <2>3
  <2>6. ~(at[c] = t /\ Minute(began[c]) = m)
    BY <2>2, <2>4, <2>5 DEF Open
  <2>7. ~Claim(c, q, t, m)
    BY <2>6 DEF Claim
  <2> QED BY <1>4, <2>1, <2>7
<1>10. ASSUME NEW c \in Checks, EnqueueRejects(c) PROVE TaskInv(p, t, m)'
  <2>1. /\ pc[c] = "enqueue" /\ faults' = faults + 1
        /\ dropped' = dropped \cup {<<at[c], Minute(began[c])>>}
        /\ UNCHANGED <<pattern, clock, lastRun, lock>>
    BY <1>10 DEF EnqueueRejects
  <2>2. ~(at[c] = t /\ Minute(began[c]) = m)
    BY <2>1 DEF Open
  <2>3. ~Claim(c, q, t, m)
    BY <2>2 DEF Claim
  <2>4. PICK n \in Nat \ {0} : n = NTasks + 1
    BY CronAssumption
  <2>5. Scan(c, n, began[c])
    BY <1>10, <2>4, Zenon DEF EnqueueRejects
  <2>6. began[c] \in 0..MaxTime
    BY <1>3, <2>1
  <2> QED BY <2>1, <2>3, <2>5, <2>6, FaultPutsOff DEF q
<1>11. CASE CronTick
  BY <1>11, TickSeeks
<1>12. CASE UNCHANGED cronVars
  BY <1>1, <1>12 DEF cronVars, TaskInv, Claimed, Claim, Winner, SeekInv,
       Seeks, HoldInv, StampInv, Keeper, Minute, Take, Wait, Round, Pass
<1> QED BY <1>5, <1>6, <1>7, <1>8, <1>9, <1>10, <1>11, <1>12 DEF CronNext

LEMMA DeadlineStart ==
  ASSUME MinuteIsLong, CronInit
  PROVE  DeadlineInv
<1>1. CronTypeOK
  BY CronTypesInit
<1>2. SUFFICES ASSUME NEW p \in Processes, NEW t \in Tasks,
                      NEW m \in Minutes
               PROVE  TaskInv(p, t, m)
  BY DEF DeadlineInv
<1>3. m \in Nat
  BY CronAssumption DEF Minutes
<1>4. Wait(m) \in Nat /\ Pass \in Nat /\ m * MinuteLength \in Nat
  BY <1>1, <1>3, Numbers
<1>5. /\ \A c \in Checks : pc[c] = "idle"
      /\ clock = 0 /\ polled = {}
      /\ \A r \in Processes : lastRun[r][t] = -1
  BY DEF CronInit, Never
<1>6. lock[Keeper(p)][pattern[t]] = 0
  <2>1. Keeper(p) \in Processes /\ pattern[t] \in Patterns
    BY <1>1, KeeperIsProcess DEF CronTypeOK
  <2> QED BY <2>1 DEF CronInit
<1>7. SeekInv(p, t, m)
  BY <1>4, <1>5, <1>6 DEF SeekInv, Seeks
<1>8. \A c \in Checks : HoldInv(c, Keeper(p), t, m)
  BY <1>5 DEF HoldInv, Claim, Winner
<1>9. \A r \in Processes : StampInv(r, Keeper(p), t, m)
  BY <1>4, <1>5 DEF StampInv
<1> QED BY <1>7, <1>8, <1>9 DEF TaskInv

\* EveryMinuteFires, for any tasks of distinct patterns, processes, checks and
\* faults: no minute passes in which a task that should be enqueued is not, if
\* the lock lasts longer than two calls of the storage and a minute longer than
\* the passes over the tasks and the locks that may come before it.
THEOREM CronEveryMinuteFires ==
  ASSUME Checks # {}, LockOutlivesCalls, MinuteIsLong
  PROVE  CronSpec /\ DistinctPatterns => []EveryMinuteFires
<1> DEFINE Inv == CronInv /\ TimeInv /\ DistinctPatterns /\ DeadlineInv
<1>1. CronInit /\ DistinctPatterns => Inv
  BY CronStart, TimeStart, DeadlineStart
<1>2. Inv /\ [CronNext]_cronVars => Inv'
  <2> SUFFICES ASSUME Inv, [CronNext]_cronVars PROVE Inv'
    OBVIOUS
  <2>1. CronInv' /\ CronTypeOK' /\ CronTypeOK
    BY CronStep DEF CronInv
  <2>2. TimeInv'
    BY <2>1, TimeStep
  <2>3. pattern' = pattern
    BY DEF CronNext, Begin, Lock, Won, Lost, Enqueue, EnqueueRejects, CronTick,
           cronVars
  <2>4. DistinctPatterns'
    BY <2>3 DEF DistinctPatterns
  <2>5. DeadlineInv'
    <3>1. SUFFICES ASSUME NEW p \in Processes, NEW t \in Tasks,
                          NEW m \in Minutes, Asked(p, t, m)', Open(t, m)'
                   PROVE  TaskInv(p, t, m)'
      BY DEF DeadlineInv, Minutes, Minute
    <3>2. Asked(p, t, m)
      BY <2>3, <3>1 DEF Asked, Expression, Minutes, Minute
    <3>3. Open(t, m)
      BY <2>1, <3>1, StaysDone
    <3>4. Setting(p, t, m)
      BY <3>2, <3>3 DEF Setting, DeadlineInv
    <3> QED BY <2>1, <2>2, <3>1, <3>4, TaskStep
  <2> QED BY <2>1, <2>2, <2>4, <2>5
<1>3. Inv => EveryMinuteFires
  <2>1. SUFFICES ASSUME Inv, NEW t \in Tasks, NEW m \in Minutes,
                        Interval[pattern[t]] = 0, m \in Match[pattern[t]],
                        clock > (m + 1) * MinuteLength + 2 * StoreTime,
                        ~\E p \in Processes : fires[p][t][m] > 0,
                        <<t, m>> \notin dropped
                 PROVE  FALSE
    BY DEF EveryMinuteFires
  <2>2. PICK c \in Checks : TRUE
    OBVIOUS
  <2>3. PICK p \in Processes : p = Host[c]
    BY CronAssumption
  <2>4. CronTypeOK
    BY <2>1 DEF CronInv
  <2>5. \A r \in Processes : fires[r][t][m] = 0
    <3>1. \A r \in Processes : fires[r][t][m] \in Nat
      BY <2>4 DEF CronTypeOK
    <3> QED BY <2>1, <3>1
  <2>6. Setting(p, t, m)
    <3>1. Asked(p, t, m)
      BY <2>1, <2>3 DEF Asked, Expression
    <3>2. Open(t, m)
      BY <2>1, <2>5 DEF Open
    <3> QED BY <2>1, <3>1, <3>2 DEF Setting, DeadlineInv
  <2>7. PICK s \in Nat : s = m * MinuteLength
    BY <2>6, SettingTypes
  <2>8. clock < s + MinuteLength
    BY <2>6, <2>7, InTime
  <2>9. /\ m \in Nat /\ MinuteLength \in Nat /\ StoreTime \in Nat
        /\ clock \in Nat
    BY <2>6, SettingTypes
  <2>10. (m + 1) * MinuteLength = s + MinuteLength
    BY <2>7, <2>9
  <2> QED BY <2>1, <2>7, <2>8, <2>9, <2>10
<1> QED BY <1>1, <1>2, <1>3, PTL DEF CronSpec
=============================================================================
