CONSTANTS
  MaxConcurrency = 2
  Mounted = TRUE
  MaxStrays = 4
  MaxImmediates = 3
  p1 = p1
  p2 = p2
  c1 = c1
  c2 = c2
  c3 = c3
  k1 = k1
  k2 = k2
  Processes = {p1, p2}
  Checks = {c1, c2, c3}
  Host <- TwoHosts
  NTasks = 1
  Patterns = {k1, k2}
  Interval <- Intervals
  Match <- AllMinutes
  MinuteLength = 9
  LockTtl = 3
  SharedLock = TRUE
  StoreTime = 1
  MaxFaults = 1
  MaxTime = 21
  NSteps = 4
  Slots = 3
  MaxAttempts = 2
  MaxSagaFaults = 2
SPECIFICATION SchedulerSpec
INVARIANTS
  SlotsRespected
  NeverStalls
  OncePerProcess
  EveryMinuteFires
  RollbackExact
PROPERTIES
  PollsAgain
  NoAcquireAfterStop
  IntervalKept
  RollbackEnds
CHECK_DEADLOCK FALSE
