CONSTANTS
  j1 = j1
  j2 = j2
  w1 = w1
  w2 = w2
  p1 = p1
  p2 = p2
  Jobs = {j1, j2}
  NoJob = NoJob
  Workers = {w1, w2}
  Processes = {p1, p2}
  Host <- TwoHosts
  Priority <- Ranked
  MaxAttempts = 2
  Delays = {0, 1}
  LockDuration = 5
  JobTimeout = 1
  RetryDelay = 1
  DlqQueue = FALSE
  StoreTime = 1
  LateErrors = FALSE
  MaxFaults = 1
SPECIFICATION FairSpec
PROPERTIES
  Implements
  EveryJobSettles
