CONSTANTS
  j1 = j1
  j2 = j2
  w1 = w1
  w2 = w2
  e1 = e1
  p1 = p1
  p2 = p2
  Jobs = {j1, j2}
  NoJob = NoJob
  Workers = {w1, w2}
  Producers = {e1}
  Processes = {p1, p2}
  Host <- TwoHosts
  Priority <- Ranked
  MaxAttempts = 2
  DlqQueue = FALSE
  LateErrors = FALSE
  MaxFaults = 2
SPECIFICATION FairSpec
PROPERTIES
  Implements
  EveryJobSettles
