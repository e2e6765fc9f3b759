CONSTANTS
  r1 = r1
  r2 = r2
  r3 = r3
  r4 = r4
  get = get
  post = post
  None = None
  Requests = {r1, r2, r3, r4}
  Keys = {get, post}
  KeyOf <- Mixed
  Gets = {get}
  Threshold = 2
  MaxProbes = 2
  MaxRetries = 1
  EnableCache = TRUE
SPECIFICATION FairSpec
INVARIANTS
  CountersMatchState
  OneFlightPerGet
  MapIsInFlight
PROPERTY EveryRequestReturns
