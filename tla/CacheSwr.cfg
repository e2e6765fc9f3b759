CONSTANTS
  Requests = {r1, r2}
  Ttl = 1
  Swr = 5
  LockTtl = 4
  StoreTime = 1
  HandlerTime = 1
  MaxTime = 9
  MaxVersion = 1
  MaxFaults = 1
SPECIFICATION Spec
SYMMETRY Symmetry
INVARIANTS
  
  CacheKeepsUp
CHECK_DEADLOCK FALSE
