CONSTANTS
  Targets = {1, 2}
  Parallelisms = {1, 2}
  MaxReplaced = 3
  MaxFaults = 1
SPECIFICATION FairSpec
INVARIANTS
  PlacesKept
PROPERTIES
  CapacityReturns
  RestartEnds
CHECK_DEADLOCK FALSE
