SPECIFICATION Spec
CONSTANTS
  Requests = {r1, r2}
INVARIANTS
  OneResponse
  CloseHooksOnce
  DrainedBeforeShutdown
SYMMETRY Symmetry
CHECK_DEADLOCK FALSE
