SPECIFICATION Spec
CONSTANTS
  Requests = {r1}
INVARIANT TimeoutArmed
CHECK_DEADLOCK FALSE
