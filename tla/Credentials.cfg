CONSTANTS
  Requests = {r1, r2}
  MaxIds = 3
  MaxCalls = 2
  MaxFaults = 1
  Refreshes = {c1, c2, c3}
  MaxTokens = 4
  MaxStoreErrors = 2
SPECIFICATION CredentialsSpec
SYMMETRY Symmetry
INVARIANTS
  DeadStaysDead
  SessionsKept
  RotationSafe
CHECK_DEADLOCK FALSE
