CONSTANTS
  Refreshes = {c1}
  MaxTokens = 2
  MaxStoreErrors = 0
SPECIFICATION RSpec
INVARIANT NeverLockedOut
CHECK_DEADLOCK FALSE
