SPECIFICATION FairSpec
CONSTANTS
  Chunks = {a, b}
  Connections = 2
  MaxAttempts = 2
  MaxFailures = 0
  None = None
CHECK_DEADLOCK FALSE
PROPERTIES StopReturns
