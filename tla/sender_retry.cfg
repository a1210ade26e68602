SPECIFICATION FairSpec
CONSTANTS
  Chunks = {a, b}
  Connections = 2
  MaxAttempts = 2
  MaxFailures = 1
  None = None
CHECK_DEADLOCK FALSE
PROPERTIES RetriedEventually
