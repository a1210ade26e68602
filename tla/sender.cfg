SPECIFICATION FairSpec
CONSTANTS
  Chunks = {a, b, c}
  Connections = 2
  MaxAttempts = 2
  MaxFailures = 2
  None = None
CHECK_DEADLOCK FALSE
INVARIANTS TypeOK SlotsAccounted OnePlace FinishLosesNothing
PROPERTIES HealthySends
