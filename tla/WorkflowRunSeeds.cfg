CONSTANTS
  NumSteps = 2
  MaxRetries = 0
  MaxRuns = 2
  MaxFailures = 0
  Faults = {"crash"}
SPECIFICATION Spec
INVARIANTS
  LaterRolesSeeIt
CHECK_DEADLOCK FALSE
