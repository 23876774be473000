CONSTANTS
  NumSteps = 2
  MaxRetries = 0
  MaxRuns = 2
  MaxFailures = 0
  Faults = {"deadline"}
SPECIFICATION Spec
INVARIANTS
  AppliedOnce
CHECK_DEADLOCK FALSE
