\* A journal write that fails leaves a torn line, and the next line is run into it.
CONSTANTS
  NumSteps = 1
  MaxRetries = 1
  MaxRuns = 1
  MaxFailures = 1
  Faults = {"journal"}
SPECIFICATION Spec
INVARIANTS
  ActNeedsRecord
CHECK_DEADLOCK FALSE
