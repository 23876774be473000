\* Runners abandoned at their deadline and replies that miss their contract.
CONSTANTS
  NumSteps = 2
  MaxRetries = 1
  MaxRuns = 2
  MaxFailures = 0
  Faults = {"crash", "cancel", "deadline", "contract", "moved"}
SPECIFICATION FairSpec
CHECK_DEADLOCK FALSE
INVARIANTS
  TypeOK
  SeedsLanded
PROPERTIES
  RunSettles
