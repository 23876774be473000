\* A run, two resumes: crashes, power cuts, failing writes, cancels, edits.
CONSTANTS
  NumSteps = 2
  MaxRetries = 1
  MaxRuns = 3
  MaxFailures = 1
  Faults = {"crash", "journal", "cancel", "edit", "moved"}
SPECIFICATION Spec
CHECK_DEADLOCK FALSE
INVARIANTS
  AppliedOnce
  LandedIsWitnessed
PROPERTIES
  RerunIsJustified
