\* A delete beside an append that is past its access guard.
CONSTANTS
  p = p
  q = q
  Procs = {p}
  Kinds = {"create", "append", "delete"}
  Attempts = 2
  MaxOps = 4
  MaxCrashes = 0
  MaxFaults = 0
SPECIFICATION Spec
CHECK_DEADLOCK FALSE
INVARIANT NoOrphan
