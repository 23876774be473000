\* One process, every operation, a death and a short write.
CONSTANTS
  p = p
  q = q
  Procs = {p}
  Kinds = {"create", "append", "title", "delete"}
  Attempts = 2
  MaxOps = 5
  MaxCrashes = 1
  MaxFaults = 1
SPECIFICATION FairSpec
CHECK_DEADLOCK FALSE
INVARIANTS
  HeaderFirst
PROPERTIES
  EveryCallSettles
  ImplementsEntryLog
