\* A prompt accepted while its session is being deleted.
CONSTANTS
  s1 = s1
  s2 = s2
  Ids = {s1}
  Old = {s1}
  MaxSessions = 1
  MaxCalls = 3
  MaxSteers = 0
SPECIFICATION Spec
CHECK_DEADLOCK FALSE
INVARIANT EvictedNeverRuns
