\* A steer that resolves its content while a rewind replaces the agent.
CONSTANTS
  s1 = s1
  s2 = s2
  Ids = {s1}
  Old = {s1}
  MaxSessions = 1
  MaxCalls = 2
  MaxSteers = 1
SPECIFICATION Spec
CHECK_DEADLOCK FALSE
PROPERTY SteersReachTheSession
