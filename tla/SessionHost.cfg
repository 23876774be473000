\* One stored session and one to be created, under a cap of one live session,
\* which two requests at once can exceed.
CONSTANTS
  s1 = s1
  s2 = s2
  Ids = {s1, s2}
  Old = {s1}
  MaxSessions = 1
  MaxCalls = 4
  MaxSteers = 2
SPECIFICATION Spec
CHECK_DEADLOCK FALSE
INVARIANTS
  AcceptedPromptsRun
  RunsServed
  DeletedUncrossed
  SteersInOrder
  FlowsServed
