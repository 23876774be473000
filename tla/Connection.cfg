\* One client that gives up when it likes, under backpressure.
CONSTANTS
  a = a
  b = b
  s1 = s1
  Clients = {a}
  Sessions = {s1}
  MaxConnections = 2
  Threshold = 1
  Sustained = 1
  Secured = TRUE
  Holders = {}
  MaxCalls = 2
  MaxEvents = 3
  MaxTicks = 2
SPECIFICATION FairSpec
CHECK_DEADLOCK FALSE
INVARIANTS
  OwnAnswer
  HandshakeFirst
  AnswersKept
PROPERTIES
  OnlyTheStuckAreCut
  EveryCallSettles
