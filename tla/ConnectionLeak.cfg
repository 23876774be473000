\* A connection lost while it opens a session.
CONSTANTS
  a = a
  b = b
  s1 = s1
  Clients = {a}
  Sessions = {s1}
  MaxConnections = 1
  Threshold = 1
  Sustained = 1
  Secured = TRUE
  Holders = {a}
  MaxCalls = 2
  MaxEvents = 0
  MaxTicks = 0
SPECIFICATION Spec
CHECK_DEADLOCK FALSE
INVARIANT NoDeadObserver
