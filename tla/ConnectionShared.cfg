\* Two clients of a server without a token that open and delete one session.
CONSTANTS
  a = a
  b = b
  s1 = s1
  Clients = {a, b}
  Sessions = {s1}
  MaxConnections = 2
  Threshold = 1
  Sustained = 1
  Secured = FALSE
  Holders = {}
  MaxCalls = 2
  MaxEvents = 0
  MaxTicks = 0
SPECIFICATION Spec
CHECK_DEADLOCK FALSE
INVARIANTS
  NoStaleRecord
