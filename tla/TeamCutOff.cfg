\* One or two members, one worker or two, turns that may cost nothing, every
\* fault, no merge and no discard: a team that is cut off comes to its end.
CONSTANTS
  src = src
  test = test
  lib = lib
  docs = docs
  Plans <- SomePlans
  MinMembers = 1
  MaxMembers = 2
  Limits = {1, 2}
  Ceiling = 2
  MaxTurns = 2
  Prices = {0, 1}
  Faults = {"crash", "throw", "git", "write"}
  MaxCalls = 0
  MaxProcs = 2
SPECIFICATION FairSpec
CHECK_DEADLOCK FALSE
PROPERTIES
  CutOffSettles
