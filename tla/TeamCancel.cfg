\* Reproduction: cancel while the supervisor plans.
CONSTANTS
  src = src
  test = test
  lib = lib
  docs = docs
  Plans <- SomePlans
  MinMembers = 1
  MaxMembers = 2
  Limits = {2}
  Ceiling = 2
  MaxTurns = 2
  Prices = {1}
  Faults = {"crash", "throw"}
  MaxCalls = 0
  MaxProcs = 2
SPECIFICATION Spec
CHECK_DEADLOCK FALSE
PROPERTY CancelHolds
