\* The request of the run after one that threw.
CONSTANTS
  MaxTurns = 1
  MaxPauses = 1
  BatchSize = 2
  MaxReplies = 1
  MaxPrompts = 2
  MaxSteers = 1
  Notices = {}
  Faults = {"open", "store", "hook"}
SPECIFICATION Spec
CHECK_DEADLOCK FALSE
INVARIANT EveryRequestValid
