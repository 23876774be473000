\* A listener of a run's last event aborts it.
CONSTANTS
  MaxTurns = 2
  MaxPauses = 1
  BatchSize = 1
  MaxReplies = 2
  MaxPrompts = 1
  MaxSteers = 0
  Notices = {}
  Faults = {}
SPECIFICATION Spec
CHECK_DEADLOCK FALSE
INVARIANT AbortStands
