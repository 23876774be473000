\* Two short runs: what a run that threw leaves to the next one.
CONSTANTS
  MaxTurns = 2
  MaxPauses = 1
  BatchSize = 2
  MaxReplies = 1
  MaxPrompts = 2
  MaxSteers = 1
  Notices = {"n"}
  Faults = {"open", "store", "hook"}
SPECIFICATION Spec
CHECK_DEADLOCK FALSE
PROPERTIES
  ImplementsConversation
