\* One long run that answers as it likes: three turns, batches of two calls, two steers,
\* every fault, and its end.
CONSTANTS
  MaxTurns = 3
  MaxPauses = 1
  BatchSize = 2
  MaxReplies = 3
  MaxPrompts = 1
  MaxSteers = 2
  Notices = {}
  Faults = {"open", "store", "hook"}
SPECIFICATION FairSpec
CHECK_DEADLOCK FALSE
INVARIANTS
  TypeOK
  CallsAnswered
  SteeringKept
  AbortedNeverCompletes
PROPERTIES
  RunEnds
  CeilingAnnounced
  OutcomeIsHonest
