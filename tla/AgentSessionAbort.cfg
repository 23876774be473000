\* A compaction whose summary was cut short.
CONSTANTS
  MaxEntries = 5
  MaxKills = 1
  Failures = {"message", "state", "fold"}
SPECIFICATION Spec
CHECK_DEADLOCK FALSE
INVARIANT SummariesWhole
