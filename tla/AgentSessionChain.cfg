\* A message whose write failed, and the entries after it.
CONSTANTS
  MaxEntries = 5
  MaxKills = 1
  Failures = {"message", "state", "fold"}
SPECIFICATION Spec
CHECK_DEADLOCK FALSE
INVARIANT ParentsOnDisk
