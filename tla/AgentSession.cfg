\* One session: five entries, one death of the process, every write may fail.
CONSTANTS
  MaxEntries = 5
  MaxKills = 1
  Failures = {"message", "state", "fold"}
SPECIFICATION Spec
CHECK_DEADLOCK FALSE
INVARIANTS
  LiveIsReplay
  FoldsOnlyWhatWasRead
  NothingForgotten
  RoundsStayTogether
