\* A prompt that starts while the host compacts.
CONSTANTS
  MaxEntries = 5
  MaxKills = 1
  Failures = {"message", "state", "fold"}
SPECIFICATION Spec
CHECK_DEADLOCK FALSE
INVARIANT LiveIsReplayUnderHost
