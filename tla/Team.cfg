\* One or two members, a pool of two workers, a ceiling of two turns, two calls
\* of merge and discard, hosts that throw and one death of the process.
CONSTANTS
  src = src
  test = test
  lib = lib
  docs = docs
  Plans <- SomePlans
  MinMembers = 1
  MaxMembers = 2
  Limits = {2}
  Ceiling = 2
  MaxTurns = 2
  Prices = {1}
  Faults = {"crash", "throw", "write"}
  MaxCalls = 2
  MaxProcs = 2
SPECIFICATION Spec
CHECK_DEADLOCK FALSE
INVARIANTS
  MembersDisjoint
  OvershootBounded
  WorkKept
  MergedIsTrue
