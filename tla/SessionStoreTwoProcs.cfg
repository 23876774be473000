\* Two processes append to one session; one dies over a short write.
CONSTANTS
  p = p
  q = q
  Procs = {p, q}
  Kinds = {"create", "append"}
  Attempts = 2
  MaxOps = 5
  MaxCrashes = 1
  MaxFaults = 1
SPECIFICATION Spec
CHECK_DEADLOCK FALSE
INVARIANT CutsOnlyTheDead
