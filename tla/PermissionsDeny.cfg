\* Rules of three scopes, denies among them in two.
CONSTANTS
  Tools = {"bash"}
  ReadOnly = {}
  Edits = {}
  Trusted = {}
  RuleTools = {"bash"}
  KeptTools = {"bash"}
  Segments = {"rm"}
  Prefixes = {{"rm"}}
  Exacts = {{"rm"}}
  Checked = {}
  Spellings = {}
  Scopes = {"session", "project", "user"}
  DenyScopes = {"project", "user"}
  Calls = {1}
  MaxSeeds = 3
  MaxRules = 3
  MaxChecks = 0
SPECIFICATION Spec
CHECK_DEADLOCK FALSE
INVARIANT EveryDenyOutranks
