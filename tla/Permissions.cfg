\* Denies from two scopes; three rules at most, two checks of one call.
CONSTANTS
  Tools = {"bash", "grep", "plan"}
  ReadOnly = {"grep"}
  Edits = {"bash"}
  Trusted = {"plan"}
  RuleTools = {"bash"}
  KeptTools = {"bash"}
  Segments = {"ls", "rm"}
  Prefixes = {{"rm"}}
  Exacts = {{"rm"}}
  Checked = {{"rm"}, {"ls", "rm"}}
  Spellings = {{"rm"}}
  Scopes = {"project", "user"}
  DenyScopes = {"project", "user"}
  Calls = {1}
  MaxSeeds = 1
  MaxRules = 3
  MaxChecks = 2
SPECIFICATION Spec
CHECK_DEADLOCK FALSE
INVARIANTS
  DenyOutranks
  ChainingNeverWidens
  OwnDecision
