SPECIFICATION Spec
CONSTANTS
  Settings <- MCSettings
INVARIANTS
  PathsAgree
  PrefixRule
  RegistryRefusesOnlyTheIncomplete
CHECK_DEADLOCK FALSE
