SPECIFICATION FairSpec
CONSTANTS
  Names = {a, b}
  Existing = {a}
  Scopes <- MCScopes
  MaxGeneration = 2
  MaxNameChanges = 1
INVARIANTS
  QuietIsCurrent
  ResponsesAreCaused
PROPERTY StreamFallsSilent
CHECK_DEADLOCK FALSE
