CONSTANTS
  UUIDs = {"A", "B", "M"}
  Streams = {"a1", "a2", "b", "m"}
  EnvoyOf <- MCEnvoyOf
  Mismatched = {"M"}
  Workers = {1}
  Capacity = 1
  Scopes <- MCScopes
SPECIFICATION FairSpec
CHECK_DEADLOCK FALSE
INVARIANTS
  RegistryIsTrue
  LimitHolds
PROPERTIES
  GoneIsUnregistered
  RotationIsSent
