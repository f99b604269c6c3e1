CONSTANTS
  Pods <- MCPods
  PodInfo <- MCPodInfo
  Services <- MCServices
  Manifest <- MCManifest
  Namespaces <- MCNamespaces
  TrustDomain = "td"
  PathOrder <- MCPathOrder
  PathsOf <- MCPathsOf
  Scopes <- MCScopes
  Clients = {"c", "d"}
SPECIFICATION Spec
CHECK_DEADLOCK FALSE
INVARIANTS
  
  RolloutIsHitless
  ReachIsPolicy
  IngressIsPolicy
  
  SettledIsCurrent
