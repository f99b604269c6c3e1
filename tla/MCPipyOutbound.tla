--------------------------- MODULE MCPipyOutbound ---------------------------
(* A route split between the clusters "a" and "d" with "b" in stand-by.    *)
(* "a" has a retry policy and two endpoints, one of a remote cluster; "d"  *)
(* has a local endpoint and one of a remote cluster in stand-by; "b" is a  *)
(* remote cluster's.                                                       *)
EXTENDS PipyOutbound, TLC

MCTargetClusters == "a" :> 50 @@ "d" :> 50 @@ "b" :> 0
MCEndpoints ==
  "a" :> ("a1" :> 50 @@ "a2" :> 50) @@ "d" :> ("d1" :> 100 @@ "d2" :> 0) @@
  "b" :> ("b1" :> 100)
MCNumRetries == "a" :> 2 @@ "d" :> 0 @@ "b" :> 1
=============================================================================
