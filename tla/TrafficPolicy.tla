---------------------------- MODULE TrafficPolicy ----------------------------
(***************************************************************************)
(* The policy objects of pkg/trafficpolicy and the operations on them.     *)
(*                                                                         *)
(*   HTTPRouteMatch     [path, methods, headers]                           *)
(*   WeightedCluster    [cluster, weight]                                  *)
(*   route              [match, clusters], clusters a set                  *)
(*   rule               [route, allowed], allowed a set of principals      *)
(*   policy             [name, hosts, routes | rules]                      *)
(*                                                                         *)
(* Slices are sequences, mapsets are sets.  A path is the regular          *)
(* expression that a route has for it, headers a set of name-value pairs.  *)
(* Rate limits and retry policies, which no rule is selected by, are left  *)
(* out.                                                                    *)
(***************************************************************************)
EXTENDS Integers, Sequences, SequencesExt

RegexMatchAll == ".*"
WildcardHTTPMethod == "*"
ClusterWeightAcceptAll == 100

WildCardRouteMatch ==
  [path |-> RegexMatchAll, methods |-> <<WildcardHTTPMethod>>, headers |-> {}]

NewRouteWeightedCluster(match, weightedClusters) ==
  [match |-> match, clusters |-> ToSet(weightedClusters)]

NewInboundTrafficPolicy(name, hosts) ==
  [name |-> name, hosts |-> hosts, rules |-> << >>]

NewOutboundTrafficPolicy(name, hosts) ==
  [name |-> name, hosts |-> hosts, routes |-> << >>]

(* If the policy has the match already, AddRoute fails, or (the clusters   *)
(* being the same) only replaces the route's retry policy.                 *)
AddRoute(policy, match, clusters) ==
  IF \E i \in DOMAIN policy.routes : policy.routes[i].match = match
  THEN policy
  ELSE [policy EXCEPT !.routes = Append(@, NewRouteWeightedCluster(match, clusters))]

(* mutant: a rule that is found keeps its principals *)
MergeRulesKeepsFirst(originalRules, latestRules) ==
  LET merge(rules, latest) ==
        IF \E i \in DOMAIN rules : rules[i].route = latest.route
        THEN rules ELSE Append(rules, latest)
  IN FoldLeft(merge, originalRules, latestRules)

MergeRules(originalRules, latestRules) ==
  LET merge(rules, latest) ==
        LET found == SelectInSeq(rules, LAMBDA r : r.route = latest.route)
        IN IF found = 0
           THEN Append(rules, latest)
           ELSE [rules EXCEPT ![found].allowed = @ \cup latest.allowed]
  IN FoldLeft(merge, originalRules, latestRules)

(* The union, or nothing when neither is a subset of the other.  It is     *)
(* sorted by the code; the order of hostnames has no part in a match.      *)
slicesUnionIfSubset(first, second) ==
  IF first \subseteq second \/ second \subseteq first
  THEN first \cup second ELSE {}

MergeInboundPolicies(original, latest) ==
  LET merge(policies, l) ==
        LET union(i) == slicesUnionIfSubset(policies[i].hosts, l.hosts)
        IN IF \E i \in DOMAIN policies : union(i) # {}
           THEN [i \in DOMAIN policies |->
                   IF union(i) = {} THEN policies[i]
                   ELSE [policies[i] EXCEPT !.hosts = union(i),
                                            !.rules = MergeRules(@, l.rules)]]
           ELSE Append(policies, l)
  IN FoldLeft(merge, original, latest)
=============================================================================
