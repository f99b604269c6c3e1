----------------------------- MODULE MeshCatalog -----------------------------
(***************************************************************************)
(* The mesh catalog (pkg/catalog): the policies of a sidecar, computed     *)
(* from the stores' contents w.  Sidecars of both kinds are configured     *)
(* from these policies.                                                    *)
(*                                                                         *)
(*   TrafficMatch     [name, port, protocol, ips, clusters | cluster]      *)
(*   cluster config   [name, service]                                      *)
(*                    of egress <<host, port>>, without a host "" for the  *)
(*                    original destination                                 *)
(*   route config     a policy of TrafficPolicy with its port              *)
(*   backend          of IngressBackend and AccessControl: [name, port,    *)
(*                    protocol, tls], tls [on, skip]; a source is [kind,   *)
(*                    name, ns]                                            *)
(*                                                                         *)
(* No ServiceImport is in the stores: the second provider, of the services *)
(* of other clusters, has nothing to add.                                  *)
(***************************************************************************)
EXTENDS MeshStore

(* The elements of a sequence, the later copies of one left out. *)
Dedup(seq) ==
  FoldLeft(LAMBDA acc, e : IF Contains(acc, e) THEN acc ELSE Append(acc, e),
           << >>, seq)
-----------------------------------------------------------------------------
(* traffictarget.go *)
ListOutboundServiceIdentities(w, id) ==
  {t.dst : t \in {u \in ToSet(ListTrafficTargets(w)) : Contains(u.sources, id)}}

(* The set of the ports of each TCP rule, or empty for the error. *)
getTCPRouteMatchesFromTrafficTarget(w, t) ==
  LET tcp == SelectSeq(t.rules, LAMBDA r : r.kind = "TCPRoute")
      ports(i) == {r.ports : r \in GetTCPRoute(w, t.ns, tcp[i].name)}
  IN IF \E i \in DOMAIN tcp : ports(i) = {} THEN {}
     ELSE {[i \in DOMAIN tcp |-> CHOOSE p \in ports(i) : TRUE]}

(* The targets whose TCPRoutes all exist, each with the ports of these. *)
ListInboundTrafficTargetsWithRoutes(w, id) ==
  LET withRoutes(t) ==
        SetToSeq({[name |-> t.name, sources |-> t.sources, tcp |-> ports] :
                    ports \in getTCPRouteMatchesFromTrafficTarget(w, t)})
  IN IF w.permissive THEN << >> ELSE ConcatMap(withRoutes, ListTrafficTargetsTo(w, id))

(* endpoint.go *)
ListAllowedUpstreamEndpointsForService(w, id, ms) ==
  LET endpoints == ListEndpointsForService(w, ms)
      allowed == UNION {ListEndpointsForIdentity(w, dst) :
                          dst \in ListOutboundServiceIdentities(w, id)}
  IN IF w.permissive THEN endpoints ELSE {e \in endpoints : e.ip \in allowed}
-----------------------------------------------------------------------------
(* inbound_traffic_policies.go *)
routeMatch(m) ==
  [path |-> IF m.path = "" THEN RegexMatchAll ELSE m.path,
   methods |-> IF m.methods = << >> THEN <<WildcardHTTPMethod>> ELSE m.methods,
   headers |-> m.headers]

(* mutant: all matches of the group *)
routesFromRulesOfGroup(w, t) ==
  LET groups(name) ==
        SelectSeq(ListHTTPTrafficSpecs(w), LAMBDA g : g.ns = t.ns /\ g.name = name)
  IN ConcatMap(LAMBDA r : ConcatMap(LAMBDA g : Map(routeMatch, g.matches), groups(r.name)), t.rules)

(* The matches of the route groups that a target's rule names; a later     *)
(* match of the same name replaces an earlier one of its group.            *)
routesFromRules(w, t) ==
  LET group(name) == {g \in ToSet(ListHTTPTrafficSpecs(w)) : g.ns = t.ns /\ g.name = name}
      found(rule, m) ==
        UNION {LET i == SelectLastInSeq(g.matches, LAMBDA x : x.name = m)
               IN IF i = 0 THEN {} ELSE {g.matches[i]} : g \in group(rule.name)}
      routes(rule) ==
        ConcatMap(LAMBDA m : SetToSeq({routeMatch(x) : x \in found(rule, m)}), rule.matches)
  IN ConcatMap(routes, t.rules)

getRoutingRulesFromTrafficTarget(w, t, routingCluster) ==
  LET matches == routesFromRules(w, t)
      principals == {AsPrincipal(t.sources[i]) : i \in DOMAIN t.sources}
  IN Map(LAMBDA m : [route |-> NewRouteWeightedCluster(m, <<routingCluster>>),
                     allowed |-> principals], matches)

LocalCluster(ms) ==
  [cluster |-> SidecarLocalClusterName(ms), weight |-> ClusterWeightAcceptAll]

buildInboundHTTPPolicyFromTrafficTarget(w, ms, targets) ==
  LET merge(rules, t) ==
        MergeRules(rules, getRoutingRulesFromTrafficTarget(w, t, LocalCluster(ms)))
  IN [NewInboundTrafficPolicy(FQDN(ms), GetHostnamesForService(ms, TRUE))
        EXCEPT !.rules = FoldLeft(merge, << >>, targets)]

getInboundTrafficPoliciesForUpstream(w, ms, targets) ==
  IF w.permissive
  THEN [NewInboundTrafficPolicy(FQDN(ms), GetHostnamesForService(ms, TRUE))
          EXCEPT !.rules =
            <<[route |-> NewRouteWeightedCluster(WildCardRouteMatch, <<LocalCluster(ms)>>),
               allowed |-> {WildcardPrincipal}]>>]
  ELSE buildInboundHTTPPolicyFromTrafficTarget(w, ms, targets)

(* Each service followed by the apexes of the splits that it is a backend  *)
(* of, which get its namespace, ports and protocol.                        *)
getUpstreamServicesIncludeApex(w, services) ==
  LET apex(ms, host) ==
        [ms EXCEPT !.name = IF GetSubdomainFromHostname(host) = ""
                            THEN <<GetServiceFromHostname(host)>>
                            ELSE <<GetSubdomainFromHostname(host), GetServiceFromHostname(host)>>]
      withApex(ms) ==
        <<ms>> \o Map(LAMBDA s : apex(ms, s.service), ListTrafficSplitsOfBackend(w, ms))
  IN Dedup(ConcatMap(withApex, services))

inboundTrafficMatch(ms) ==
  [name |-> InboundTrafficMatchName(ms), ns |-> ms.ns, svc |-> ms.name,
   port |-> ms.targetPort, protocol |-> ms.protocol, cluster |-> SidecarLocalClusterName(ms)]

inboundPolicies(w, services, all, targets) ==
  [matches |-> Map(inboundTrafficMatch, SelectSeq(all, LAMBDA ms : Contains(services, ms))),
   clusters |-> Map(LAMBDA ms : [name |-> SidecarLocalClusterName(ms), service |-> ms], all),
   configs |-> Map(LAMBDA ms : [port |-> ms.targetPort,
                                policy |-> getInboundTrafficPoliciesForUpstream(w, ms, targets)],
                   SelectSeq(all, LAMBDA ms : ~IsTCP(ms)))]

GetInboundMeshTrafficPolicy(w, id, services) ==
  inboundPolicies(w, services, getUpstreamServicesIncludeApex(w, services),
                  IF w.permissive THEN << >> ELSE ListTrafficTargetsTo(w, id))
-----------------------------------------------------------------------------
(* outbound_traffic_policies.go *)
ListOutboundServicesForIdentity(w, id) ==
  IF w.permissive
  THEN MeshServicesOf(w, ListServices(w))
  ELSE LET targets == SelectSeq(ListTrafficTargets(w), LAMBDA t : Contains(t.sources, id))
       IN Dedup(ConcatMap(LAMBDA t : GetServicesForServiceIdentity(w, t.dst), targets))

(* A backend is a cluster only while the apex's port is a port of its      *)
(* endpoints.                                                              *)
mergeSplitUpstreamClusters(w, ms, backends) ==
  ConcatMap(LAMBDA b :
    SetToSeq({[cluster |-> <<ms.ns, <<b.service>>, port>>, weight |-> b.weight] :
                port \in GetTargetPortForServicePort(w, ms.ns, b.service, ms.port)}),
    backends)

(* The matches of every listed route group that the split names. *)
getSplitRouteMatches(w, split) ==
  ConcatMap(LAMBDA g : IF Contains(split.matches, g.name)
                       THEN Map(routeMatch, g.matches) ELSE << >>,
            ListHTTPTrafficSpecs(w))

(* HTTPRouteMatchWithWeightedClusters: one for each split of the service,  *)
(* or one for the service itself.                                          *)
splitRouteMatches(w, ms) ==
  LET splits == ListTrafficSplitsOfApex(w, ms)
      own == [hasSplitMatches |-> FALSE, matches |-> << >>,
              clusters |-> <<[cluster |-> SidecarClusterName(ms),
                              weight |-> ClusterWeightAcceptAll]>>]
  IN IF splits = << >> THEN <<own>>
     ELSE Map(LAMBDA s : [hasSplitMatches |-> s.matches # << >>,
                          matches |-> getSplitRouteMatches(w, s),
                          clusters |-> mergeSplitUpstreamClusters(w, ms, s.backends)], splits)

(* The clusters of the splits without matches, the first weight of each;   *)
(* if there is none, the clusters of all splits, all of the same weight.   *)
getWildCardRouteUpstreamClusters(routeMatches) ==
  LET wildcard == SelectSeq(routeMatches, LAMBDA m : ~m.hasSplitMatches)
      all == ConcatMap(LAMBDA m : m.clusters, IF wildcard # << >> THEN wildcard ELSE routeMatches)
      known(acc, c) == \E i \in DOMAIN acc : acc[i].cluster = c.cluster
      add(acc, c) ==
        IF known(acc, c) THEN acc
        ELSE Append(acc, IF wildcard # << >> THEN c
                         ELSE [c EXCEPT !.weight = ClusterWeightAcceptAll])
  IN FoldLeft(add, << >>, all)

(* The routes of the splits' matches, in order; one that AddRoute refuses  *)
(* is left out.  Then the fallback, unless some route has the path of it.  *)
outboundRoutes(policy, routeMatches) ==
  LET pairs == ConcatMap(LAMBDA r : Map(LAMBDA m : [match |-> m, clusters |-> r.clusters], r.matches),
                         routeMatches)
      split == FoldLeft(LAMBDA p, r : AddRoute(p, r.match, r.clusters), policy, pairs)
  IN IF \E i \in DOMAIN pairs : pairs[i].match.path = RegexMatchAll
     THEN split
     ELSE AddRoute(split, WildCardRouteMatch, getWildCardRouteUpstreamClusters(routeMatches))

outboundTrafficMatch(w, ms, clusters) ==
  [name |-> OutboundTrafficMatchName(ms), ns |-> ms.ns, svc |-> ms.name,
   port |-> ms.port, protocol |-> ms.protocol,
   ips |-> GetResolvableEndpointsForService(w, ms), clusters |-> clusters]

outboundRouteConfig(w, id, ms) ==
  [port |-> ms.port,
   policy |-> outboundRoutes(
     NewOutboundTrafficPolicy(FQDN(ms), GetHostnamesForService(ms, id[2] = ms.ns)),
     splitRouteMatches(w, ms))]

outboundPolicies(w, id, services) ==
  [matches |-> ConcatMap(LAMBDA ms : Map(LAMBDA r : outboundTrafficMatch(w, ms, r.clusters),
                                         splitRouteMatches(w, ms)), services),
   clusters |-> Map(LAMBDA ms : [name |-> SidecarClusterName(ms), service |-> ms], services),
   configs |-> Map(LAMBDA ms : outboundRouteConfig(w, id, ms),
                   SelectSeq(services, LAMBDA ms : ~IsTCP(ms)))]

GetOutboundMeshTrafficPolicy(w, id) ==
  outboundPolicies(w, id, ListOutboundServicesForIdentity(w, id))
-----------------------------------------------------------------------------
(* ingress.go and access_control.go.  A policy for traffic from outside is *)
(* [matches, rules]; there is none when a service that is named as a       *)
(* source has no endpoints.  The principals are collected over all         *)
(* backends.                                                               *)
sourceIPs(w, source) ==
  CASE source.kind = "Service" ->
         {e.ip : e \in ListEndpointsForService(w,
                   [ns |-> source.ns, name |-> <<source.name>>, port |-> 0, targetPort |-> 0,
                    protocol |-> ""])}
    [] source.kind = "IPRange" -> {source.name}
    [] OTHER -> {}

(* mutant: the flag is read the wrong way round *)
sourcePrincipalsInverted(sources, backend) ==
  (IF backend.protocol = "http" THEN {WildcardPrincipal} ELSE {})
    \cup {IF backend.tls.skip THEN s.name ELSE WildcardPrincipal :
            s \in {t \in ToSet(sources) : t.kind = "AuthenticatedPrincipal"}}

sourcePrincipals(sources, backend) ==
  (IF backend.protocol = "http" THEN {WildcardPrincipal} ELSE {})
    \cup {IF backend.tls.skip THEN WildcardPrincipal ELSE s.name :
            s \in {t \in ToSet(sources) : t.kind = "AuthenticatedPrincipal"}}

externalPolicy(w, ms, policy, onlyHTTP) ==
  LET backends == SelectSeq(policy.backends,
                            LAMBDA b : <<b.name>> = ms.name /\ b.port = ms.targetPort)
      sources == ToSet(policy.sources)
      missing == \E s \in sources : s.kind = "Service" /\ sourceIPs(w, s) = {}
      match(b) == [port |-> b.port, protocol |-> b.protocol, tls |-> b.tls,
                   ips |-> UNION {sourceIPs(w, s) : s \in sources}]
      http(b) == b.protocol \in {"http", "grpc"}
      rule == [route |-> NewRouteWeightedCluster(WildCardRouteMatch, <<LocalCluster(ms)>>),
               allowed |-> UNION {sourcePrincipals(policy.sources, b) : b \in ToSet(backends)}]
  IN IF missing \/ backends = << >> THEN {}
     ELSE {[matches |-> Map(match, backends),
            rules |-> Map(LAMBDA b : rule, SelectSeq(backends, LAMBDA b : ~onlyHTTP \/ http(b)))]}

GetIngressTrafficPolicy(w, ms) ==
  UNION {externalPolicy(w, ms, p, FALSE) : p \in GetIngressBackendPolicy(w, ms)}

GetAccessControlTrafficPolicy(w, ms) ==
  UNION {externalPolicy(w, ms, p, TRUE) : p \in GetAccessControlPolicy(w, ms)}
-----------------------------------------------------------------------------
(* egress_gateway.go.  A rule is named by the position of its object in    *)
(* the list, << >> is no gateway and <<"*">> the global ones.              *)
getGatewayForEgress(w, egress) ==
  LET gateways == ListEgressGateways(w)
      i == SelectInSeq(gateways, LAMBDA g : \E j \in DOMAIN g.rules :
                                   <<egress.name, egress.ns>> \in g.rules[j].policies)
  IN CASE i # 0 -> <<gateways[i].ns, gateways[i].name, i - 1>>
       [] i = 0 /\ (\E j \in DOMAIN gateways : gateways[j].global # << >>) -> <<"*">>
       [] OTHER -> << >>

GetEgressGatewayPolicy(w) ==
  LET config(g) ==
        IF ServiceNamed(g.ns, g.service) = {} THEN << >>
        ELSE <<[cluster |-> <<g.service, g.ns>>,
                endpoints |-> ListEndpointsForService(w,
                  [ns |-> g.ns, name |-> <<g.service>>, port |-> 0, targetPort |-> 0,
                   protocol |-> ""])]>>
      rule(o, r) == [ns |-> o.ns, name |-> o.name, gateways |-> ConcatMap(config, r.gateways)]
      all == ListEgressGateways(w)
  IN [global |-> ConcatMap(LAMBDA o : ConcatMap(config, o.global), all),
      rules |-> ConcatMap(LAMBDA o : Map(LAMBDA r : rule(o, r), o.rules), all)]

(* mutant: a setting that is not found is no error *)
getUpstreamTrafficSettingForEgressOrNone(w, egress) == TRUE

(* egress.go.  The matches and the cluster configs are deduplicated, which *)
(* leaves them in no order.                                                *)
getUpstreamTrafficSettingForEgress(w, egress) ==
  egress.setting = "" \/ UpstreamTrafficSettingNamed(w, egress.ns, egress.setting) # {}

egressRouteMatches(w, egress) ==
  IF egress.matches = << >> THEN <<WildCardRouteMatch>>
  ELSE ConcatMap(LAMBDA name :
         ConcatMap(LAMBDA g : IF g.ns = egress.ns /\ g.name = name THEN Map(routeMatch, g.matches)
                              ELSE << >>, ListHTTPTrafficSpecs(w)), egress.matches)

buildHTTPRouteConfigs(w, egress, port) ==
  LET rule(host, m) ==
        [route |-> NewRouteWeightedCluster(m, <<[cluster |-> <<host, port>>,
                                                  weight |-> ClusterWeightAcceptAll]>>),
         ips |-> egress.ips]
  IN Map(LAMBDA host : [port |-> port, name |-> <<host>>,
                        hosts |-> {<< <<host>>, "", n>> : n \in {0, port}},
                        rules |-> Map(LAMBDA m : rule(host, m), egressRouteMatches(w, egress))],
         egress.hosts)

GetEgressTrafficPolicy(w, id) ==
  LET valid == SelectSeq(ListEgressPoliciesForSourceIdentity(w, id),
                         LAMBDA e : getUpstreamTrafficSettingForEgress(w, e))
      pairs == ConcatMap(LAMBDA e : Map(LAMBDA p : [egress |-> e, port |-> p], e.ports), valid)
      http(x) == x.port.protocol = "http"
      match(x) ==
        [name |-> <<"egress", x.port.number, x.port.protocol>>,
         port |-> x.port.number, protocol |-> x.port.protocol,
         ips |-> IF http(x) THEN {} ELSE x.egress.ips,
         servers |-> IF x.port.protocol = "https" THEN ToSet(x.egress.hosts) ELSE {},
         gateway |-> getGatewayForEgress(w, x.egress)]
      clusters(x) == {<<h, x.port.number>> : h \in IF http(x) THEN ToSet(x.egress.hosts) ELSE {""}}
  IN [matches |-> {match(x) : x \in ToSet(pairs)},
      clusters |-> UNION {clusters(x) : x \in ToSet(pairs)},
      configs |-> ConcatMap(LAMBDA x : IF http(x) THEN buildHTTPRouteConfigs(w, x.egress, x.port.number)
                                       ELSE << >>, pairs)]
=============================================================================
