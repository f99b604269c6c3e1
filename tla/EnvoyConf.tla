----------------------------- MODULE EnvoyConf -----------------------------
(***************************************************************************)
(* The resources that the control plane generates for an Envoy sidecar     *)
(* (pkg/sidecar/providers/envoy), each type of them a function of the      *)
(* stores' contents w and the sidecar's pod p:                             *)
(*                                                                         *)
(*   CDS   cluster name -> [type, service, host, port]                     *)
(*   EDS   cluster name -> endpoints                                       *)
(*   LDS   [outbound, inbound]: filter chains, outbound also with the      *)
(*         default chain of the listener or without                        *)
(*   RDS   name of a route configuration -> virtual hosts                  *)
(*   SDS   service -> the names that its certificate may have              *)
(*                                                                         *)
(*   filter chain   a criterion of its match that is not set is empty;     *)
(*                  tls "none", "tls" or "mtls"; rbac << >> or <<policies>>;*)
(*                  config is the route configuration of an HTTP chain,    *)
(*                  << >> for TCP, which has clusters                      *)
(*   RBAC policy    [principals, ports], empty for any                     *)
(*   virtual host   [hosts, routes], a route [match, clusters, rbac]       *)
(*                                                                         *)
(* AccessControl and EgressGateway objects have no part in the resources   *)
(* of an Envoy.  Rate limits, timeouts, tracing, metrics and WASM are left *)
(* out, as are the names (SNI) of an IngressBackend.                       *)
(***************************************************************************)
EXTENDS MeshCatalog, TLC

XDSResponseOrder == <<"CDS", "EDS", "LDS", "RDS", "SDS">>

NoResources == [CDS |-> << >>, EDS |-> << >>, RDS |-> << >>, SDS |-> << >>,
                LDS |-> [outbound |-> [chains |-> {}, passthrough |-> FALSE], inbound |-> {}]]
-----------------------------------------------------------------------------
(* rbac: a wildcard among the principals stands for any, and so does the   *)
(* absence of principals or of ports.                                      *)
Build(principals, ports) ==
  [principals |-> IF WildcardPrincipal \in principals THEN {} ELSE principals, ports |-> ports]

buildRBACPolicyFromTrafficTarget(t) ==
  Build({AsPrincipal(id) : id \in ToSet(t.sources)}, UNION ToSet(t.tcp))

buildInboundRBACPolicies(w, id) ==
  {buildRBACPolicyFromTrafficTarget(t) : t \in ToSet(ListInboundTrafficTargetsWithRoutes(w, id))}
-----------------------------------------------------------------------------
(* lds *)
FilterChain ==
  [port |-> 0, ips |-> {}, servers |-> {}, transport |-> {}, apps |-> {}, sources |-> {},
   tls |-> "none", rbac |-> << >>, config |-> << >>, clusters |-> {}]

(* The filters of a chain: the network RBAC filter in front, unless the    *)
(* mode is permissive, and the HTTP connection manager or the TCP proxy.   *)
buildRBACFilter(w, id) ==
  IF w.permissive THEN << >> ELSE <<buildInboundRBACPolicies(w, id)>>

getInboundHTTPFilters(w, id, m) ==
  [rbac |-> buildRBACFilter(w, id), config |-> <<"rds-inbound", m.port>>, clusters |-> {}]

getInboundTCPFilters(w, id, m) ==
  [rbac |-> buildRBACFilter(w, id), config |-> << >>,
   clusters |-> {[cluster |-> m.cluster, weight |-> ClusterWeightAcceptAll]}]

(* A service's chain for the mesh, found by the server name. *)
getInboundMeshHTTPFilterChain(w, id, m) ==
  getInboundHTTPFilters(w, id, m) @@
    [FilterChain EXCEPT !.port = m.port, !.servers = {<<m.svc, m.ns>>}, !.transport = {"tls"},
                        !.apps = {"osm"}, !.tls = "mtls"]

getInboundMeshTCPFilterChain(w, id, m) ==
  getInboundTCPFilters(w, id, m) @@
    [FilterChain EXCEPT !.port = m.port, !.servers = {<<m.svc, m.ns>>}, !.transport = {"tls"},
                        !.apps = {"osm"}, !.tls = "mtls"]

getInboundMeshFilterChains(w, id, matches) ==
  {IF IsTCP(m) THEN getInboundMeshTCPFilterChain(w, id, m)
   ELSE getInboundMeshHTTPFilterChain(w, id, m) :
     m \in {n \in ToSet(matches) : n.protocol \in SupportedProtocolsInMesh}}

(* All ingress chains of a sidecar share one route configuration. *)
getIngressFilterChainFromTrafficMatch(m) ==
  [FilterChain EXCEPT !.port = m.port, !.sources = m.ips, !.config = <<"rds-ingress">>,
                      !.transport = IF m.protocol = "https" THEN {"tls"} ELSE {},
                      !.tls = CASE m.protocol = "http" -> "none"
                                [] m.protocol # "http" /\ m.tls.skip -> "tls"
                                [] OTHER -> "mtls"]

getIngressFilterChains(w, ms) ==
  UNION {{getIngressFilterChainFromTrafficMatch(m) :
            m \in {n \in ToSet(policy.matches) : n.protocol \in {"http", "https"}}} :
           policy \in GetIngressTrafficPolicy(w, ms)}

getOutboundHTTPFilter(config) == [config |-> config, clusters |-> {}]
getOutboundTCPFilter(m) == [config |-> << >>, clusters |-> ToSet(m.clusters)]

getOutboundFilterChainMatchForService(m) == [port |-> m.port, ips |-> m.ips]

getOutboundHTTPFilterChainForService(m) ==
  getOutboundHTTPFilter(<<"rds-outbound", m.port>>) @@ getOutboundFilterChainMatchForService(m) @@ FilterChain

getOutboundTCPFilterChainForService(m) ==
  getOutboundTCPFilter(m) @@ getOutboundFilterChainMatchForService(m) @@ FilterChain

(* A match without addresses makes no chain, and a TCP match without       *)
(* clusters neither.                                                       *)
getOutboundFilterChainPerUpstream(matches) ==
  {IF IsTCP(m) THEN getOutboundTCPFilterChainForService(m)
   ELSE getOutboundHTTPFilterChainForService(m) :
     m \in {n \in ToSet(matches) :
              n.ips # {} /\ (IsTCP(n) => n.clusters # << >>)}}

getEgressHTTPFilterChain(m) ==
  [FilterChain EXCEPT !.port = m.port, !.apps = {"http"}, !.config = <<"rds-egress", m.port>>]

getEgressTCPFilterChain(m) ==
  [FilterChain EXCEPT !.port = m.port, !.ips = m.ips, !.servers = m.servers,
                      !.clusters = {[cluster |-> <<"", m.port>>, weight |-> ClusterWeightAcceptAll]}]

getEgressFilterChainsForMatches(matches) ==
  {IF m.protocol = "http" THEN getEgressHTTPFilterChain(m) ELSE getEgressTCPFilterChain(m) :
     m \in matches}

(* A listener without chains is left out of the response, which comes to   *)
(* the same as one that nothing matches.                                   *)
newOutboundListener(w, policies) ==
  [chains |-> getOutboundFilterChainPerUpstream(policies.outbound.matches)
                \cup getEgressFilterChainsForMatches(policies.egress.matches),
   passthrough |-> w.egress]

LDSResponse(w, p, policies) ==
  [outbound |-> newOutboundListener(w, policies),
   inbound |-> getInboundMeshFilterChains(w, identity(p), policies.inbound.matches)
                 \cup UNION {getIngressFilterChains(w, ms) : ms \in ToSet(ListProxyServices(w, p))}]
-----------------------------------------------------------------------------
(* rds: one route for each method of a rule, here one route with them all. *)
buildInboundRBACFilterForRule(rule) == <<{Build(rule.allowed, {})}>>

buildRoute(route, rbac) == [match |-> route.match, clusters |-> route.clusters, rbac |-> rbac]

buildInboundRoutes(rules) ==
  Map(LAMBDA r : buildRoute(r.route, buildInboundRBACFilterForRule(r)), rules)

(* The match of an outbound route is dropped: any path, method and header. *)
buildOutboundRoutes(routes) ==
  Map(LAMBDA r : buildRoute([r EXCEPT !.match = WildCardRouteMatch], << >>), routes)

buildEgressRoutes(rules) == Map(LAMBDA r : buildRoute(r.route, << >>), rules)

(* One route configuration for each port. *)
perPort(name, configs) ==
  [n \in {<<name, c.port>> : c \in ToSet(configs)} |->
     Map(LAMBDA c : [hosts |-> c.hosts, routes |-> c.routes],
         SelectSeq(configs, LAMBDA c : c.port = n[2]))]

BuildInboundMeshRouteConfiguration(configs) ==
  perPort("rds-inbound", Map(LAMBDA c : [port |-> c.port, hosts |-> c.policy.hosts,
                                         routes |-> buildInboundRoutes(c.policy.rules)], configs))

BuildOutboundMeshRouteConfiguration(configs) ==
  perPort("rds-outbound", Map(LAMBDA c : [port |-> c.port, hosts |-> c.policy.hosts,
                                          routes |-> buildOutboundRoutes(c.policy.routes)], configs))

BuildEgressRouteConfiguration(configs) ==
  perPort("rds-egress", Map(LAMBDA c : [port |-> c.port, hosts |-> c.hosts,
                                        routes |-> buildEgressRoutes(c.rules)], configs))

BuildIngressConfiguration(policies) ==
  [n \in IF policies = << >> THEN {} ELSE {<<"rds-ingress">>} |->
     Map(LAMBDA c : [hosts |-> c.hosts, routes |-> buildInboundRoutes(c.rules)], policies)]

(* The stub of a configuration that is asked for and not there matches     *)
(* nothing, as one that is not in the function.                            *)
RDSResponse(w, p, policies) ==
  LET ingressPolicies(ms) ==
        SetToSeq({[name |-> FQDN(ms), hosts |-> {<<"*">>}, rules |-> policy.rules] :
                    policy \in GetIngressTrafficPolicy(w, ms)})
  IN BuildInboundMeshRouteConfiguration(policies.inbound.configs)
       @@ BuildOutboundMeshRouteConfiguration(policies.outbound.configs)
       @@ BuildIngressConfiguration(
            FoldLeft(LAMBDA acc, ms : MergeInboundPolicies(acc, ingressPolicies(ms)), << >>,
                     ListProxyServices(w, p)))
       @@ BuildEgressRouteConfiguration(policies.egress.configs)
-----------------------------------------------------------------------------
(* cds: the first cluster of a name is kept. *)
cluster(type, svc, host, port) == [type |-> type, service |-> svc, host |-> host, port |-> port]

(* An upstream's cluster asks for the service by name in TLS, and a local  *)
(* one leads to the application.                                           *)
getUpstreamServiceCluster(n) == cluster("eds", <<n[2], n[1]>>, "", n[3])
getLocalServiceCluster(n) == cluster("local", << >>, "", n[3])
getDNSResolvableEgressCluster(n) == cluster("dns", << >>, n[1], n[2])
getOriginalDestinationEgressCluster == cluster("original", << >>, "", 0)

upstreamClustersFromClusterConfigs(configs) ==
  [n \in {c.name : c \in ToSet(configs)} |-> getUpstreamServiceCluster(n)]

localClustersFromClusterConfigs(configs) ==
  [n \in {c.name : c \in ToSet(configs)} |-> getLocalServiceCluster(n)]

getEgressClusters(names) ==
  [n \in names |-> IF n[1] = "" THEN getOriginalDestinationEgressCluster
                   ELSE getDNSResolvableEgressCluster(n)]

OutboundPassthroughCluster == <<"passthrough-outbound">>

CDSResponse(w, policies) ==
  upstreamClustersFromClusterConfigs(policies.outbound.clusters)
    @@ localClustersFromClusterConfigs(policies.inbound.clusters)
    @@ getEgressClusters(policies.egress.clusters)
    @@ [n \in IF w.egress THEN {OutboundPassthroughCluster} ELSE {} |->
          getOriginalDestinationEgressCluster]

(* eds: the answer to the names that the clusters make an Envoy ask for. *)
clusterNameToMeshSvc(n) ==
  [ns |-> n[1], name |-> n[2], port |-> 0, targetPort |-> n[3], protocol |-> ""]

fulfillEDSRequest(w, id, names) ==
  [n \in names |-> ListAllowedUpstreamEndpointsForService(w, id, clusterNameToMeshSvc(n))]

upstreamNames(clusters) == {n \in DOMAIN clusters : clusters[n].type = "eds"}

EDSResponse(w, p, clusters) == fulfillEDSRequest(w, identity(p), upstreamNames(clusters))

(* sds: of the secrets, the ones that the certificates of upstream         *)
(* services are validated with.                                            *)
getRootCert(w, svc) ==
  {AsPrincipal(id) : id \in ListServiceIdentitiesForService(w,
     [ns |-> svc[2], name |-> svc[1], port |-> 0, targetPort |-> 0, protocol |-> ""])}

upstreamServices(clusters) == {clusters[n].service : n \in upstreamNames(clusters)}

getSDSSecrets(w, names) == [svc \in names |-> getRootCert(w, svc)]

SDSResponse(w, clusters) == getSDSSecrets(w, upstreamServices(clusters))

(* The resources but for the secrets; first the policies that the catalog  *)
(* answers the generators for CDS, LDS and RDS with.                       *)
policiesOf(w, p) ==
  LET id == identity(p)
  IN [inbound |-> GetInboundMeshTrafficPolicy(w, id, ListProxyServices(w, p)),
      outbound |-> GetOutboundMeshTrafficPolicy(w, id), egress |-> GetEgressTrafficPolicy(w, id)]

responses(w, p, policies, clusters) ==
  [CDS |-> clusters, EDS |-> EDSResponse(w, p, clusters), LDS |-> LDSResponse(w, p, policies),
   RDS |-> RDSResponse(w, p, policies)]

resourcesFor(w, p, policies) == responses(w, p, policies, CDSResponse(w, policies))

ResourcesOf(w, p) == resourcesFor(w, p, policiesOf(w, p))
=============================================================================
