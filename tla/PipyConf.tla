------------------------------ MODULE PipyConf ------------------------------
(***************************************************************************)
(* The configuration that the controller generates for a Pipy sidecar      *)
(* (pkg/sidecar/providers/pipy/repo: jobs.go, util.go, policy.go) from the *)
(* policies of the catalog.                                                *)
(*                                                                         *)
(*   inbound.matches    port -> [protocol, hosts, rules, tcp, sources]     *)
(*   inbound.clusters   local cluster -> port of the application           *)
(*   outbound.matches   port -> set of [protocol, ips, hosts, rules, tcp,  *)
(*                      allowEgress, gateways]                             *)
(*   outbound.clusters  cluster -> its endpoints, [ip, port]               *)
(*   forward            [matches, gateways]: name of a gateway rule -> the *)
(*                      gateway clusters, gateway cluster -> its endpoints *)
(*   allowed            AllowedEndpoints                                   *)
(*   egress             Spec.Traffic.EnableEgress                          *)
(*                                                                         *)
(* hosts is a function from hostnames to the names of rule lists, rules a  *)
(* function from these to the lists.  A rule is [match, clusters, allowed] *)
(* where no methods and no allowed services are the code's nil and mean    *)
(* any.  sources is a function from the addresses of SourceIPRanges to     *)
(* [mtls, skip, principals], gateways one from the names of rule lists     *)
(* (<<"tcp">> for the TCP rules) to EgressForwardGateway.                  *)
(*                                                                         *)
(* Left out are the weights of endpoints and of gateways (all equal, as    *)
(* balance makes them when there is no ServiceImport and no weight in the  *)
(* gateway's object), certificates, plugins, rate limits and probes.       *)
(***************************************************************************)
EXTENDS MeshCatalog

CONSTANT PathOrder      \* the paths of rules, in the order of strings.Compare

EmptyConf ==
  [inbound |-> [matches |-> << >>, clusters |-> << >>],
   outbound |-> [matches |-> << >>, clusters |-> << >>],
   forward |-> [matches |-> << >>, gateways |-> << >>],
   allowed |-> {}, egress |-> FALSE]

(* addMethodMatch: "*" makes the list nil. *)
HTTPMatchRule(match) ==
  [path |-> match.path,
   methods |-> IF Contains(match.methods, WildcardHTTPMethod) THEN << >> ELSE match.methods,
   headers |-> match.headers]

(* addAllowedService: "*" makes the list nil. *)
AllowedServices(principals) ==
  IF WildcardPrincipal \in principals THEN {}
  ELSE {FromPrincipal(p) : p \in principals}

(* addWeightedCluster: the weight that is added last counts. *)
addWeightedClusters(clusters, more) ==
  {c \in clusters : \A d \in more : d.cluster # c.cluster} \cup more

(* mutant: the paths are compared as strings *)
LessByPath(a, b) ==
  SelectInSeq(PathOrder, LAMBDA p : p = a.match.path)
    < SelectInSeq(PathOrder, LAMBDA p : p = b.match.path)

(* The paths are compared as strings, but none is after ".*". *)
Less(a, b) ==
  /\ a.match.path # RegexMatchAll
  /\ SelectInSeq(PathOrder, LAMBDA p : p = a.match.path)
       < SelectInSeq(PathOrder, LAMBDA p : p = b.match.path)

(* sort.Sort, which is an insertion sort for so few elements: one that is  *)
(* not Less than its neighbour stays where it is.                          *)
sortRules(rules) ==
  LET insert(acc, r) ==
        LET at == CHOOSE j \in 1 .. Len(acc) + 1 :
                    /\ \A k \in j .. Len(acc) : Less(r, acc[k])
                    /\ j = 1 \/ ~Less(r, acc[j - 1])
        IN InsertAt(acc, at, r)
  IN FoldLeft(insert, << >>, rules)

(* The mesh service that a traffic match is named for. *)
trafficMatchToMeshSvc(m) ==
  [ns |-> m.ns, name |-> m.svc, port |-> 0, targetPort |-> m.port, protocol |-> m.protocol]

getMeshClusterConfigs(configs, name) ==
  LET i == SelectInSeq(configs, LAMBDA c : c.name = name)
  IN IF i = 0 THEN {} ELSE {configs[i]}

clusterToMeshSvc(cluster) ==
  [ns |-> cluster[1], name |-> cluster[2], port |-> 0, targetPort |-> cluster[3], protocol |-> ""]

setProtocol(protocol) == IF protocol = "tcp-server-first" THEN "tcp" ELSE protocol

(* Of the records of seq with a host, the last one's rule list. *)
hostsOf(configs) ==
  [h \in UNION {configs[i].policy.hosts : i \in DOMAIN configs} |->
     configs[SelectLastInSeq(configs, LAMBDA c : h \in c.policy.hosts)].policy.name]
-----------------------------------------------------------------------------
(* Inbound.  A match is kept under the service's port.  The configs of     *)
(* apexes are in the policy but are not looked up.                         *)
getInboundHTTPRouteConfigs(configs, port, fqdn) ==
  LET i == SelectInSeq(configs, LAMBDA c : c.port = port /\ c.policy.name = fqdn)
  IN IF i = 0 THEN << >> ELSE <<configs[i]>>

inboundRouteRules(rules) ==
  LET add(acc, r) ==
        LET match == HTTPMatchRule(r.route.match)
            found == SelectInSeq(acc, LAMBDA x : x.match = match)
        IN IF found = 0
           THEN Append(acc, [match |-> match, clusters |-> r.route.clusters, allowed |-> r.allowed])
           ELSE [acc EXCEPT ![found].allowed = @ \cup r.allowed]
      all == FoldLeft(add, << >>, rules)
  IN sortRules(Map(LAMBDA r : [r EXCEPT !.allowed = AllowedServices(@)], all))

generatePipyInboundTrafficPolicy(policy) ==
  LET svc(m) == trafficMatchToMeshSvc(m)
      port(m) == (CHOOSE c \in getMeshClusterConfigs(policy.clusters,
                                 SidecarLocalClusterName(svc(m))) : TRUE).service.port
      ports == {port(policy.matches[i]) : i \in DOMAIN policy.matches}
      at(p) == SelectSeq(policy.matches, LAMBDA m : port(m) = p)
      configs(p) ==
        ConcatMap(LAMBDA m : IF m.protocol \in {"http", "grpc"}
                             THEN getInboundHTTPRouteConfigs(policy.configs, m.port, FQDN(svc(m)))
                             ELSE << >>, at(p))
      tcp(p) == {[cluster |-> m.cluster, weight |-> ClusterWeightAcceptAll] :
                   m \in {x \in ToSet(at(p)) : IsTCP(x)}}
      rules(cs, n) ==
        inboundRouteRules(ConcatMap(LAMBDA c : IF c.policy.name = n THEN c.policy.rules ELSE << >>, cs))
      match(p) ==
        [protocol |-> setProtocol(Last(at(p)).protocol),
         hosts |-> hostsOf(configs(p)),
         rules |-> LET cs == configs(p)
                   IN [n \in {cs[i].policy.name : i \in DOMAIN cs} |-> rules(cs, n)],
         tcp |-> tcp(p), sources |-> << >>]
      clusters == policy.clusters
  IN [matches |-> [p \in ports |-> match(p)],
      clusters |-> [n \in {clusters[i].name : i \in DOMAIN clusters} |->
                      (CHOOSE c \in getMeshClusterConfigs(clusters, n) : TRUE).service.targetPort]]

(* generatePipyIngressTrafficRoutePolicy, and the same for an access       *)
(* control policy: a match is found by the port of the backend, so by the  *)
(* target port of the service, and shared with the mesh's if there is one. *)
(* The first specification for an address and the first rule are kept.     *)
generatePipyIngressTrafficRoutePolicy(inbound, policy) ==
  LET http(m) == m.protocol \in {"http", "https", "grpc"}
      match(itp, m) ==
        IF m.port \in DOMAIN itp.matches THEN itp.matches[m.port]
        ELSE [protocol |-> setProtocol(m.protocol), hosts |-> << >>, rules |-> << >>,
              tcp |-> {}, sources |-> << >>]
      spec(m) == [mtls |-> m.tls.on, skip |-> m.tls.skip,
                  principals |-> IF http(m) /\ m.tls.on
                                 THEN UNION {r.allowed : r \in ToSet(policy.rules)} ELSE {}]
      rules == inboundRouteRules(Map(LAMBDA r : [r EXCEPT !.allowed = {WildcardPrincipal}],
                                     policy.rules))
      withRules(tm) ==
        [tm EXCEPT !.hosts = (<<"*">> :> <<"*">>) @@ @,
                   !.rules = @ @@ (<<"*">> :> rules)]
      add(itp, m) ==
        LET tm == [match(itp, m) EXCEPT !.sources = @ @@ [ip \in m.ips |-> spec(m)]]
        IN [itp EXCEPT !.matches =
              (m.port :> IF http(m) /\ policy.rules # << >> THEN withRules(tm) ELSE tm) @@ @]
  IN IF DOMAIN inbound.clusters = {} THEN inbound ELSE FoldLeft(add, inbound, policy.matches)

(* inbound of jobs.go: the errors of the two policies are dropped. *)
inboundOf(w, id, services) ==
  FoldLeft(LAMBDA itp, ms : FoldLeft(generatePipyIngressTrafficRoutePolicy, itp,
                                     SetToSeq(GetIngressTrafficPolicy(w, ms))
                                       \o SetToSeq(GetAccessControlTrafficPolicy(w, ms))),
           generatePipyInboundTrafficPolicy(GetInboundMeshTrafficPolicy(w, id, services)),
           services)
-----------------------------------------------------------------------------
(* Outbound.  The HTTP matches of a port are one match; only a match whose *)
(* clusters are those of one of the service's routes brings the routes.    *)
getOutboundHTTPRouteConfigs(configs, m) ==
  SelectSeq(configs, LAMBDA c :
    /\ c.port = m.port /\ c.policy.name = FQDN(trafficMatchToMeshSvc(m))
    /\ \E i \in DOMAIN c.policy.routes :
         /\ c.policy.routes[i].clusters = ToSet(m.clusters)
         /\ Cardinality(ToSet(m.clusters)) = Len(m.clusters))

outboundRouteRules(routes) ==
  LET add(acc, r) ==
        LET match == HTTPMatchRule(r.match)
            found == SelectInSeq(acc, LAMBDA x : x.match = match)
        IN IF found = 0
           THEN Append(acc, [match |-> match, clusters |-> r.clusters, allowed |-> {}])
           ELSE [acc EXCEPT ![found].clusters = addWeightedClusters(@, r.clusters)]
  IN sortRules(FoldLeft(add, << >>, routes))

generatePipyOutboundTrafficRoutePolicy(policy) ==
  LET http(m) == m.protocol \in {"http", "grpc"}
      name(m) == IF http(m) THEN <<"http">> ELSE m.name
      all == ToSet(policy.matches)
      ports == {m.port : m \in all}
      configs(ms) == ConcatMap(LAMBDA m : IF http(m) THEN getOutboundHTTPRouteConfigs(policy.configs, m)
                                          ELSE << >>, ms)
      tcp(ms) == FoldLeft(LAMBDA acc, m : IF IsTCP(m) THEN addWeightedClusters(acc, ToSet(m.clusters))
                                          ELSE acc, {}, ms)
      rules(cs, n) ==
        outboundRouteRules(ConcatMap(LAMBDA c : IF c.policy.name = n THEN c.policy.routes ELSE << >>, cs))
      match(ms) ==
        [protocol |-> setProtocol(ms[1].protocol),
         ips |-> UNION {ms[i].ips : i \in DOMAIN ms},
         hosts |-> hostsOf(configs(ms)),
         rules |-> LET cs == configs(ms)
                   IN [n \in {cs[i].policy.name : i \in DOMAIN cs} |-> rules(cs, n)],
         tcp |-> tcp(ms), allowEgress |-> FALSE, gateways |-> << >>]
  IN [p \in ports |->
        {match(SelectSeq(policy.matches, LAMBDA m : m.port = p /\ name(m) = n)) :
           n \in {name(m) : m \in {x \in all : x.port = p}}}]

(* The clusters that the matches' rules name. *)
dependClusters(matches) ==
  LET all == UNION {matches[p] : p \in DOMAIN matches}
      rules(m) == UNION {ToSet(m.rules[n]) : n \in DOMAIN m.rules}
  IN {c.cluster : c \in UNION {m.tcp \cup UNION {r.clusters : r \in rules(m)} : m \in all}}

(* A cluster that no service of the policy has is not in the               *)
(* configuration; an endpoint gets the service's port.                     *)
generatePipyOutboundTrafficBalancePolicy(w, id, policy, matches) ==
  LET config(n) == getMeshClusterConfigs(policy.clusters, n)
      endpoints(n) ==
        {[ip |-> e.ip, port |-> (CHOOSE c \in config(n) : TRUE).service.port] :
           e \in ListAllowedUpstreamEndpointsForService(w, id, clusterToMeshSvc(n))}
  IN [n \in {c \in dependClusters(matches) : config(c) # {}} |-> endpoints(n)]

balanceReady(matches, clusters) ==
  \A n \in dependClusters(matches) : n \in DOMAIN clusters /\ clusters[n] # {}
-----------------------------------------------------------------------------
(* Egress.  The matches of a port and protocol are one match, with the     *)
(* hosts of all policies for the port.                                     *)
egressHosts(configs) ==
  [h \in UNION {configs[i].hosts : i \in DOMAIN configs} |-> << h[1][1] >>]

generatePipyEgressTrafficRoutePolicy(policy) ==
  LET named(n) == {m \in policy.matches : m.name = n}
      http(m) == m.protocol = "http"
      configs(m) == SelectSeq(policy.configs, LAMBDA c : http(m) /\ c.port = m.port)
      names(m) == {c.name : c \in ToSet(configs(m))}
      routes(m, n) == ConcatMap(LAMBDA c : IF c.name = n THEN Map(LAMBDA r : r.route, c.rules)
                                           ELSE << >>, configs(m))
      ips(m) == m.ips \cup UNION {UNION {r.ips : r \in ToSet(c.rules)} : c \in ToSet(configs(m))}
      match(ms) ==
        LET m == CHOOSE x \in ms : TRUE
        IN [protocol |-> setProtocol(m.protocol),
            ips |-> UNION {ips(x) : x \in ms},
            hosts |-> egressHosts(configs(m)),
            rules |-> [n \in names(m) |-> outboundRouteRules(routes(m, n))],
            tcp |-> IF m.protocol = "https"
                    THEN {[cluster |-> <<m.port>>, weight |-> ClusterWeightAcceptAll]} ELSE {},
            allowEgress |-> IsTCP(m),
            gateways |-> [n \in IF http(m) THEN names(m) ELSE {<<"tcp">>} |-> m.gateway]]
  IN [p \in {m.port : m \in policy.matches} |->
        {match(named(n)) : n \in {m.name : m \in {x \in policy.matches : x.port = p}}}]

(* The clusters of the hosts, and those of HTTPS, which are named by port. *)
generatePipyEgressTrafficBalancePolicy(policy) ==
  LET https == {m \in policy.matches : m.protocol = "https"}
      http == {r.route : r \in UNION {ToSet(c.rules) : c \in ToSet(policy.configs)}}
  IN [n \in {c.cluster : c \in UNION {r.clusters : r \in http}} |-> {[ip |-> n[1], port |-> n[2]]}]
       @@ [n \in {<<m.port>> : m \in https} |->
             {[ip |-> host, port |-> n[1]] :
                host \in UNION {m.servers : m \in {x \in https : x.port = n[1]}}}]

(* A rule is named by its position among the rules of all objects. *)
generatePipyEgressTrafficForwardPolicy(policy) ==
  LET clusters(gateways) == {g.cluster : g \in ToSet(gateways)}
      rules == policy.rules
      all == ToSet(policy.global \o ConcatMap(LAMBDA r : r.gateways, rules))
  IN [matches |->
        (IF policy.global = << >> THEN << >> ELSE <<"*">> :> clusters(policy.global))
          @@ [n \in {<<rules[i].ns, rules[i].name, i - 1>> : i \in DOMAIN rules} |->
                clusters(rules[n[3] + 1].gateways)],
      gateways |->
        [c \in {g.cluster : g \in {x \in all : x.endpoints # {}}} |->
           UNION {g.endpoints : g \in {x \in all : x.cluster = c}}]]

(* An endpoint of every gateway that a rule names. *)
forwardReady(forward) ==
  \A n \in DOMAIN forward.matches : n # <<"*">> => forward.matches[n] \subseteq DOMAIN forward.gateways
-----------------------------------------------------------------------------
(* The addresses of the connected sidecars, and of the sources outside. *)
copyAllowedEndpoints(w, inbound) ==
  {p \in ListPods(w) \cap Sidecars : w.pods[p] # "starting"}
    \cup UNION {DOMAIN inbound.matches[port].sources : port \in DOMAIN inbound.matches}

endpointsReady(w) == \A p \in ListPods(w) \cap Sidecars : w.pods[p] # "starting"

(* outbound and egress of jobs.go; they add to the same matches. *)
addMatches(mesh, outside) ==
  LET at(matches, port) == IF port \in DOMAIN matches THEN matches[port] ELSE {}
  IN [port \in DOMAIN mesh \cup DOMAIN outside |-> at(mesh, port) \cup at(outside, port)]

outboundOf(w, id, policy, matches, egress) ==
  [matches |-> addMatches(matches, generatePipyEgressTrafficRoutePolicy(egress)),
   clusters |-> generatePipyOutboundTrafficBalancePolicy(w, id, policy, matches)
                  @@ generatePipyEgressTrafficBalancePolicy(egress)]

(* PipyConfGeneratorJob.Run for the sidecar of an identity, with what the  *)
(* catalog answers.                                                        *)
RunJob(w, id, inbound, policy, egress) ==
  [inbound |-> inbound,
   outbound |-> outboundOf(w, id, policy, generatePipyOutboundTrafficRoutePolicy(policy), egress),
   forward |-> generatePipyEgressTrafficForwardPolicy(GetEgressGatewayPolicy(w)),
   allowed |-> copyAllowedEndpoints(w, inbound), egress |-> w.egress]

PipyConfOf(w, p) ==
  LET id == identity(p)
  IN RunJob(w, id, inboundOf(w, id, ListProxyServices(w, p)),
            GetOutboundMeshTrafficPolicy(w, id), GetEgressTrafficPolicy(w, id))

(* Whether Run asks for no other round of all sidecars. *)
PipyConfReady(w, conf) ==
  /\ endpointsReady(w)
  /\ balanceReady(conf.outbound.matches, conf.outbound.clusters)
  /\ forwardReady(conf.forward)
=============================================================================
