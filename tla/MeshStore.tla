------------------------------ MODULE MeshStore ------------------------------
(***************************************************************************)
(* What the controller's Kubernetes, SMI and policy clients (pkg/k8s,      *)
(* pkg/smi, pkg/policy, pkg/providers/kube) read from the informers'       *)
(* stores, as functions of the stores' contents w:                         *)
(*                                                                         *)
(*   w.permissive   EnablePermissiveTrafficPolicyMode of the MeshConfig    *)
(*   w.egress       EnableEgress of the MeshConfig                         *)
(*   w.pods         pod -> one of PodStates                                *)
(*   w.objs         which of the objects of Manifest exist                 *)
(*   w.order        the order in which the stores list what they hold      *)
(*                                                                         *)
(* A pod that is "starting" is listed and has its address; it is           *)
(* "connected" when its sidecar has a session with the controller, "ready" *)
(* when it is also among the endpoints of its services.  A pod without a   *)
(* sidecar is never "connected".  The Endpoints object of a service has    *)
(* one subset, of its ready pods, or none.  A store is a Go map: it lists  *)
(* in any order, of which the model has two, one the reverse of the other. *)
(* Services and the watched namespaces do not change.                      *)
(*                                                                         *)
(*   MeshService   [ns, name, port, targetPort, protocol]; name is         *)
(*                 <<service>> or <<hostname, service>>                     *)
(*   identity      <<account, ns>>, a principal has the trust domain too   *)
(*   IP            the pod's name, or the service's for a ClusterIP        *)
(***************************************************************************)
EXTENDS TrafficPolicy, FiniteSets

CONSTANTS
  Pods,
  PodInfo,        \* pod -> [ns, sa, hostname, sidecar]; hostname "" is none
  Services,       \* sequence of [ns, name, ports, selects, headless]
  Manifest,       \* sequence of the objects that may be created
  Namespaces,     \* the monitored namespaces
  TrustDomain,
  PathsOf         \* path of a route -> the request paths that it matches

(* op of the elements of a sequence, as one sequence. *)
ConcatMap(op(_), seq) == FlattenSeq([i \in DOMAIN seq |-> op(seq[i])])
Map(op(_), seq) == ConcatMap(LAMBDA e : <<op(e)>>, seq)

Orders == {"up", "down"}
PodStates == {"absent", "starting", "connected", "ready"}
Sidecars == {p \in Pods : PodInfo[p].sidecar}
-----------------------------------------------------------------------------
(* pkg/identity *)
WildcardPrincipal == <<"*">>
identity(p) == <<PodInfo[p].sa, PodInfo[p].ns>>
AsPrincipal(id) == IF id = <<"*">> THEN id ELSE Append(id, TrustDomain)

FromPrincipal(principal) ==
  IF Last(principal) = TrustDomain THEN Front(principal) ELSE principal

(* pkg/service *)
Subdomain(ms) == IF Len(ms.name) = 1 THEN "" ELSE ms.name[1]
ProviderKey(ms) == Last(ms.name)
SidecarClusterName(ms) == <<ms.ns, ms.name, ms.targetPort>>
SidecarLocalClusterName(ms) == <<ms.ns, ms.name, ms.targetPort, "local">>
FQDN(ms) == <<ms.name, ms.ns>>
OutboundTrafficMatchName(ms) == <<"outbound", ms.ns, ms.name, ms.port, ms.protocol>>
InboundTrafficMatchName(ms) == <<"inbound", ms.ns, ms.name, ms.targetPort, ms.protocol>>
SupportedProtocolsInMesh == {"tcp-server-first", "http", "tcp", "grpc"}
IsTCP(ms) == ms.protocol \in {"tcp", "tcp-server-first"}

(* A hostname is the service's name, its namespace unless the short form   *)
(* is used and the port unless it is left out (the .svc and trust domain   *)
(* forms are accepted wherever the form with the namespace is).            *)
GetHostnamesForService(ms, localNamespace) ==
  {ms.name} \X ({ms.ns} \cup IF localNamespace THEN {""} ELSE {}) \X {0, ms.port}
-----------------------------------------------------------------------------
(* pkg/k8s *)
InOrder(w, seq) == IF w.order = "up" THEN seq ELSE Reverse(seq)

(* informers.List of a kind, in the monitored namespaces. *)
List(w, kind) ==
  LET ids == SelectSeq([i \in DOMAIN Manifest |-> i],
                       LAMBDA i : /\ i \in w.objs /\ Manifest[i].kind = kind
                                  /\ Manifest[i].ns \in Namespaces)
  IN InOrder(w, Map(LAMBDA i : Manifest[i], ids))

ListServices(w) ==
  InOrder(w, SelectSeq(Services, LAMBDA s : s.ns \in Namespaces))

ListPods(w) ==
  {p \in Pods : w.pods[p] # "absent" /\ PodInfo[p].ns \in Namespaces}

ServiceNamed(ns, name) ==
  LET i == SelectInSeq(Services, LAMBDA s : s.ns = ns /\ s.name = name)
  IN IF i = 0 THEN {} ELSE {Services[i]}

GetService(ms) == ServiceNamed(ms.ns, ProviderKey(ms))

(* The subset of the service's Endpoints. *)
Addresses(w, svc) == {p \in svc.selects : w.pods[p] = "ready"}
EndpointPorts(w, svc) == IF Addresses(w, svc) = {} THEN << >> ELSE svc.ports

(* 0 when the service has no endpoints *)
GetTargetPortFromEndpoints(w, svc, portName) ==
  LET ports == EndpointPorts(w, svc)
      i == SelectInSeq(ports, LAMBDA p : portName = << >> \/ Len(ports) = 1
                                           \/ p.name = portName)
  IN IF i = 0 THEN 0 ELSE ports[i].targetPort

(* A port's name is << >> or <<prefix, rest>>. *)
Protocol(port) ==
  CASE port.appProtocol # "" -> port.appProtocol
    [] port.appProtocol = "" /\ port.name # << >> /\ port.name[1] \in SupportedProtocolsInMesh
         -> port.name[1]
    [] OTHER -> "http"

ServiceToMeshServices(w, svc) ==
  LET ms(port, name) ==
        [ns |-> svc.ns, name |-> name, port |-> port.port,
         targetPort |-> GetTargetPortFromEndpoints(w, svc, port.name),
         protocol |-> Protocol(port)]
      hosts == {p \in Addresses(w, svc) : PodInfo[p].hostname # ""}
      names == IF ~svc.headless \/ hosts = {} THEN << <<svc.name>> >>
               ELSE SetToSeq({<<PodInfo[p].hostname, svc.name>> : p \in hosts})
  IN ConcatMap(LAMBDA port : Map(LAMBDA name : ms(port, name), names), svc.ports)

(* The set of the target port, or empty for the error. *)
GetTargetPortForServicePort(w, ns, name, port) ==
  UNION {LET i == SelectInSeq(svc.ports, LAMBDA p : p.port = port)
             portName == IF i = 0 THEN << >> ELSE svc.ports[i].name
         IN {p.targetPort : p \in {q \in ToSet(EndpointPorts(w, svc)) :
                                      q.name = portName}}
           : svc \in ServiceNamed(ns, name)}
-----------------------------------------------------------------------------
(* pkg/providers/kube; the services in the order of their lists *)
ListEndpointsForService(w, ms) ==
  {[ip |-> a, port |-> p.targetPort] :
     a \in UNION {{b \in Addresses(w, svc) : Subdomain(ms) \in {"", PodInfo[b].hostname}}
                    : svc \in GetService(ms)},
     p \in UNION {{q \in ToSet(EndpointPorts(w, svc)) :
                     ms.targetPort \in {0, q.targetPort}} : svc \in GetService(ms)}}

ListEndpointsForIdentity(w, id) == {p \in ListPods(w) : identity(p) = id}

MeshServicesOf(w, svcs) ==
  ConcatMap(LAMBDA svc : ServiceToMeshServices(w, svc), svcs)

GetServicesForServiceIdentity(w, id) ==
  MeshServicesOf(w, SelectSeq(ListServices(w),
    LAMBDA svc : \E p \in ListPods(w) \cap svc.selects :
                   identity(p) = id /\ PodInfo[p].ns = svc.ns))

(* The addresses that the service's name resolves to. *)
GetResolvableEndpointsForService(w, ms) ==
  UNION {IF svc.headless
         THEN {e.ip : e \in ListEndpointsForService(w, ms)}
         ELSE {svc.name} : svc \in GetService(ms)}

(* The accounts of the pods that a service selects, ready or not. *)
ListServiceIdentitiesForService(w, ms) ==
  UNION {{identity(p) : p \in ListPods(w) \cap svc.selects} : svc \in GetService(ms)}

(* registry.ListProxyServices: the services of a sidecar's own pod *)
ListProxyServices(w, p) ==
  SelectSeq(MeshServicesOf(w, SelectSeq(ListServices(w),
              LAMBDA svc : svc.ns = PodInfo[p].ns /\ p \in svc.selects)),
            LAMBDA ms : Subdomain(ms) \in {"", p})
-----------------------------------------------------------------------------
(* pkg/smi *)
hasValidRules(rules) ==
  rules # << >> /\ \A i \in DOMAIN rules : rules[i].kind \in {"HTTPRouteGroup", "TCPRoute"}

isValidTrafficTarget(t) == t.dst[2] = t.ns /\ hasValidRules(t.rules)

ListTrafficTargets(w) ==
  SelectSeq(List(w, "TrafficTarget"), isValidTrafficTarget)

ListTrafficTargetsTo(w, id) ==
  SelectSeq(ListTrafficTargets(w), LAMBDA t : t.dst = id)

ListHTTPTrafficSpecs(w) == List(w, "HTTPRouteGroup")

GetTCPRoute(w, ns, name) ==
  {r \in ToSet(List(w, "TCPRoute")) : r.ns = ns /\ r.name = name}

(* splitHostName of the host of a split: with two labels the second one is *)
(* a namespace, if there is such a namespace, or else the service.         *)
GetServiceFromHostname(host) ==
  IF Len(host) = 2 /\ host[2] \notin Namespaces THEN host[2] ELSE host[1]

GetSubdomainFromHostname(host) ==
  IF Len(host) = 2 /\ host[2] \notin Namespaces THEN host[1] ELSE ""

ListTrafficSplitsOfApex(w, ms) ==
  SelectSeq(List(w, "TrafficSplit"),
    LAMBDA s : s.ns = ms.ns /\ ms.name = <<GetServiceFromHostname(s.service)>>)

ListTrafficSplitsOfBackend(w, ms) ==
  SelectSeq(List(w, "TrafficSplit"),
    LAMBDA s : s.ns = ms.ns /\ \E i \in DOMAIN s.backends : <<s.backends[i].service>> = ms.name)
-----------------------------------------------------------------------------
(* pkg/policy.  Of an IngressBackend and of an AccessControl the first one *)
(* with a backend for the service is used.                                 *)
forBackend(w, kind, ms) ==
  LET all == List(w, kind)
      i == SelectInSeq(all, LAMBDA o : /\ o.ns = ms.ns
                                       /\ \E j \in DOMAIN o.backends :
                                            <<o.backends[j].name>> = ms.name
                                              /\ o.backends[j].port = ms.targetPort)
  IN IF i = 0 THEN {} ELSE {all[i]}

GetIngressBackendPolicy(w, ms) == forBackend(w, "IngressBackend", ms)
GetAccessControlPolicy(w, ms) == forBackend(w, "AccessControl", ms)

ListEgressPoliciesForSourceIdentity(w, id) ==
  ConcatMap(LAMBDA e : Map(LAMBDA s : e, SelectSeq(e.sources, LAMBDA s : s = id)),
            List(w, "Egress"))

ListEgressGateways(w) == List(w, "EgressGateway")

UpstreamTrafficSettingNamed(w, ns, name) ==
  {o \in ToSet(List(w, "UpstreamTrafficSetting")) : o.ns = ns /\ o.name = name}
=============================================================================
