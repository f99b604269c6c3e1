-------------------------------- MODULE Mesh --------------------------------
(***************************************************************************)
(* The mesh: the stores change, an announced change makes the controller   *)
(* regenerate the configuration of every connected sidecar, and each       *)
(* sidecar forwards and accepts traffic by the configuration that it has.  *)
(* Configurations of different ages are in use together; the properties    *)
(* are about what gets through while they are and when they no longer are. *)
(*                                                                         *)
(* The sidecars are Pipys or Envoys.  The configuration of a Pipy is one   *)
(* file; a job that finds that something is missing asks for another round *)
(* (retryProxiesJob).  An Envoy has resources of five types, generated and *)
(* sent one type after the other (sendResponse).  A round does not send    *)
(* secrets: an Envoy gets them when it asks, which it does when the        *)
(* clusters name others than before, and when its certificate is rotated.  *)
(*                                                                         *)
(* PodAdded is not announced, nor is the deletion of a pod whose sidecar   *)
(* has not connected (ProxyUpdateEvent and ReleaseCertificateHandler);     *)
(* every other change is.                                                  *)
(*                                                                         *)
(* Outside the mesh are pods without a sidecar, such as an ingress         *)
(* controller or an egress gateway, and other addresses.                   *)
(***************************************************************************)
EXTENDS PipyProxy, EnvoyProxy, TLC

CONSTANTS
  Clients,       \* the pods that make calls
  Scopes         \* bound: what one behaviour has and which traffic is looked at,
                 \*   name -> [sidecar: "pipy" or "envoy",
                 \*   workers: how many Envoys are served at a time,
                 \*   objs, pods, movers, toggles, orders: the stores' contents,
                 \*   calls: HTTP, [svc, ns, port, target, method, path, headers],
                 \*   conns: TCP, [svc, ip, port, target],
                 \*   outsiders: [peer, req] of peers that are not sidecars,
                 \*   exits: [host, ip, port, method, path, headers] to the outside]

VARIABLES
  within,        \* the name of the scope, which never changes
  world,         \* the stores' contents
  running,       \* pod -> type -> what its sidecar has
  view,          \* pod -> type -> <<contents that it was generated from>>, or << >>
                 \*   (not of secrets)
  due            \* the <<pod, type>> that have yet to be generated

vars == <<within, world, running, view, due>>

scope == Scopes[within]

TypesOf == [pipy |-> <<"repo">>, envoy |-> XDSResponseOrder]
types == TypesOf[scope.sidecar]
pushTypes == ToSet(types) \ {"SDS"}
isEnvoy == scope.sidecar = "envoy"
Nothing == [pipy |-> [repo |-> EmptyConf], envoy |-> NoResources]

connected(x) == {p \in Sidecars : x.pods[p] \in {"connected", "ready"}}

(* The movers among a scope's pods come and go, the others stay. *)
WorldsOf(sc) ==
  [permissive : IF "permissive" \in sc.toggles THEN BOOLEAN ELSE {FALSE},
   egress : IF "egress" \in sc.toggles THEN BOOLEAN ELSE {FALSE},
   pods : {f \in [Pods -> PodStates] : \A p \in Pods :
             /\ p \notin sc.movers => f[p] = IF p \in sc.pods THEN "ready" ELSE "absent"
             /\ f[p] = "connected" => p \in Sidecars},
   objs : SUBSET sc.objs, order : sc.orders]

(* What a sidecar is to have, as tables, which TLC fills in once. *)
worldsWith(sidecar) ==
  UNION {WorldsOf(Scopes[n]) : n \in {m \in DOMAIN Scopes : Scopes[m].sidecar = sidecar}}

PipyConfs ==
  [x \in worldsWith("pipy") |-> [p \in connected(x) |-> PipyConfOf(x, p)] @@ << >>] @@ << >>

EnvoyResources ==
  [x \in worldsWith("envoy") |-> [p \in connected(x) |-> ResourcesOf(x, p)] @@ << >>] @@ << >>

(* The secrets that an Envoy's clusters have made it ask for. *)
secretsFor(p) == SDSResponse(world, running[p].CDS)

Init ==
  /\ within \in DOMAIN Scopes
  /\ world \in {x \in WorldsOf(scope) : /\ ~x.permissive /\ ~x.egress /\ x.objs = {}
                                        /\ \A p \in scope.movers : x.pods[p] = "absent"}
  /\ running = [p \in Sidecars |-> Nothing[scope.sidecar]]
  /\ view = [p \in Sidecars |-> [t \in pushTypes |-> << >>]]
  /\ due = connected(world) \X ToSet(types)
-----------------------------------------------------------------------------
(* The contents that a sidecar's routes and clusters were made from. *)
ages(p) == {view[p][t] : t \in pushTypes}

caughtUp == \A p \in connected(world) : ages(p) = {<<world>>}
current == caughtUp /\ \A p \in connected(world) : isEnvoy => running[p].SDS = secretsFor(p)

(* A sidecar that goes away takes its configuration with it; one that      *)
(* comes asks for everything.  The first guard is a bound: a change waits  *)
(* until the sidecars have caught up with the changes announced before it. *)
Change(x, announced) ==
  LET pushed == IF announced THEN connected(x) \X pushTypes ELSE {}
      asked == (connected(x) \ connected(world)) \X ToSet(types)
  IN /\ due = {} \/ (caughtUp /\ ~isEnvoy)
     /\ x # world /\ world' = x
     /\ running' = [p \in Sidecars |-> IF p \in connected(x) THEN running[p] ELSE Nothing[scope.sidecar]]
     /\ view' = [p \in Sidecars |-> IF p \in connected(x) THEN view[p]
                                    ELSE [t \in pushTypes |-> << >>]]
     /\ due' = pushed \cup asked \cup {d \in due : d[1] \in connected(x)}
     /\ UNCHANGED within

EditObject(o) ==
  Change([world EXCEPT !.objs = IF o \in @ THEN @ \ {o} ELSE @ \cup {o}], TRUE)

EditMeshConfig ==
  \/ "permissive" \in scope.toggles /\ Change([world EXCEPT !.permissive = ~@], TRUE)
  \/ "egress" \in scope.toggles /\ Change([world EXCEPT !.egress = ~@], TRUE)

PodAdded(p) ==
  world.pods[p] = "absent" /\ Change([world EXCEPT !.pods[p] = "starting"], FALSE)

SidecarConnects(p) ==
  /\ p \in Sidecars /\ world.pods[p] = "starting"
  /\ Change([world EXCEPT !.pods[p] = "connected"], TRUE)

started(p) == IF p \in Sidecars THEN "connected" ELSE "starting"

PodReady(p) ==
  world.pods[p] = started(p) /\ Change([world EXCEPT !.pods[p] = "ready"], TRUE)

PodUnready(p) ==
  world.pods[p] = "ready" /\ Change([world EXCEPT !.pods[p] = started(p)], TRUE)

(* The deletion of a ready pod changes Endpoints, which is announced. *)
PodDeleted(p) ==
  /\ world.pods[p] # "absent"
  /\ Change([world EXCEPT !.pods[p] = "absent"], world.pods[p] # "starting")

give(p, t, resource) ==
  /\ running' = [running EXCEPT ![p][t] = resource]
  /\ view' = IF t = "SDS" THEN view ELSE [view EXCEPT ![p][t] = <<world>>]
  /\ UNCHANGED <<within, world>>

(* mutant: a job that is not ready does not ask for another round *)
GenerateOnce(p) ==
  <<p, "repo">> \in due /\ give(p, "repo", PipyConfs[world][p]) /\ due' = due \ {<<p, "repo">>}

(* PipyConfGeneratorJob.Run; PipyRepo has the publishing in detail. *)
Generate(p) ==
  /\ <<p, "repo">> \in due /\ give(p, "repo", PipyConfs[world][p])
  /\ due' = IF PipyConfReady(world, running'[p].repo) THEN due \ {<<p, "repo">>}
            ELSE connected(world) \X {"repo"}

(* The first type that is due to an Envoy.  With the clusters it learns    *)
(* which secrets it needs; a request for others than it has is answered    *)
(* with all that it names.  ADSStream has the exchange in detail.  Bound:  *)
(* not more than scope.workers are in the middle of their job.             *)
midway == {d[1] : d \in {e \in due : <<e[1], "CDS">> \notin due}}

sendResponse(p, t) ==
  /\ <<p, t>> \in due /\ isEnvoy
  /\ \A i, j \in DOMAIN types : types[j] = t /\ i < j => <<p, types[i]>> \notin due
  /\ t = "CDS" => Cardinality(midway) < scope.workers
  /\ give(p, t, IF t = "SDS" THEN secretsFor(p) ELSE EnvoyResources[world][p][t])
  /\ due' = (due \ {<<p, t>>})
              \cup IF t = "CDS" /\ upstreamServices(running'[p].CDS) # DOMAIN running[p].SDS
                   THEN {<<p, "SDS">>} ELSE {}

(* The certificate of an Envoy's identity is rotated, which pushes all of  *)
(* its secrets.  Bound: only when that brings others than it has.          *)
RotateCertificate(p) ==
  /\ isEnvoy /\ due = {} /\ p \in connected(world) /\ running[p].SDS # secretsFor(p)
  /\ due' = {<<p, "SDS">>}
  /\ UNCHANGED <<within, world, running, view>>

Next ==
  \/ \E o \in scope.objs : EditObject(o)
  \/ EditMeshConfig
  \/ \E p \in scope.movers : \/ PodAdded(p) \/ SidecarConnects(p) \/ PodReady(p)
                             \/ PodUnready(p) \/ PodDeleted(p)
  \/ \E p \in Sidecars : \/ Generate(p) \/ RotateCertificate(p)
                          \/ \E i \in DOMAIN types : sendResponse(p, types[i])

Spec == Init /\ [][Next]_vars
-----------------------------------------------------------------------------
(* What the objects of x say, read directly. *)
grants(x, c, s) ==
  {o \in x.objs : /\ Manifest[o].kind = "TrafficTarget" /\ Manifest[o].dst = identity(s)
                  /\ \E i \in DOMAIN Manifest[o].sources : Manifest[o].sources[i] = identity(c)}

fits(m, call) ==
  /\ m.path = "" \/ call.path \in PathsOf[m.path]
  /\ m.methods = << >> \/ \E i \in DOMAIN m.methods : m.methods[i] = call.method
  /\ m.headers \subseteq call.headers

groups(x, name) ==
  {o \in x.objs : Manifest[o].kind = "HTTPRouteGroup" /\ Manifest[o].name = name}

AllowsCall(x, c, s, call) ==
  \/ x.permissive
  \/ \E o \in grants(x, c, s) : \E r \in DOMAIN Manifest[o].rules :
       LET rule == Manifest[o].rules[r]
       IN \E g \in groups(x, rule.name) : \E i \in DOMAIN Manifest[g].matches :
            /\ \E j \in DOMAIN rule.matches : rule.matches[j] = Manifest[g].matches[i].name
            /\ fits(Manifest[g].matches[i], call)

(* For an Envoy the TCPRoutes of a target limit its ports, and a target    *)
(* whose TCPRoutes do not all exist allows nothing; a Pipy does not look   *)
(* at them.                                                                *)
tcpRoutes(x, rule) ==
  {o \in x.objs : Manifest[o].kind = "TCPRoute" /\ Manifest[o].name = rule.name}

AllowsPort(x, c, s, port) ==
  x.permissive \/ \E o \in grants(x, c, s) :
    LET tcp == {r \in ToSet(Manifest[o].rules) : isEnvoy /\ r.kind = "TCPRoute"}
    IN tcp # {} => /\ \A r \in tcp : tcpRoutes(x, r) # {}
                   /\ \E r \in tcp : \E q \in tcpRoutes(x, r) : port \in Manifest[q].ports

(* The services that a call is to be split between: the backends of the    *)
(* splits that match it, else of the splits that have no matches, else of  *)
(* all splits of its service.                                              *)
splitsOf(x, call) ==
  {o \in x.objs : Manifest[o].kind = "TrafficSplit" /\ Manifest[o].service = <<call.svc>>}

hasMatches(o) == Manifest[o].matches # << >>

matching(x, o, call) ==
  \E i \in DOMAIN Manifest[o].matches : \E g \in groups(x, Manifest[o].matches[i]) :
    \E j \in DOMAIN Manifest[g].matches : fits(Manifest[g].matches[j], call)

backends(x, call) ==
  LET splits == splitsOf(x, call)
      matched == {o \in splits : matching(x, o, call)}
      general == {o \in splits : ~hasMatches(o)}
      chosen == CASE matched # {} -> matched
                  [] matched = {} /\ general # {} -> general
                  [] OTHER -> splits
      weighted(o) == {b \in ToSet(Manifest[o].backends) : b.weight > 0}
  IN IF splits = {} THEN {call.svc} ELSE {b.service : b \in UNION {weighted(o) : o \in chosen}}

selected(x, names) ==
  UNION {Addresses(x, s) : s \in {t \in ToSet(Services) : t.name \in names}}

(* The addresses that an IngressBackend or AccessControl object lets in,   *)
(* none as long as one of its services has no endpoints, and the ports     *)
(* that a request from outside is let in at.                               *)
serviceOf(source) ==
  {t \in ToSet(Services) : source.kind = "Service" /\ t.name = source.name /\ t.ns = source.ns}

letsIn(x, o) ==
  LET sources == ToSet(Manifest[o].sources)
      pods == {Addresses(x, t) : t \in UNION {serviceOf(f) : f \in sources}}
  IN IF {} \in pods THEN {}
     ELSE UNION pods \cup {f.name : f \in {g \in sources : g.kind = "IPRange"}}

named(o) == {f.name : f \in {g \in ToSet(Manifest[o].sources) : g.kind = "AuthenticatedPrincipal"}}

AdmittedAt(x, s, q) ==
  LET kinds == IF isEnvoy THEN {"IngressBackend"} ELSE {"IngressBackend", "AccessControl"}
      objects == {o \in x.objs : /\ Manifest[o].kind \in kinds
                                 /\ q.ip \in letsIn(x, o)}
      backs(o) == {b \in ToSet(Manifest[o].backends) :
                     /\ \E t \in ToSet(Services) : /\ t.ns = Manifest[o].ns /\ t.name = b.name
                                                   /\ s \in t.selects
                     /\ b.tls.on = q.tls
                     /\ b.tls.on => b.tls.skip \/ q.principal \in named(o)}
  IN {b.port : b \in UNION {backs(o) : o \in objects}}

(* The Egress objects for a client's traffic to a port, the ones among     *)
(* them that a request fits, and the gateways for these.                   *)
egressTo(x, c, port, protocol) ==
  {o \in x.objs :
     /\ Manifest[o].kind = "Egress" /\ Contains(Manifest[o].sources, identity(c))
     /\ Contains(Manifest[o].ports, [number |-> port, protocol |-> protocol])
     /\ Manifest[o].setting # "" =>
          \E u \in x.objs : /\ Manifest[u].kind = "UpstreamTrafficSetting"
                            /\ Manifest[u].name = Manifest[o].setting}

allowedExits(x, c, e) ==
  {o \in egressTo(x, c, e.port, "http") :
     /\ Contains(Manifest[o].hosts, e.host)
     /\ Manifest[o].matches = << >> \/ matching(x, o, e)}
    \cup {o \in egressTo(x, c, e.port, "tcp") : e.ip \in Manifest[o].ips}

gatewayEndpoints(x, gateways) ==
  UNION {{<<p, t.ports[1].targetPort>> : p \in Addresses(x, t)} :
           t \in {u \in ToSet(Services) :
                    \E i \in DOMAIN gateways : u.name = gateways[i].service /\ u.ns = gateways[i].ns}}

gatewayObjects(x) == {o \in x.objs : Manifest[o].kind = "EgressGateway"}

globalGateways(x) == UNION {gatewayEndpoints(x, Manifest[o].global) : o \in gatewayObjects(x)}
-----------------------------------------------------------------------------
(* What the sidecars do: a call has the service's address for its          *)
(* destination and the name with the namespace for its Host.               *)
request(call) ==
  [host |-> << <<call.svc>>, call.ns, 0>>, method |-> call.method,
   path |-> call.path, headers |-> call.headers]

exitRequest(e) ==
  [host |-> << <<e.host>>, "", 0>>, method |-> e.method, path |-> e.path, headers |-> e.headers]

peer(c) == [ip |-> c, tls |-> TRUE, principal |-> AsPrincipal(identity(c)), id |-> identity(c)]

(* A peer's connection as an Envoy sees it; the sidecars of the mesh say   *)
(* which service they mean.                                                *)
toEnvoy(q, port, sni) ==
  [ip |-> "", port |-> port, sni |-> sni, transport |-> IF q.tls THEN "tls" ELSE "raw_buffer",
   app |-> CASE sni # << >> -> "osm" [] sni = << >> /\ q.tls -> "" [] OTHER -> "http",
   source |-> q.ip, principal |-> q.principal]

sendsTo(c, ip, port, req) ==
  IF isEnvoy THEN envoyOutbound(running[c], fromApplication(ip, port, "http"), req)
  ELSE outbound(running[c].repo, ip, port, req)

sends(c, call) == {t \in sendsTo(c, call.svc, call.port, request(call)) : t.tls}

(* The application's ports that a request from a peer gets to. *)
admits(s, q, port, sni, req) ==
  IF isEnvoy THEN envoyInbound(running[s], toEnvoy(q, port, sni), req)
  ELSE inboundHTTP(running[s].repo, q, port, req)

sniOf(t) == IF isEnvoy THEN t.sni ELSE << >>

accepts(c, call, t) == call.target \in admits(t.ip, peer(c), t.port, sniOf(t), request(call))

delivered(c, call) == {t.ip : t \in {u \in sends(c, call) : accepts(c, call, u)}}

sendsTCP(c, conn) ==
  IF isEnvoy THEN envoyOutbound(running[c], fromApplication(conn.ip, conn.port, ""), << >>)
  ELSE outboundTCP(running[c].repo, conn.ip, conn.port)

acceptsTCP(c, conn, t) ==
  conn.target \in IF isEnvoy THEN envoyInbound(running[t.ip], toEnvoy(peer(c), t.port, t.sni), << >>)
                  ELSE inboundTCP(running[t.ip].repo, peer(c), t.port)

deliveredTCP(c, conn) == {t.ip : t \in {u \in sendsTCP(c, conn) : u.tls /\ acceptsTCP(c, conn, u)}}

(* A sidecar whose routes and clusters are of one age. *)
uniform(p) == \E x \in ages(p) : x # << >> /\ ages(p) = {x}
contentsOf(p) == (CHOOSE x \in ages(p) : TRUE)[1]
-----------------------------------------------------------------------------
(* Whatever the ages of the other configurations: a sidecar passes a call  *)
(* on to its application only if the policies of its own view allow the    *)
(* caller the call.  Rules are merged by route in MergeRules; for a Pipy   *)
(* they are merged again by match in newHTTPServiceRouteRule, and          *)
(* inbound-http-routing.js finds them by identity and method.  An Envoy    *)
(* has to pass the network filter, of the contents of its listeners, and   *)
(* the filter of the route, of the contents of its routes.                 *)
OnlyAllowedIsDelivered ==
  \A s \in Sidecars, c \in Clients, call \in scope.calls :
    admits(s, peer(c), call.target, << <<call.svc>>, call.ns>>, request(call)) # {} =>
      IF isEnvoy
      THEN AllowsCall(view[s].RDS[1], c, s, call) /\ AllowsPort(view[s].LDS[1], c, s, call.target)
      ELSE AllowsCall(view[s].repo[1], c, s, call) /\ c \in connected(view[s].repo[1])

(* While a change is rolled out, a call that is allowed by the policies    *)
(* before and after it does not fail: if the caller's sidecar sends it to  *)
(* a pod and both sidecars' views allow it and know both pods, it is       *)
(* delivered, although one configuration is older than the other and, in   *)
(* an Envoy, the listeners and routes are not of an age.                   *)
RolloutIsHitless ==
  \A c \in Clients, call \in scope.calls : \A t \in sends(c, call) :
    (/\ \A x \in ages(c) \cup ages(t.ip) :
          x # << >> /\ AllowsCall(x[1], c, t.ip, call) /\ AllowsPort(x[1], c, t.ip, call.target)
     /\ \A x \in ages(t.ip) : c \in connected(x[1]) /\ x[1].pods[t.ip] = "ready")
      => accepts(c, call, t)

(* Once every sidecar has been configured for the stores' contents, a call *)
(* reaches exactly the ready pods of the services it is to be split        *)
(* between that the policies let it reach, and a connection its pod if the *)
(* policies name the pair: the catalog, the generators and the sidecars on *)
(* both sides together implement the objects.  (A split whose route groups *)
(* do not exist is excepted, see outboundRoutes.)                          *)
ReachIsPolicy ==
  current =>
    \A c \in Clients \cap connected(world) :
      /\ \A call \in scope.calls :
           (\A o \in splitsOf(world, call) : \A i \in DOMAIN Manifest[o].matches :
              groups(world, Manifest[o].matches[i]) # {})
           => delivered(c, call) =
                {s \in selected(world, backends(world, call)) :
                   AllowsCall(world, c, s, call) /\ AllowsPort(world, c, s, call.target)}
      /\ \A conn \in scope.conns :
           deliveredTCP(c, conn) =
             {s \in selected(world, {conn.svc}) : s = conn.ip /\ AllowsPort(world, c, s, conn.target)}

(* From outside the mesh a request gets to a sidecar's application at      *)
(* exactly the ports, and with exactly the addresses and certificates,     *)
(* that the IngressBackend and AccessControl objects of its view name (for *)
(* an Envoy, the IngressBackend objects).  A Pipy has the addresses for    *)
(* all ports together in AllowedEndpoints, an Envoy one route              *)
(* configuration for all ports; a port may have rules of the mesh too.     *)
IngressIsPolicy ==
  \A s \in Sidecars : uniform(s) =>
    \A q \in scope.outsiders :
      LET ports == IF isEnvoy THEN {c.port : c \in running[s].LDS.inbound}
                   ELSE DOMAIN running[s].repo.inbound.matches
      IN {port \in ports : admits(s, q.peer, port, << >>, q.req) # {}}
           = AdmittedAt(contentsOf(s), s, q.peer)

(* A request to the outside is sent, in the clear and to its destination,  *)
(* if an Egress object of the sidecar's view fits it; with EnableEgress    *)
(* also if there is no HTTP policy for the client and port.  From a Pipy   *)
(* it goes through a global gateway as long as one has an endpoint; the    *)
(* gateways that an EgressGateway object's rules name for a policy are not *)
(* used, since connect-upstream.js looks for them in the traffic match and *)
(* the generator puts them into the rules.                                 *)
EgressIsPolicy ==
  \A c \in Clients : uniform(c) =>
    \A e \in scope.exits :
      LET x == contentsOf(c)
          free == x.egress /\ egressTo(x, c, e.port, "http") = {}
          sent == sendsTo(c, e.ip, e.port, exitRequest(e))
      IN /\ sent # {} <=> free \/ allowedExits(x, c, e) # {}
         /\ \A t \in sent : /\ t.ip = e.ip /\ t.port = e.port /\ ~t.tls
                            /\ isEnvoy \/ t.via \in IF globalGateways(x) = {} THEN {<< >>} ELSE globalGateways(x)

(* What the announcements of changes tell of the contents. *)
announced(x) ==
  [x EXCEPT !.pods = [p \in Pods |-> IF x.pods[p] = "starting" THEN "absent" ELSE x.pods[p]]]

(* When no round is due, every Envoy has the resources for the contents as *)
(* announced; and, no pod being on its way, every Pipy the configuration   *)
(* for the present contents, with endpoints for every cluster its rules    *)
(* name: changes that are not announced are caught by the retry of jobs    *)
(* that were not ready.                                                    *)
SettledIsCurrent ==
  due = {} => \A p \in connected(world) :
    IF isEnvoy THEN \A x \in ages(p) : x # << >> /\ announced(x[1]) = announced(world)
    ELSE endpointsReady(world) => /\ running[p].repo = PipyConfs[world][p]
                                  /\ PipyConfReady(world, running[p].repo)
=============================================================================
