----------------------------- MODULE EnvoyProxy -----------------------------
(***************************************************************************)
(* What an Envoy does with a connection or a request, as a function of the *)
(* resources it has: Envoy's documented behaviour for the features that    *)
(* the resources of EnvoyConf use.  The answers are sets: of the targets   *)
(* that may be chosen, and empty for what is refused.                      *)
(*                                                                         *)
(*   connection   [ip, port, sni, transport, app, source, principal]: the  *)
(*                destination, what the listener filters find out ("tls"   *)
(*                or "raw_buffer"; "osm", "http" or ""), the peer and the  *)
(*                name in its certificate                                  *)
(*   target       [ip, port, tls, via, sni]                                *)
(*                                                                         *)
(* A resource is in use as soon as it has arrived; that Envoy keeps an old *)
(* listener or cluster until a new one is warm is left out.                *)
(***************************************************************************)
EXTENDS EnvoyConf

(* A criterion of the match: the chains that name the value, or else those *)
(* that do not ask for it.  What a criterion has excluded does not come    *)
(* back when a later one fails.                                            *)
narrow(chains, criterion, value) ==
  LET named == {c \in chains : value \in c[criterion]}
  IN IF named # {} THEN named ELSE {c \in chains : c[criterion] = {}}

filterChain(chains, conn) ==
  LET port == {c \in chains : c.port = conn.port}
      ip == narrow(port, "ips", conn.ip)
      name == narrow(ip, "servers", conn.sni)
      transport == narrow(name, "transport", conn.transport)
      app == narrow(transport, "apps", conn.app)
  IN narrow(app, "sources", conn.source)

rbacAllows(rbac, conn) ==
  rbac # << >> => \E policy \in rbac[1] :
    /\ policy.principals = {} \/ conn.principal \in policy.principals
    /\ policy.ports = {} \/ conn.port \in policy.ports

weightedClusters(clusters) == {c.cluster : c \in {d \in clusters : d.weight > 0}}

routeMatches(match, req) ==
  /\ req.path \in PathsOf[match.path]
  /\ Contains(match.methods, WildcardHTTPMethod) \/ Contains(match.methods, req.method)
  /\ match.headers \subseteq req.headers

(* The first route that matches, in the virtual host of the request's host *)
(* or in the one for any host; whether it may be used comes after.         *)
routeFor(rds, config, req) ==
  LET hosts == IF config \in DOMAIN rds THEN rds[config] ELSE << >>
      own == SelectInSeq(hosts, LAMBDA v : req.host \in v.hosts)
      i == IF own # 0 THEN own ELSE SelectInSeq(hosts, LAMBDA v : <<"*">> \in v.hosts)
      routes == IF i = 0 THEN << >> ELSE hosts[i].routes
      j == SelectInSeq(routes, LAMBDA r : routeMatches(r.match, req))
  IN IF j = 0 THEN {} ELSE {routes[j]}
-----------------------------------------------------------------------------
(* TLS to an upstream service is made with an endpoint whose certificate   *)
(* has one of the names of the service's secret.                           *)
trusts(conf, svc, ip) ==
  svc \in DOMAIN conf.SDS /\ (conf.SDS[svc] = {} \/ AsPrincipal(identity(ip)) \in conf.SDS[svc])

throughCluster(conf, name, conn) ==
  LET c == conf.CDS[name]
      target(ip, port, tls) == [ip |-> ip, port |-> port, tls |-> tls, via |-> << >>, sni |-> c.service]
      endpoints == IF name \in DOMAIN conf.EDS THEN conf.EDS[name] ELSE {}
  IN CASE name \notin DOMAIN conf.CDS -> {}
       [] name \in DOMAIN conf.CDS /\ c.type = "eds" ->
            {target(e.ip, e.port, TRUE) : e \in {f \in endpoints : trusts(conf, c.service, f.ip)}}
       [] name \in DOMAIN conf.CDS /\ c.type = "dns" -> {target(c.host, c.port, FALSE)}
       [] OTHER -> {target(conn.ip, conn.port, FALSE)}

fromApplication(ip, port, app) ==
  [ip |-> ip, port |-> port, sni |-> << >>, transport |-> "raw_buffer", app |-> app,
   source |-> "", principal |-> << >>]

clustersOf(conf, chain, req) ==
  IF chain.config = << >> THEN weightedClusters(chain.clusters)
  ELSE UNION {weightedClusters(r.clusters) : r \in routeFor(conf.RDS, chain.config, req)}

(* Without a chain for it a connection goes to its destination, if the     *)
(* listener has the default chain.                                         *)
envoyOutbound(conf, conn, req) ==
  LET chains == filterChain(conf.LDS.outbound.chains, conn)
      names == IF chains # {} THEN UNION {clustersOf(conf, c, req) : c \in chains}
               ELSE IF conf.LDS.outbound.passthrough THEN {OutboundPassthroughCluster} ELSE {}
  IN UNION {throughCluster(conf, n, conn) : n \in names}

(* The ports of the application that a connection or request gets to. *)
envoyInbound(conf, conn, req) ==
  LET tlsFits(c) == CASE c.tls = "none" -> conn.transport = "raw_buffer"
                      [] c.tls = "tls" -> conn.transport = "tls"
                      [] OTHER -> conn.transport = "tls" /\ conn.principal # << >>
      chains == {c \in filterChain(conf.LDS.inbound, conn) : tlsFits(c) /\ rbacAllows(c.rbac, conn)}
      routes(c) == {r \in routeFor(conf.RDS, c.config, req) : rbacAllows(r.rbac, conn)}
      names(c) == IF c.config = << >> THEN weightedClusters(c.clusters)
                  ELSE UNION {weightedClusters(r.clusters) : r \in routes(c)}
  IN {conf.CDS[n].port : n \in UNION {names(c) : c \in chains} \cap DOMAIN conf.CDS}
=============================================================================
