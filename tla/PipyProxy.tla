----------------------------- MODULE PipyProxy -----------------------------
(***************************************************************************)
(* What a Pipy sidecar does with a connection or a request, as a function  *)
(* of the configuration it runs (pkg/sidecar/providers/pipy/repo/codebase).*)
(* The answers are sets: of the targets that the balancers may choose, and *)
(* empty for a connection or request that is refused.                      *)
(*                                                                         *)
(*   request   [host, method, path, headers]                               *)
(*   target    [ip, port, tls, via]; via is the endpoint of the egress     *)
(*             gateway that the connection is made through, or << >>       *)
(*   peer      [ip, tls, principal, id] of an inbound connection; id is    *)
(*             the identity that a sidecar puts into the request, or << >> *)
(*                                                                         *)
(* Mutual TLS is on.  What happens to a request after its cluster is known *)
(* (retries, circuit breaking) is the matter of PipyOutbound.              *)
(***************************************************************************)
EXTENDS PipyConf

allMethods == {"GET", "HEAD", "POST", "PUT", "DELETE", "PATCH", "OPTIONS"}

ruleMatches(rule, req) ==
  /\ req.path \in PathsOf[rule.match.path]
  /\ req.method \in (IF rule.match.methods = << >> THEN allMethods ELSE ToSet(rule.match.methods))
  /\ rule.match.headers \subseteq req.headers

(* The first rule of a list that matches a request. *)
firstRule(rules, req) ==
  LET i == SelectInSeq(rules, LAMBDA r : ruleMatches(r, req)) IN IF i = 0 THEN {} ELSE {rules[i]}

(* algo.RoundRobinLoadBalancer: any entry with a weight may be next. *)
balanced(clusters) == {c.cluster : c \in {d \in clusters : d.weight > 0}}

hostRules(match, host) ==
  IF host \in DOMAIN match.hosts THEN match.rules[match.hosts[host]] ELSE << >>

isHTTP(protocol) == protocol \in {"http", "grpc"}
-----------------------------------------------------------------------------
(* outbound-main.js: the match for a destination.  A match without ranges  *)
(* takes what no range contains (dst.Protocol is never set, so the test of *)
(* the protocol and of AllowedEgressTraffic does not matter).  The ranges  *)
(* of two matches of a port have nothing in common, so their order does    *)
(* not matter either.                                                      *)
outboundDst(conf, ip, port) ==
  LET destinations == IF port \in DOMAIN conf.outbound.matches
                      THEN conf.outbound.matches[port] ELSE {}
      ranged == {d \in destinations : ip \in d.ips}
  IN IF ranged # {} THEN {[match |-> d, egress |-> FALSE] : d \in ranged}
     ELSE {[match |-> d, egress |-> TRUE] : d \in {e \in destinations : e.ips = {}}}

(* connect-upstream.js: an egress connection goes through a gateway of the *)
(* global ones (the EgressForwardGateway of the match, which would name    *)
(* others, is a field of the rules and not of the match, so it is not      *)
(* there), any other is made with TLS.                                     *)
connect(conf, ip, port, egress) ==
  LET clusters == IF <<"*">> \in DOMAIN conf.forward.matches
                  THEN conf.forward.matches[<<"*">>] ELSE {}
      gateways(c) == IF c \in DOMAIN conf.forward.gateways
                     THEN {<<e.ip, e.port>> : e \in conf.forward.gateways[c]} ELSE {<< >>}
      via == IF egress /\ clusters # {} THEN UNION {gateways(c) : c \in clusters} ELSE {<< >>}
  IN {[ip |-> ip, port |-> port, tls |-> ~egress, via |-> g] : g \in via}

clusterTargets(conf, cluster, egress) ==
  IF cluster \in DOMAIN conf.outbound.clusters
  THEN UNION {connect(conf, e.ip, e.port, egress) : e \in conf.outbound.clusters[cluster]}
  ELSE {}

(* outbound-http-routing.js and the balancer of                            *)
(* outbound-http-load-balancing.js                                         *)
outboundHTTP(conf, ip, port, req) ==
  UNION {UNION {UNION {clusterTargets(conf, c, d.egress) : c \in balanced(r.clusters)} :
                  r \in firstRule(hostRules(d.match, req.host), req)} :
           d \in {e \in outboundDst(conf, ip, port) : isHTTP(e.match.protocol)}}

(* outbound-tcp-routing.js and outbound-tcp-load-balancing.js: without a   *)
(* target the original destination is one, if egress is enabled or the     *)
(* match has AllowedEgressTraffic.                                         *)
outboundTCP(conf, ip, port) ==
  LET dst == outboundDst(conf, ip, port)
      original(allow) == IF conf.egress \/ allow THEN connect(conf, ip, port, TRUE) ELSE {}
      through(d) ==
        LET targets(c) == clusterTargets(conf, c, d.egress)
            clusters == balanced(d.match.tcp)
        IN UNION {IF targets(c) = {} THEN original(d.match.allowEgress) ELSE targets(c) :
                    c \in clusters}
             \cup IF clusters = {} THEN original(d.match.allowEgress) ELSE {}
  IN IF dst = {} THEN original(FALSE)
     ELSE UNION {through(d) : d \in {e \in dst : ~isHTTP(e.match.protocol)}}

(* The match of the destination decides how a request is handled. *)
outbound(conf, ip, port, req) ==
  outboundHTTP(conf, ip, port, req) \cup outboundTCP(conf, ip, port)
-----------------------------------------------------------------------------
(* inbound-tls-termination.js: TLS, unless the address is a source without *)
(* it; the principals of a source are asked for, if there are any.         *)
acceptTLS(match, peer) ==
  IF peer.ip \in DOMAIN match.sources
  THEN LET spec == match.sources[peer.ip]
       IN /\ peer.tls = spec.mtls
          /\ ~spec.mtls \/ spec.skip \/ spec.principals = {} \/ peer.principal \in spec.principals
  ELSE peer.tls

(* inbound-main.js: the match of a port, for an allowed address. *)
inboundPort(conf, peer, port) ==
  IF port \in DOMAIN conf.inbound.matches /\ peer.ip \in conf.allowed
  THEN {m \in {conf.inbound.matches[port]} : acceptTLS(m, peer)}
  ELSE {}

localTargets(conf, cluster) ==
  IF cluster \in DOMAIN conf.inbound.clusters THEN {conf.inbound.clusters[cluster]} ELSE {}

(* inbound-http-routing.js: the rules for the identity, if these have the  *)
(* method, or else the rules for anyone.                                   *)
inboundRules(rules, req, id) ==
  LET for(test(_)) ==
        SelectSeq(rules, LAMBDA r : /\ test(r)
                                    /\ r.match.methods = << >> => req.method \in allMethods
                                    /\ r.match.methods # << >> => Contains(r.match.methods, req.method))
      own == for(LAMBDA r : id \in r.allowed)
  IN IF own # << >> THEN own ELSE for(LAMBDA r : r.allowed = {})

(* The application's ports that a request may arrive at; a source's        *)
(* requests have the rules of the host "*".                                *)
inboundHTTP(conf, peer, port, req) ==
  LET host(m) == IF peer.ip \in DOMAIN m.sources THEN <<"*">> ELSE req.host
  IN UNION {UNION {UNION {localTargets(conf, c) : c \in balanced(r.clusters)} :
                     r \in firstRule(inboundRules(hostRules(m, host(m)), req, peer.id), req)} :
              m \in {n \in inboundPort(conf, peer, port) : isHTTP(n.protocol)}}

inboundTCP(conf, peer, port) ==
  UNION {UNION {localTargets(conf, c) : c \in balanced(m.tcp)} :
           m \in {n \in inboundPort(conf, peer, port) : ~isHTTP(n.protocol)}}
=============================================================================
