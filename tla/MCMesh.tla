------------------------------- MODULE MCMesh -------------------------------
(* Two clients in one namespace, two servers in another.  Service s selects *)
(* both servers, s1 and s2 one each; t is headless and speaks TCP; u has    *)
(* the same port inside and outside.  The pod gw, without a sidecar, is the *)
(* ingress controller in one scope and the egress gateway in another.       *)
EXTENDS Mesh

MCPods == {"c", "d", "v1", "v2", "gw"}
MCPodInfo ==
  [p \in MCPods |->
     [ns |-> CASE p \in {"c", "d"} -> "m" [] p \in {"v1", "v2"} -> "n" [] OTHER -> "i",
      sa |-> p, hostname |-> p, sidecar |-> p # "gw"]]
MCNamespaces == {"m", "n", "i"}

webPorts == <<[name |-> << >>, appProtocol |-> "http", port |-> 80, targetPort |-> 8080]>>
tcpPorts == <<[name |-> <<"tcp", "t">>, appProtocol |-> "", port |-> 90, targetPort |-> 9090]>>
sharedPorts == <<[name |-> << >>, appProtocol |-> "http", port |-> 70, targetPort |-> 70]>>
proxyPorts == <<[name |-> << >>, appProtocol |-> "", port |-> 1080, targetPort |-> 1080]>>
service(name, ports, selects, headless) ==
  [ns |-> IF name = "gateway" THEN "i" ELSE "n", name |-> name, ports |-> ports, selects |-> selects, headless |-> headless]
MCServices ==
  <<service("s", webPorts, {"v1", "v2"}, FALSE), service("s1", webPorts, {"v1"}, FALSE),
    service("s2", webPorts, {"v2"}, FALSE), service("t", tcpPorts, {"v2"}, TRUE),
    service("u", sharedPorts, {"v1"}, FALSE), service("gateway", proxyPorts, {"gw"}, FALSE)>>

target(name, dst, sources, matches) ==
  [kind |-> "TrafficTarget", ns |-> "n", name |-> name, dst |-> <<dst, "n">>, sources |-> sources,
   rules |-> <<[kind |-> "HTTPRouteGroup", name |-> "g", matches |-> matches]>>]
split(name, backends_, matches) ==
  [kind |-> "TrafficSplit", ns |-> "n", name |-> name, service |-> <<"s">>,
   backends |-> backends_, matches |-> matches]
group(matches) == [kind |-> "HTTPRouteGroup", ns |-> "n", name |-> "g", matches |-> matches]
C == <<"c", "m">>
D == <<"d", "m">>
backend(name, port, protocol, tls) ==
  <<[name |-> name, port |-> port, protocol |-> protocol, tls |-> [on |-> tls, skip |-> FALSE]]>>
ingress(kind, name, backends_, sources) ==
  [kind |-> kind, ns |-> "n", name |-> name, backends |-> backends_, sources |-> sources]
fromGateway == [kind |-> "Service", name |-> "gateway", ns |-> "i"]
egressFor(name, hosts, ips, port, protocol, matches, setting) ==
  [kind |-> "Egress", ns |-> "n", name |-> name, sources |-> <<C>>, hosts |-> hosts, ips |-> ips,
   ports |-> <<[number |-> port, protocol |-> protocol]>>, matches |-> matches, setting |-> setting]
theGateway == <<[service |-> "gateway", ns |-> "i"]>>
vip == {<<"user", "vip">>}

MCManifest ==
  <<target("t1", "v1", <<C>>, <<"get">>),
    target("t2", "v2", <<C, D>>, <<"get", "vip">>),
    group(<<[name |-> "get", path |-> "/api", methods |-> <<"GET">>, headers |-> {}],
            [name |-> "vip", path |-> "/api", methods |-> << >>, headers |-> vip]>>),
    split("a", <<[service |-> "s1", weight |-> 75], [service |-> "s2", weight |-> 25]>>, << >>),
    split("b", <<[service |-> "s2", weight |-> 50]>>, <<"g">>),
    ingress("IngressBackend", "i1", backend("s", 8080, "http", FALSE), <<fromGateway>>),
    ingress("AccessControl", "a1", backend("s1", 8080, "http", FALSE),
            <<[kind |-> "IPRange", name |-> "ext", ns |-> ""]>>),
    ingress("IngressBackend", "i2", backend("u", 70, "https", TRUE),
            <<fromGateway, [kind |-> "AuthenticatedPrincipal", name |-> <<"gw", "i", "td">>, ns |-> ""]>>),
    egressFor("e1", <<"ext">>, {}, 80, "http", <<"g">>, ""),
    egressFor("e2", << >>, {"db"}, 5432, "tcp", << >>, "x"),
    [kind |-> "UpstreamTrafficSetting", ns |-> "n", name |-> "x"],
    [kind |-> "EgressGateway", ns |-> "i", name |-> "eg", global |-> theGateway, rules |-> << >>],
    [kind |-> "EgressGateway", ns |-> "i", name |-> "er", global |-> << >>,
     rules |-> <<[policies |-> {<<"e1", "n">>}, gateways |-> theGateway]>>],
    target("t3", "v1", <<D>>, <<"get", "vip">>),
    [kind |-> "TCPRoute", ns |-> "n", name |-> "p", ports |-> {9090}],
    [target("t4", "v2", <<C>>, << >>) EXCEPT
       !.rules = <<[kind |-> "TCPRoute", name |-> "p", matches |-> << >>]>>],
    ingress("IngressBackend", "i3", backend("s2", 8080, "http", FALSE), <<fromGateway>>)>>

MCPathOrder == <<".*", "/api">>
MCPathsOf == [p \in {".*", "/api"} |-> IF p = ".*" THEN {"/api", "/x"} ELSE {"/api"}]

requests ==
  {<<"GET", "/api", {}>>, <<"POST", "/api", {}>>, <<"POST", "/api", vip>>, <<"GET", "/x", {}>>}
MCCalls ==
  {[svc |-> n, ns |-> "n", port |-> 80, target |-> 8080, method |-> m, path |-> p, headers |-> h] :
     n \in {"s", "s1", "s2"}, <<m, p, h>> \in requests}
sharedCalls ==
  {[svc |-> "u", ns |-> "n", port |-> 70, target |-> 70, method |-> r[1], path |-> r[2], headers |-> r[3]] :
     r \in requests}
MCConns == {[svc |-> "t", ip |-> p, port |-> 90, target |-> 9090] : p \in {"v1", "v2"}}
MCOutsiders ==
  {[peer |-> [ip |-> a, tls |-> p # << >>, principal |-> p, id |-> << >>],
    req |-> [host |-> << <<"s">>, "n", 0>>, method |-> "GET", path |-> "/api", headers |-> {}]] :
     a \in {"gw", "ext"}, p \in {<< >>, <<"gw", "i", "td">>, <<"c", "m", "td">>}}
MCExits ==
  {[host |-> h, ip |-> h, port |-> 80, method |-> r[1], path |-> r[2], headers |-> r[3]] :
     h \in {"ext", "db"}, r \in requests}
  \cup {[host |-> h, ip |-> h, port |-> 5432, method |-> "GET", path |-> "/x", headers |-> {}] :
          h \in {"ext", "db"}}

pipy == [sidecar |-> "pipy", workers |-> 0, orders |-> Orders, calls |-> {}, conns |-> {}, outsiders |-> {},
         exits |-> {}, toggles |-> {}, movers |-> {}]
Routes ==
  [objs |-> 1 .. 5, pods |-> {"c", "d", "v1", "v2"}, movers |-> {"v2"}, calls |-> MCCalls,
   conns |-> MCConns] @@ pipy
Merges ==
  [Routes EXCEPT !.objs = {1, 3, 4, 14}, !.movers = {}, !.conns = {}, !.toggles = {"permissive"}]
Ingress ==
  [objs |-> {1, 3, 6, 7, 8}, pods |-> {"c", "v1", "gw"}, movers |-> {"gw"},
   calls |-> {c \in MCCalls : c.svc = "s1"} \cup sharedCalls, outsiders |-> MCOutsiders] @@ pipy
Egress ==
  [objs |-> {3, 9, 10, 11, 12, 13}, pods |-> {"c", "d", "gw"}, movers |-> {"gw"},
   toggles |-> {"egress"}, exits |-> MCExits, orders |-> {"up"}] @@ pipy

envoy == [pipy EXCEPT !.sidecar = "envoy", !.workers = 1, !.orders = {"up"}]
EnvoyRoutes ==
  [objs |-> {1, 2, 3}, pods |-> {"c", "v1", "v2"}, movers |-> {"v2"}, calls |-> MCCalls,
   conns |-> MCConns] @@ envoy
EnvoySplits ==
  [EnvoyRoutes EXCEPT !.objs = {1, 2, 3, 4}, !.movers = {}, !.conns = {}, !.toggles = {"permissive"},
                      !.calls = {c \in MCCalls : c.svc # "s1"}]
EnvoyTCP ==
  [EnvoyRoutes EXCEPT !.objs = {2, 3, 15, 16}, !.pods = {"c", "v2"}, !.movers = {}, !.workers = 2]
EnvoyIngress ==
  [objs |-> {1, 3, 8, 17}, pods |-> {"v1", "v2", "gw"}, movers |-> {"gw"}, outsiders |-> MCOutsiders]
    @@ envoy
EnvoyEgress ==
  [objs |-> {3, 9, 10, 11}, pods |-> {"c", "d"}, toggles |-> {"egress"}, exits |-> MCExits] @@ envoy
MCScopes ==
  [routes |-> Routes, merges |-> Merges, ingress |-> Ingress, egress |-> Egress,
   envoyRoutes |-> EnvoyRoutes, envoySplits |-> EnvoySplits, envoyTCP |-> EnvoyTCP,
   envoyIngress |-> EnvoyIngress, envoyEgress |-> EnvoyEgress]
=============================================================================
