-------------------------- MODULE ProxyUpdateEvent --------------------------
(***************************************************************************)
(* Which messages of the control plane make the proxies recompute their    *)
(* configuration: getProxyUpdateEvent of pkg/messaging/broker.go.          *)
(*                                                                         *)
(* A message is a record [id, kind, old, new].  A kind is a pair           *)
(* <<resource, verb>>; old and new are the observed objects, abstracted to *)
(* the fields the function reads:                                          *)
(*   a MeshConfig is [fields, extAuth] with fields a function on           *)
(*   ProxyConfigFields and extAuth a record [enable, rest];                *)
(*   a Pod is [scrape, uuid], uuid = NoUUID when the label is absent.      *)
(***************************************************************************)

(* The value read from an absent sidecar-unique-id label (a Go empty string). *)
NoUUID == ""

(* The resources all of whose events are broadcast to every proxy. *)
BroadcastResources ==
  { "Endpoint", "Ingress", "IngressClass", "Egress", "EgressGateway",
    "IngressBackend", "AccessControl", "RetryPolicy", "UpstreamTrafficSetting",
    "RouteGroup", "TCPRoute", "TrafficSplit", "TrafficTarget",
    "ServiceImport", "ServiceExport", "GlobalTrafficPolicy",
    "Plugin", "PluginChain", "PluginConfig" }

BroadcastKinds ==
  (BroadcastResources \X {"Added", "Deleted", "Updated"}) \cup {<<"Proxy", "Update">>}

(* The MeshConfig fields compared one by one; external authorization apart. *)
ProxyConfigFields ==
  { "EnableEgress", "EnablePermissiveTrafficPolicyMode",
    "HTTP1PerRequestLoadBalancing", "HTTP2PerRequestLoadBalancing",
    "Tracing", "RemoteLogging", "LogLevel", "SidecarTimeout",
    "FeatureFlags", "PluginChains", "ClusterSet" }

ProxyConfigChanged(prev, new) ==
  \/ \E f \in ProxyConfigFields : prev.fields[f] # new.fields[f]
  \/ prev.extAuth.enable # new.extAuth.enable
  \/ new.extAuth.enable /\ prev.extAuth # new.extAuth

(* The pub-sub topics: one shared by all proxies, one for each proxy. *)
BroadcastTopic == <<"proxy-update">>
GetPubSubTopicForProxyUUID(uuid) == <<"proxy", uuid>>

(* No proxy update results from the message. *)
NoTopic == <<>>

(* The topic of the proxy update the message results in. *)
GetProxyUpdateTopic(msg) ==
  CASE msg.kind \in BroadcastKinds -> BroadcastTopic
    [] msg.kind = <<"MeshConfig", "Updated">> ->
         IF ProxyConfigChanged(msg.old, msg.new) THEN BroadcastTopic ELSE NoTopic
    [] msg.kind = <<"Pod", "Updated">> ->
         IF msg.old.scrape # msg.new.scrape
         THEN GetPubSubTopicForProxyUUID(msg.new.uuid)
         ELSE IF msg.new.uuid # NoUUID THEN BroadcastTopic ELSE NoTopic
    [] OTHER -> NoTopic
=============================================================================
