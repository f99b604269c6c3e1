------------------------------ MODULE MCBroker ------------------------------
(* A small instance of Broker: one broadcast, one message for a single     *)
(* proxy, and messages that concern no proxy.                              *)
EXTENDS Broker, FiniteSets

Nil == [nil |-> TRUE]

Msg(id, kind, old, new) == [id |-> id, kind |-> kind, old |-> old, new |-> new]

Config(field, value, enable, rest) ==
  [fields |-> [f \in ProxyConfigFields |-> IF f = field THEN value ELSE 0],
   extAuth |-> [enable |-> enable, rest |-> rest]]

Pod(scrape, uuid) == [scrape |-> scrape, uuid |-> uuid]

Endpoint == Msg(1, <<"Endpoint", "Updated">>, Nil, Nil)
Resync   == Msg(2, <<"Proxy", "Update">>, Nil, Nil)
Metrics  == Msg(3, <<"Pod", "Updated">>, Pod(FALSE, "u1"), Pod(TRUE, "u1"))
NsAdded  == Msg(4, <<"Namespace", "Added">>, Nil, Nil)
NsGone   == Msg(5, <<"Namespace", "Deleted">>, Nil, Nil)
Egress   == Msg(6, <<"MeshConfig", "Updated">>,
                Config("EnableEgress", 0, FALSE, 0), Config("EnableEgress", 1, FALSE, 0))
AuthOff  == Msg(7, <<"MeshConfig", "Updated">>,
                Config("EnableEgress", 0, FALSE, 0), Config("EnableEgress", 0, FALSE, 1))
Unlabelled == Msg(8, <<"Pod", "Updated">>, Pod(FALSE, NoUUID), Pod(FALSE, NoUUID))

MCMessages == {Endpoint, Resync, Metrics, NsAdded, NsGone, Egress, AuthOff, Unlabelled}
=============================================================================
