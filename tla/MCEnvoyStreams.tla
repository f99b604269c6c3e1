--------------------------- MODULE MCEnvoyStreams ---------------------------
(* Two Envoys, one of which may connect twice; and two Envoys with their   *)
(* jobs, where a channel has room for one message fewer than there are     *)
(* rotations, so that it can be full.                                      *)
EXTENDS EnvoyStreams

MCEnvoyOf == [s \in Streams |-> CASE s = "b" -> "B" [] s = "m" -> "M" [] OTHER -> "A"]
Reconnects ==
  [streams |-> {"a1", "a2", "b", "m"}, breaks |-> {"a1", "a2", "b"}, limits |-> {1, 2}, events |-> 0,
   rotations |-> 0]
Jobs ==
  [streams |-> {"a1", "b"}, breaks |-> {"a1"}, limits |-> {0}, events |-> 3, rotations |-> 2]
MCScopes == {Reconnects, Jobs}
=============================================================================
