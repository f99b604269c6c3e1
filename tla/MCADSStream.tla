---------------------------- MODULE MCADSStream ----------------------------
(* Listeners and routes, of which the proxy may reject one; clusters with  *)
(* secrets, which only rotations push; and these without a reconnection,   *)
(* which would forget that a resource could not be made.                   *)
EXTENDS ADSStream

MCScopes == {[types |-> {"LDS", "RDS"}, nacks |-> 1, reconnects |-> 1, failures |-> 0],
             [types |-> {"CDS", "SDS"}, nacks |-> 0, reconnects |-> 1, failures |-> 0],
             [types |-> {"CDS", "SDS"}, nacks |-> 0, reconnects |-> 0, failures |-> 1]}
=============================================================================
