---------------------------- MODULE MCPipySession ----------------------------
(* Small instances of PipySession. *)
EXTENDS PipySession
=============================================================================
