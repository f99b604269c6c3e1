----------------------------- MODULE MCPipyRepo -----------------------------
(* Small instances of PipyRepo. *)
EXTENDS PipyRepo
=============================================================================
