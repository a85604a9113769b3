----------------------------- MODULE MCPipeline -----------------------------
(***************************************************************************)
(* Instances of Pipeline for TLC; the constants are in the .cfg files.     *)
(***************************************************************************)
EXTENDS Pipeline
=============================================================================
