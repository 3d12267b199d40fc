----------------------------- MODULE MCPipeline -----------------------------
(***************************************************************************)
(* A small instance of Pipeline for TLC: two contents, so that the source  *)
(* can change and change back, and two attempts, so that a heal can follow *)
(* a heal.                                                                 *)
(***************************************************************************)
EXTENDS Pipeline
=============================================================================
