--------------------------- MODULE MCProviderCalls ---------------------------
(***************************************************************************)
(* A small instance of ProviderCalls for TLC.  An interval of two units and*)
(* delays of one and two let a retry fall between, on and after slots.     *)
(***************************************************************************)
EXTENDS ProviderCalls
=============================================================================
