---------------------------- MODULE MCTestRunner ----------------------------
(***************************************************************************)
(* A small instance of TestRunner for TLC: one type for each class, and    *)
(* one that the table does not have.                                       *)
(***************************************************************************)
EXTENDS TestRunner, TLC

CONSTANTS ImportError, AssertionError, Failed

MCClass == ImportError :> "SYNTAX" @@ AssertionError :> "LOGIC"
=============================================================================
