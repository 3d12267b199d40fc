------------------------------ MODULE MCStores ------------------------------
(***************************************************************************)
(* A small instance of Stores for TLC: a daemon with two threads, as a     *)
(* cancelled run leaves one behind, and a command with one.                *)
(***************************************************************************)
EXTENDS Stores, TLC

CONSTANTS daemon, command, d1, d2, c1

MCHome == d1 :> daemon @@ d2 :> daemon @@ c1 :> command
Symmetry == Permutations({d1, d2}) \union Permutations(Codes)
=============================================================================
