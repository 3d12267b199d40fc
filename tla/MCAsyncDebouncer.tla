-------------------------- MODULE MCAsyncDebouncer --------------------------
(***************************************************************************)
(* A small instance of AsyncDebouncer for TLC: two paths, so that a loop   *)
(* that cleans up too much hits the other, and three submissions, so that  *)
(* one can come before, during and after a sleep or a cancel() of the same *)
(* path.                                                                   *)
(***************************************************************************)
EXTENDS AsyncDebouncer
=============================================================================
