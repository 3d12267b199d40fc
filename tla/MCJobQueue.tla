----------------------------- MODULE MCJobQueue -----------------------------
(***************************************************************************)
(* A small instance of JobQueue for TLC: two paths and two workers, so     *)
(* that both workers can want the same path and one can be free for the    *)
(* other, and enough submissions for a rerun of one path while the other   *)
(* is queued.                                                              *)
(***************************************************************************)
EXTENDS JobQueue
=============================================================================
