------------------------------ MODULE MCWatcher ------------------------------
(***************************************************************************)
(* A small instance of Watcher for TLC: two paths, because context.json is *)
(* shared by all; one worker, as FileWatcher has; two cleaners, for two    *)
(* deletions at once.                                                      *)
(***************************************************************************)
EXTENDS Watcher
=============================================================================
