---------------------------- MODULE MCDaemonLock ----------------------------
(***************************************************************************)
(* Small instances of DaemonLock for TLC.                                  *)
(***************************************************************************)
EXTENDS DaemonLock, TLC

Symmetry == Permutations(Daemons) \union Permutations(Clients) \union Permutations(Files)
=============================================================================
