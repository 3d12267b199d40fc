----------------------------- MODULE PathGuard -----------------------------
(***************************************************************************)
(* What the job queue promises, without timers, queues or locks: a change  *)
(* of a path stays pending until a worker begins a run of that path, no    *)
(* two workers ever run the same path at once, and once the service has    *)
(* closed no run begins any more.  JobQueue.tla is shown to implement this *)
(* specification.                                                          *)
(***************************************************************************)

CONSTANTS Paths,    \* the source files being watched
          Workers   \* the worker tasks

VARIABLES pending,  \* paths with a change that no run has begun to cover
          busy,     \* busy[p]: the workers that are running path p
          closed    \* stop() has taken effect

vars == <<pending, busy, closed>>

Init == /\ pending = {}
        /\ busy = [p \in Paths |-> {}]
        /\ closed = FALSE

(* A change of p is reported. *)
Change(p) == /\ ~closed
             /\ pending' = pending \union {p}
             /\ UNCHANGED <<busy, closed>>

Resting(w) == \A p \in Paths : w \notin busy[p]

(* A begun run covers the pending change of its path, unless another       *)
(* change of the same path is already on its way.                          *)
Cover(p) == /\ p \in pending
            /\ pending' \in {pending, pending \ {p}}

(* A resting worker begins a run of p: only a pending path, only one that  *)
(* nobody is running.                                                      *)
Begin(w, p) == /\ ~closed
               /\ Resting(w)
               /\ busy[p] = {}
               /\ Cover(p)
               /\ busy' = [busy EXCEPT ![p] = {w}]
               /\ UNCHANGED closed

(* A worker ends its run of p. *)
End(w, p) == /\ busy[p] = {w}
             /\ busy' = [busy EXCEPT ![p] = {}]
             /\ pending' = pending
             /\ UNCHANGED closed

(* A worker ends its run of p and begins one of q without pausing. *)
EndBegin(w, p, q) ==
    LET freed == [busy EXCEPT ![p] = {}]
    IN  /\ ~closed
        /\ busy[p] = {w}
        /\ freed[q] = {}
        /\ Cover(q)
        /\ busy' = [freed EXCEPT ![q] = {w}]
        /\ UNCHANGED closed

(* The service closes; it may forget what was pending. *)
Close == /\ closed' = TRUE
         /\ pending' \subseteq pending
         /\ UNCHANGED busy

(* Closed, it only forgets and lets go of interrupted runs. *)
Wind(w, p) == /\ closed
              /\ busy[p] = {w}
              /\ busy' = [busy EXCEPT ![p] = {}]
              /\ pending' \subseteq pending
              /\ UNCHANGED closed

Next == \/ \E p \in Paths : Change(p)
        \/ \E w \in Workers, p \in Paths : Begin(w, p) \/ End(w, p) \/ Wind(w, p)
        \/ \E w \in Workers, p, q \in Paths : EndBegin(w, p, q)
        \/ Close

Spec == Init /\ [][Next]_vars
=============================================================================
