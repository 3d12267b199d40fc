------------------------ MODULE AsyncDebouncerProofs ------------------------
(***************************************************************************)
(* Proofs about AsyncDebouncer, for any paths, tasks, delay and clock.     *)
(*                                                                         *)
(* A registered task works for the path that it is registered for; so no   *)
(* two paths share one, and what a task does on its way out concerns one   *)
(* path.  A deadline is a delay after the last submission, which is what   *)
(* keeps a task that sleeps from sleeping past it.                         *)
(***************************************************************************)
EXTENDS AsyncDebouncer, TLAPS

(* Each deadline is owed, and a delay after the last submission.           *)
DeadlinesAreOwed == \A p \in Paths : deadline[p] # NoDeadline =>
                                        p \in owes /\ deadline[p] = last[p] + Delay

(* Times are past or within reach, and a path fires once for a submission. *)
Bounded == \A p \in Paths : /\ last[p] <= now
                            /\ fires[p] <= submits /\ (p \in owes => fires[p] < submits)

(* The handlers still to run are of paths that are settled or orphaned.    *)
HandlersAreHarmless == \A t \in Tasks : pc[t] = "cancelled" /\ path[t] \in owes =>
                                           path[t] \in orphaned

IInv == /\ TypeOK /\ EntriesAgree /\ NoLostSubmission
        /\ DeadlinesAreOwed /\ Bounded /\ HandlersAreHarmless

-----------------------------------------------------------------------------
LEMMA Bounds == Delay \in Nat /\ MaxTime \in Nat /\ MaxSubmits \in Nat
  BY BoundsAssumption

LEMMA InitInv == Init => IInv
  <1> SUFFICES ASSUME Init PROVE IInv
    OBVIOUS
  <1> USE Bounds DEF Init
  <1>1. TypeOK
    BY DEF TypeOK, NoDeadline
  <1>2. EntriesAgree
    BY DEF EntriesAgree
  <1>3. NoLostSubmission /\ DeadlinesAreOwed /\ HandlersAreHarmless
    BY DEF NoLostSubmission, DeadlinesAreOwed, HandlersAreHarmless
  <1>4. Bounded
    BY DEF Bounded
  <1> QED
    BY <1>1, <1>2, <1>3, <1>4 DEF IInv

(* Two paths have no task in common.                                       *)
LEMMA OwnTasks == ASSUME EntriesAgree, NEW p \in Paths, NEW q \in Paths, p # q, task[p] # NoTask
                  PROVE  task[q] # task[p]
  BY DEF EntriesAgree

LEMMA TickInv == ASSUME IInv, Tick PROVE IInv'
  <1> USE Bounds DEF IInv
  <1>1. now < MaxTime /\ now' = now + 1 /\ now \in 0 .. MaxTime
        /\ UNCHANGED <<dicts, tasks, fires, history>>
    BY DEF Tick, TypeOK
  <1>2. TypeOK'
    BY <1>1 DEF TypeOK, dicts, tasks, history
  <1>3. EntriesAgree'
    BY <1>1 DEF EntriesAgree, dicts, tasks
  <1>4. NoLostSubmission' /\ DeadlinesAreOwed' /\ HandlersAreHarmless'
    BY <1>1 DEF NoLostSubmission, DeadlinesAreOwed, HandlersAreHarmless, dicts, tasks, history
  <1>5. Bounded'
    BY <1>1 DEF Bounded, TypeOK, history
  <1> QED
    BY <1>2, <1>3, <1>4, <1>5

-----------------------------------------------------------------------------
(* submit(). *)

LEMMA SubmitInv == ASSUME IInv, NEW p \in Paths, Submit(p) PROVE IInv'
  <1> USE Bounds DEF IInv
  <1>1. /\ submits < MaxSubmits /\ now + Delay <= MaxTime
        /\ deadline' = [deadline EXCEPT ![p] = now + Delay]
        /\ idle' = FALSE
        /\ submits' = submits + 1
        /\ owes' = owes \union {p}
        /\ last' = [last EXCEPT ![p] = now]
        /\ orphaned' = orphaned
             \union ({p} \intersect {path[t] : t \in {u \in Tasks : pc[u] = "cancelled"}})
        /\ UNCHANGED <<now, fires, wake>>
    BY DEF Submit, tasks
  <1>2. \/ Alive(p) /\ UNCHANGED <<task, path, pc>>
        \/ /\ ~Alive(p)
           /\ \E t \in Tasks : /\ pc[t] = "unborn"
                               /\ task' = [task EXCEPT ![p] = t]
                               /\ path' = [path EXCEPT ![t] = p]
                               /\ pc' = [pc EXCEPT ![t] = "ready"]
    BY DEF Submit, tasks
  <1>3. now \in 0 .. MaxTime /\ submits \in 0 .. MaxSubmits
    BY DEF TypeOK
  <1>4. TypeOK'
    <2>1. /\ task' \in [Paths -> Tasks \union {NoTask}]
          /\ path' \in [Tasks -> Paths]
          /\ pc' \in [Tasks -> {"unborn", "ready", "asleep", "cancelled", "done"}]
      BY <1>2 DEF TypeOK
    <2>2. now + Delay \in 0 .. MaxTime /\ submits + 1 \in 0 .. MaxSubmits
      BY <1>1, <1>3
    <2>3. owes' \subseteq Paths /\ orphaned' \subseteq Paths
      BY <1>1 DEF TypeOK
    <2>4. /\ deadline' \in [Paths -> {NoDeadline} \union 0 .. MaxTime]
          /\ last' \in [Paths -> 0 .. MaxTime]
      BY <1>1, <1>3, <2>2 DEF TypeOK
    <2> QED
      BY <1>1, <2>1, <2>2, <2>3, <2>4 DEF TypeOK
  <1>5. \A q \in Paths : q # p => deadline'[q] = deadline[q] /\ last'[q] = last[q]
    BY <1>1 DEF TypeOK
  <1>6. deadline'[p] = now + Delay /\ last'[p] = now /\ deadline'[p] # NoDeadline
    BY <1>1, <1>3 DEF TypeOK, NoDeadline
  <1>7. EntriesAgree'
    <2>1. CASE Alive(p) /\ UNCHANGED <<task, path, pc>>
      <3>1. task[p] # NoTask
        BY <2>1 DEF Alive
      <3>2. deadline[p] # NoDeadline /\ deadline[p] <= deadline'[p]
        BY <1>3, <1>6, <3>1 DEF EntriesAgree, DeadlinesAreOwed, Bounded, TypeOK
      <3>3. wake[task[p]] \in 0 .. MaxTime /\ deadline[p] \in 0 .. MaxTime
        BY <3>1, <3>2 DEF TypeOK
      <3>4. ASSUME pc[task[p]] = "asleep" PROVE wake[task[p]] <= deadline'[p]
        BY <1>3, <1>6, <3>1, <3>2, <3>3, <3>4 DEF EntriesAgree
      <3>5. /\ path'[task'[p]] = p
            /\ \/ pc'[task'[p]] = "ready"
               \/ pc'[task'[p]] = "asleep" /\ wake'[task'[p]] <= deadline'[p]
        BY <1>1, <2>1, <3>1, <3>4 DEF EntriesAgree
      <3> QED
        BY <1>1, <1>5, <1>6, <2>1, <3>1, <3>5 DEF EntriesAgree
    <2>2. ASSUME NEW t \in Tasks, pc[t] = "unborn", task' = [task EXCEPT ![p] = t],
                 path' = [path EXCEPT ![t] = p], pc' = [pc EXCEPT ![t] = "ready"]
          PROVE  EntriesAgree'
      <3>1. task'[p] = t /\ path'[t] = p /\ pc'[t] = "ready" /\ t # NoTask
        BY <2>2, NoTaskAssumption DEF TypeOK
      <3>2. ASSUME NEW q \in Paths, q # p
            PROVE  /\ task'[q] = task[q]
                   /\ task[q] # NoTask => /\ task[q] # t
                                          /\ path'[task[q]] = path[task[q]]
                                          /\ pc'[task[q]] = pc[task[q]]
        BY <2>2, <3>2 DEF EntriesAgree, TypeOK
      <3>3. \A q \in Paths :
               /\ deadline'[q] = NoDeadline <=> task'[q] = NoTask
               /\ task'[q] # NoTask =>
                     /\ path'[task'[q]] = q
                     /\ \/ pc'[task'[q]] = "ready"
                        \/ pc'[task'[q]] = "asleep" /\ wake'[task'[q]] <= deadline'[q]
        BY <1>1, <1>5, <1>6, <3>1, <3>2 DEF EntriesAgree
      <3> QED
        BY <1>1, <3>1, <3>3 DEF EntriesAgree
    <2> QED
      BY <1>2, <2>1, <2>2
  <1>8. NoLostSubmission' /\ DeadlinesAreOwed'
    BY <1>1, <1>5, <1>6 DEF NoLostSubmission, DeadlinesAreOwed
  <1>9. Bounded'
    BY <1>1, <1>3 DEF Bounded, TypeOK
  <1>10. HandlersAreHarmless'
    <2> SUFFICES ASSUME NEW t \in Tasks, pc'[t] = "cancelled", path'[t] \in owes'
                 PROVE  path'[t] \in orphaned'
      BY DEF HandlersAreHarmless
    <2>1. pc[t] = "cancelled" /\ path'[t] = path[t]
      BY <1>2 DEF TypeOK
    <2> QED
      BY <1>1, <2>1 DEF HandlersAreHarmless
  <1> QED
    BY <1>4, <1>7, <1>8, <1>9, <1>10

-----------------------------------------------------------------------------
(* The tasks. *)

LEMMA ReturnInv == ASSUME IInv, NEW t \in Tasks, Return(t) PROVE IInv'
  <1> USE Bounds DEF IInv
  <1>1. /\ deadline[path[t]] = NoDeadline /\ pc' = [pc EXCEPT ![t] = "done"]
        /\ UNCHANGED <<now, dicts, path, wake, fires, history>>
    BY DEF Return
  <1>2. TypeOK'
    BY <1>1 DEF TypeOK, dicts, history
  <1>3. \A p \in Paths : task[p] # NoTask => task[p] # t
    BY <1>1 DEF EntriesAgree
  <1>4. \A p \in Paths : task[p] # NoTask => pc'[task[p]] = pc[task[p]]
    BY <1>1, <1>3 DEF TypeOK
  <1>5. EntriesAgree'
    BY <1>1, <1>4 DEF EntriesAgree, dicts
  <1>6. NoLostSubmission' /\ DeadlinesAreOwed' /\ Bounded'
    BY <1>1 DEF NoLostSubmission, DeadlinesAreOwed, Bounded, dicts, history
  <1>7. HandlersAreHarmless'
    BY <1>1 DEF HandlersAreHarmless, history, TypeOK
  <1> QED
    BY <1>2, <1>5, <1>6, <1>7

LEMMA SleepInv == ASSUME IInv, NEW t \in Tasks, Sleep(t) PROVE IInv'
  <1> USE Bounds DEF IInv
  <1>1. /\ deadline[path[t]] > now /\ pc' = [pc EXCEPT ![t] = "asleep"]
        /\ wake' = [wake EXCEPT ![t] = deadline[path[t]]]
        /\ UNCHANGED <<now, dicts, path, fires, history>>
    BY DEF Sleep
  <1>2. now \in 0 .. MaxTime /\ path[t] \in Paths
    BY DEF TypeOK
  <1>3. deadline[path[t]] \in 0 .. MaxTime
    BY <1>1, <1>2 DEF TypeOK, NoDeadline
  <1>4. TypeOK'
    BY <1>1, <1>3 DEF TypeOK, dicts, history
  <1>5. ASSUME NEW p \in Paths, task[p] # NoTask
        PROVE  \/ pc'[task[p]] = "ready"
               \/ pc'[task[p]] = "asleep" /\ wake'[task[p]] <= deadline[p]
    <2>1. CASE task[p] = t
      BY <1>1, <1>3, <1>5, <2>1 DEF EntriesAgree, TypeOK
    <2>2. CASE task[p] # t
      BY <1>1, <1>5, <2>2 DEF EntriesAgree, TypeOK
    <2> QED
      BY <2>1, <2>2
  <1>6. EntriesAgree'
    BY <1>1, <1>5 DEF EntriesAgree, dicts
  <1>7. NoLostSubmission' /\ DeadlinesAreOwed' /\ Bounded'
    BY <1>1 DEF NoLostSubmission, DeadlinesAreOwed, Bounded, dicts, history
  <1>8. HandlersAreHarmless'
    BY <1>1 DEF HandlersAreHarmless, history, TypeOK
  <1> QED
    BY <1>4, <1>6, <1>7, <1>8

(* Popping the entries of a path keeps them in agreement, when the tasks of*)
(* the others go on as they were.                                          *)
LEMMA PopAgrees ==
    ASSUME TypeOK, EntriesAgree, NEW p \in Paths, PopEntries(p),
           UNCHANGED <<path, wake>>,
           \A q \in Paths \ {p} : task[q] # NoTask => pc'[task[q]] = pc[task[q]]
    PROVE  /\ EntriesAgree'
           /\ deadline' \in [Paths -> {NoDeadline} \union 0 .. MaxTime]
           /\ task' \in [Paths -> Tasks \union {NoTask}] /\ idle' \in BOOLEAN
           /\ deadline'[p] = NoDeadline
           /\ \A q \in Paths \ {p} : deadline'[q] = deadline[q]
  <1>1. /\ deadline' = [deadline EXCEPT ![p] = NoDeadline]
        /\ task' = [task EXCEPT ![p] = NoTask]
        /\ idle' = (idle \/ NoTasksBut({p}))
    BY DEF PopEntries
  <1>2. /\ deadline'[p] = NoDeadline /\ task'[p] = NoTask
        /\ \A q \in Paths \ {p} : deadline'[q] = deadline[q] /\ task'[q] = task[q]
    BY <1>1 DEF TypeOK
  <1>3. \A q \in Paths :
           /\ deadline'[q] = NoDeadline <=> task'[q] = NoTask
           /\ task'[q] # NoTask =>
                 /\ path'[task'[q]] = q
                 /\ \/ pc'[task'[q]] = "ready"
                    \/ pc'[task'[q]] = "asleep" /\ wake'[task'[q]] <= deadline'[q]
    BY <1>2 DEF EntriesAgree
  <1>4. (\A q \in Paths : task'[q] = NoTask) <=> NoTasksBut({p})
    BY <1>2 DEF NoTasksBut
  <1>5. idle => NoTasksBut({p})
    BY DEF EntriesAgree, NoTasksBut
  <1>6. idle' <=> \A q \in Paths : task'[q] = NoTask
    BY <1>1, <1>4, <1>5
  <1>7. EntriesAgree'
    BY <1>3, <1>6 DEF EntriesAgree
  <1>8. idle' \in BOOLEAN
    BY <1>1 DEF TypeOK, NoTasksBut
  <1> QED
    BY <1>1, <1>2, <1>7, <1>8 DEF TypeOK

LEMMA FireInv == ASSUME IInv, NEW t \in Tasks, Fire(t) PROVE IInv'
  <1> USE Bounds DEF IInv
  <1> DEFINE p == path[t]
  <1>1. /\ deadline[p] # NoDeadline /\ PopEntries(p) /\ pc' = [pc EXCEPT ![t] = "done"]
        /\ fires' = [fires EXCEPT ![p] = @ + 1] /\ owes' = owes \ {p}
        /\ UNCHANGED <<now, path, wake, submits, last, orphaned>>
    BY DEF Fire
  <1>2. p \in Paths /\ p \in owes
    BY <1>1 DEF TypeOK, DeadlinesAreOwed
  <1>3. \A q \in Paths \ {p} : task[q] # NoTask => pc'[task[q]] = pc[task[q]]
    BY <1>1 DEF EntriesAgree, TypeOK
  <1> HIDE DEF p
  <1>4. /\ EntriesAgree'
        /\ deadline' \in [Paths -> {NoDeadline} \union 0 .. MaxTime]
        /\ task' \in [Paths -> Tasks \union {NoTask}] /\ idle' \in BOOLEAN
        /\ deadline'[p] = NoDeadline
        /\ \A q \in Paths \ {p} : deadline'[q] = deadline[q]
    BY <1>1, <1>2, <1>3, PopAgrees
  <1>5. fires[p] \in Nat /\ submits \in 0 .. MaxSubmits /\ fires[p] < submits
    BY <1>2 DEF Bounded, TypeOK
  <1>6. TypeOK'
    <2>1. fires[p] + 1 \in 0 .. MaxSubmits
      BY <1>5
    <2>2. fires' \in [Paths -> 0 .. MaxSubmits]
      BY <1>1, <2>1 DEF TypeOK
    <2>3. pc' \in [Tasks -> {"unborn", "ready", "asleep", "cancelled", "done"}]
      BY <1>1 DEF TypeOK
    <2> QED
      BY <1>1, <1>4, <2>2, <2>3 DEF TypeOK
  <1>7. NoLostSubmission' /\ DeadlinesAreOwed'
    BY <1>1, <1>4 DEF NoLostSubmission, DeadlinesAreOwed, TypeOK
  <1>8. Bounded'
    BY <1>1, <1>2, <1>5 DEF Bounded, TypeOK
  <1>9. HandlersAreHarmless'
    BY <1>1 DEF HandlersAreHarmless, TypeOK
  <1> QED
    BY <1>4, <1>6, <1>7, <1>8, <1>9

LEMMA HandleCancelInv == ASSUME IInv, NEW t \in Tasks, HandleCancel(t) PROVE IInv'
  <1> USE Bounds DEF IInv
  <1> DEFINE p == path[t]
  <1>1. /\ pc[t] = "cancelled" /\ PopEntries(p) /\ pc' = [pc EXCEPT ![t] = "done"]
        /\ UNCHANGED <<now, path, wake, fires, history>>
    BY DEF HandleCancel
  <1>2. p \in Paths /\ (p \in owes => p \in orphaned)
    BY <1>1 DEF TypeOK, HandlersAreHarmless
  <1>3. \A q \in Paths \ {p} : task[q] # NoTask => pc'[task[q]] = pc[task[q]]
    BY <1>1 DEF EntriesAgree, TypeOK
  <1>4. HandlersAreHarmless'
    BY <1>1 DEF HandlersAreHarmless, TypeOK, history
  <1> HIDE DEF p
  <1>5. /\ EntriesAgree'
        /\ deadline' \in [Paths -> {NoDeadline} \union 0 .. MaxTime]
        /\ task' \in [Paths -> Tasks \union {NoTask}] /\ idle' \in BOOLEAN
        /\ deadline'[p] = NoDeadline
        /\ \A q \in Paths \ {p} : deadline'[q] = deadline[q]
    BY <1>1, <1>2, <1>3, PopAgrees
  <1>6. TypeOK'
    BY <1>1, <1>5 DEF TypeOK, history
  <1>7. NoLostSubmission' /\ DeadlinesAreOwed'
    BY <1>1, <1>2, <1>5 DEF NoLostSubmission, DeadlinesAreOwed, TypeOK, history
  <1>8. Bounded'
    BY <1>1 DEF Bounded, history
  <1> QED
    BY <1>4, <1>5, <1>6, <1>7, <1>8

-----------------------------------------------------------------------------
(* cancel(). *)

LEMMA CancelInv == ASSUME IInv, NEW S \in SUBSET Paths, Cancel(S) PROVE IInv'
  <1> USE Bounds DEF IInv
  <1> DEFINE hit == {task[p] : p \in S}
  <1>1. /\ pc' = [t \in Tasks |->
                    IF t \notin hit THEN pc[t]
                    ELSE IF pc[t] = "ready" THEN "done"
                    ELSE IF pc[t] = "asleep" THEN "cancelled" ELSE pc[t]]
        /\ deadline' = [p \in Paths |-> IF p \in S THEN NoDeadline ELSE deadline[p]]
        /\ task' = [p \in Paths |-> IF p \in S THEN NoTask ELSE task[p]]
        /\ idle' = (idle \/ NoTasksBut(S))
        /\ owes' = owes \ S
        /\ UNCHANGED <<now, path, wake, submits, fires, last, orphaned>>
    BY DEF Cancel, CancelTasks
  <1>2. ASSUME NEW q \in Paths \ S, task[q] # NoTask
        PROVE  task[q] \notin hit /\ pc'[task[q]] = pc[task[q]]
    <2>1. task[q] \notin hit
      BY <1>2, OwnTasks
    <2> QED
      BY <1>1, <1>2, <2>1 DEF TypeOK
  <1>3. ASSUME NEW t \in hit, t # NoTask PROVE path[t] \in S
    BY <1>3 DEF EntriesAgree
  <1>4. ASSUME NEW t \in Tasks, pc'[t] = "cancelled", pc[t] # "cancelled"
        PROVE  path[t] \in S
    <2>1. t \in hit
      BY <1>1, <1>4
    <2> QED
      BY <1>3, <2>1, NoTaskAssumption
  <1>5. TypeOK'
    <2>1. pc' \in [Tasks -> {"unborn", "ready", "asleep", "cancelled", "done"}]
      <3> SUFFICES ASSUME NEW t \in Tasks
                   PROVE  pc'[t] \in {"unborn", "ready", "asleep", "cancelled", "done"}
        BY <1>1
      <3>1. pc[t] \in {"unborn", "ready", "asleep", "cancelled", "done"}
        BY DEF TypeOK
      <3>2. pc'[t] \in {pc[t], "done", "cancelled"}
        BY <1>1
      <3> QED
        BY <3>1, <3>2
    <2>2. /\ deadline' \in [Paths -> {NoDeadline} \union 0 .. MaxTime]
          /\ task' \in [Paths -> Tasks \union {NoTask}] /\ owes' \subseteq Paths
      BY <1>1 DEF TypeOK
    <2>3. idle' \in BOOLEAN
      BY <1>1 DEF TypeOK, NoTasksBut
    <2> QED
      BY <1>1, <2>1, <2>2, <2>3 DEF TypeOK
  <1> HIDE DEF hit
  <1>6. EntriesAgree'
    <2>1. \A q \in Paths :
             /\ deadline'[q] = NoDeadline <=> task'[q] = NoTask
             /\ task'[q] # NoTask =>
                   /\ path'[task'[q]] = q
                   /\ \/ pc'[task'[q]] = "ready"
                      \/ pc'[task'[q]] = "asleep" /\ wake'[task'[q]] <= deadline'[q]
      BY <1>1, <1>2 DEF EntriesAgree
    <2>2. (\A q \in Paths : task'[q] = NoTask) <=> NoTasksBut(S)
      BY <1>1 DEF NoTasksBut
    <2>3. idle => NoTasksBut(S)
      BY DEF EntriesAgree, NoTasksBut
    <2>4. idle' <=> \A q \in Paths : task'[q] = NoTask
      BY <1>1, <2>2, <2>3
    <2> QED
      BY <2>1, <2>4 DEF EntriesAgree
  <1>7. NoLostSubmission' /\ DeadlinesAreOwed'
    BY <1>1 DEF NoLostSubmission, DeadlinesAreOwed, TypeOK
  <1>8. Bounded'
    BY <1>1 DEF Bounded
  <1>9. HandlersAreHarmless'
    BY <1>1, <1>4 DEF HandlersAreHarmless
  <1> QED
    BY <1>5, <1>6, <1>7, <1>8, <1>9

-----------------------------------------------------------------------------
(* All steps. *)

LEMMA NextInv == IInv /\ [Next]_vars => IInv'
  <1> SUFFICES ASSUME IInv, [Next]_vars PROVE IInv'
    OBVIOUS
  <1>1. CASE Tick
    BY <1>1, TickInv
  <1>2. ASSUME NEW p \in Paths, Submit(p) PROVE IInv'
    BY <1>2, SubmitInv
  <1>3. ASSUME NEW S \in SUBSET Paths, Cancel(S) PROVE IInv'
    BY <1>3, CancelInv
  <1>4. ASSUME NEW t \in Tasks, Return(t) \/ Sleep(t) \/ Fire(t) \/ HandleCancel(t)
        PROVE  IInv'
    BY <1>4, ReturnInv, SleepInv, FireInv, HandleCancelInv
  <1>5. CASE UNCHANGED vars
    BY <1>5 DEF vars, dicts, tasks, history, IInv, TypeOK, EntriesAgree, NoLostSubmission,
                DeadlinesAreOwed, Bounded, HandlersAreHarmless
  <1>6. ASSUME NEW p \in Paths PROVE {p} \in SUBSET Paths
    OBVIOUS
  <1> QED
    BY <1>1, <1>2, <1>3, <1>4, <1>5, <1>6 DEF Next

(* The invariant holds, however submit(), cancel() and the tasks interleave*)
THEOREM Invariance == Spec => []IInv
  BY InitInv, NextInv, PTL DEF Spec

(* Every variable of the debouncer stays in its range.                     *)
THEOREM TypeCorrect == Spec => []TypeOK
  <1>1. IInv => TypeOK
    BY DEF IInv
  <1> QED
    BY <1>1, Invariance, PTL

(* Deadlines, tasks and the idle event always tell one story: submit() and *)
(* wait_idle() can rely on what they find in the dictionaries.             *)
THEOREM EntriesAlwaysAgree == Spec => []EntriesAgree
  <1>1. IInv => EntriesAgree
    BY DEF IInv
  <1> QED
    BY <1>1, Invariance, PTL

(* No submission loses its deadline but to the handler of a task that was  *)
(* cancelled before it.                                                    *)
THEOREM NothingIsLost == Spec => []NoLostSubmission
  <1>1. IInv => NoLostSubmission
    BY DEF IInv
  <1> QED
    BY <1>1, Invariance, PTL

LEMMA FiresOnce ==
    IInv /\ [Next]_vars => \A p \in Paths : fires'[p] # fires[p] =>
           /\ now >= last[p] + Delay
           /\ p \in owes
           /\ fires'[p] = fires[p] + 1
  <1> SUFFICES ASSUME IInv, [Next]_vars, NEW p \in Paths, fires'[p] # fires[p]
               PROVE  now >= last[p] + Delay /\ p \in owes /\ fires'[p] = fires[p] + 1
    OBVIOUS
  <1>1. PICK t \in Tasks : Fire(t)
    BY DEF Next, Tick, Submit, Cancel, Return, Sleep, HandleCancel, vars
  <1>2. deadline[path[t]] # NoDeadline /\ deadline[path[t]] <= now
        /\ fires' = [fires EXCEPT ![path[t]] = @ + 1]
    BY <1>1 DEF Fire
  <1>3. p = path[t] /\ fires'[p] = fires[p] + 1
    BY <1>2 DEF IInv, TypeOK
  <1> QED
    BY <1>2, <1>3 DEF IInv, DeadlinesAreOwed

(* on_ready is called only after a quiet delay, once for a burst, whatever *)
(* cancelled tasks are still around.                                       *)
THEOREM QuietBurstsOnly == Spec => FiresAfterQuiet
  BY FiresOnce, Invariance, PTL DEF Spec, FiresAfterQuiet
=============================================================================
