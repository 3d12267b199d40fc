--------------------------- MODULE AsyncDebouncer ---------------------------
(***************************************************************************)
(* class AsyncDebouncer of job_queue.py, with its clock, its two           *)
(* dictionaries and the asyncio tasks it creates.  A task is an object of  *)
(* its own: cancel() takes it out of _tasks at once, but the               *)
(* CancelledError reaches it one turn of the event loop later, and its     *)
(* handler then cleans up by path.                                         *)
(*                                                                         *)
(* on_ready is called inside the task's segment: JobQueue._enqueue, the    *)
(* only callback in the code, never suspends.                              *)
(***************************************************************************)
EXTENDS Integers, FiniteSets

CONSTANTS Paths,              \* the paths that are submitted
          Tasks,              \* the task objects that can be created
          NoTask,             \* no entry in _tasks
          Delay,              \* delay_seconds, in ticks
          MaxTime,            \* bound on the clock
          MaxSubmits          \* bound on the calls of submit()

ASSUME NoTaskAssumption == NoTask \notin Tasks
ASSUME BoundsAssumption ==
    /\ {Delay, MaxTime, MaxSubmits} \subseteq Nat
    /\ IsFiniteSet(Tasks) /\ Cardinality(Tasks) >= MaxSubmits

NoDeadline == -1

VARIABLES now,        \* loop.time()
          deadline,   \* _deadlines; NoDeadline if absent
          task,       \* _tasks; NoTask if absent
          idle,       \* _idle_event.is_set()
          path,       \* the argument of each task
          pc,         \* each task: "unborn", "ready", "asleep", "cancelled", "done"
          wake,       \* when a task asleep is due
          submits,    \* calls of submit() so far
          fires,      \* calls of on_ready, per path
          owes,       \* history: paths submitted, not yet fired or cancelled
          last,       \* history: time of the last submission
          orphaned    \* history: paths submitted before the handler of a cancelled
                      \* task of theirs has run

dicts == <<deadline, task, idle>>
tasks == <<path, pc, wake>>
history == <<submits, owes, last, orphaned>>
vars == <<now, dicts, tasks, fires, history>>

Init == /\ now = 0
        /\ deadline = [p \in Paths |-> NoDeadline]
        /\ task = [p \in Paths |-> NoTask]
        /\ idle = TRUE
        /\ \E p \in Paths : path = [t \in Tasks |-> p]    \* immaterial until the task is born
        /\ pc = [t \in Tasks |-> "unborn"]
        /\ wake = [t \in Tasks |-> 0]
        /\ submits = 0
        /\ fires = [p \in Paths |-> 0]
        /\ owes = {}
        /\ last = [p \in Paths |-> 0]
        /\ orphaned = {}

NoTasksBut(S) == \A p \in Paths \ S : task[p] = NoTask

Tick == /\ now < MaxTime
        /\ now' = now + 1
        /\ UNCHANGED <<dicts, tasks, fires, history>>

(* existing_task is there and not done().                                  *)
Alive(p) == IF task[p] = NoTask THEN FALSE ELSE pc[task[p]] # "done"

(* submit(): sets or bumps the deadline, and creates a task unless the one *)
(* registered for the path is still running.                               *)
Submit(p) ==
    /\ submits < MaxSubmits /\ now + Delay <= MaxTime
    /\ deadline' = [deadline EXCEPT ![p] = now + Delay]
    /\ idle' = FALSE
    /\ \/ /\ Alive(p)
          /\ UNCHANGED <<task, tasks>>
       \/ /\ ~Alive(p)
          /\ \E t \in Tasks :
                /\ pc[t] = "unborn"
                /\ task' = [task EXCEPT ![p] = t]
                /\ path' = [path EXCEPT ![t] = p]
                /\ pc' = [pc EXCEPT ![t] = "ready"]
                /\ UNCHANGED wake
    /\ submits' = submits + 1
    /\ owes' = owes \union {p}
    /\ last' = [last EXCEPT ![p] = now]
    /\ orphaned' = orphaned
           \union ({p} \intersect {path[t] : t \in {u \in Tasks : pc[u] = "cancelled"}})
    /\ UNCHANGED <<now, fires>>

(* A task whose turn it is: it has just been created, or its sleep is over.*)
Due(t) == pc[t] = "ready" \/ (pc[t] = "asleep" /\ wake[t] <= now)

(* The deadline of its path is gone: the task returns.                     *)
Return(t) == /\ Due(t)
             /\ deadline[path[t]] = NoDeadline
             /\ pc' = [pc EXCEPT ![t] = "done"]
             /\ UNCHANGED <<now, dicts, path, wake, fires, history>>

(* Faulty variant of Sleep: it sleeps for the deadline and not for the     *)
(* time that remains.                                                      *)
SleepAbsolute(t) == /\ Due(t)
                    /\ deadline[path[t]] > now
                    /\ pc' = [pc EXCEPT ![t] = "asleep"]
                    /\ wake' = [wake EXCEPT ![t] = now + deadline[path[t]]]
                    /\ UNCHANGED <<now, dicts, path, fires, history>>

(* The deadline lies ahead, perhaps because it was bumped.                 *)
Sleep(t) == /\ Due(t)
            /\ deadline[path[t]] > now
            /\ pc' = [pc EXCEPT ![t] = "asleep"]
            /\ wake' = [wake EXCEPT ![t] = deadline[path[t]]]
            /\ UNCHANGED <<now, dicts, path, fires, history>>

(* Faulty variants of PopEntries: all deadlines go; the idle event is      *)
(* forgotten.                                                              *)
PopEntriesOfAll(p) == /\ deadline' = [q \in Paths |-> NoDeadline]
                      /\ task' = [task EXCEPT ![p] = NoTask]
                      /\ idle' = (idle \/ NoTasksBut({p}))
PopEntriesNotIdle(p) == /\ deadline' = [deadline EXCEPT ![p] = NoDeadline]
                        /\ task' = [task EXCEPT ![p] = NoTask]
                        /\ UNCHANGED idle

(* Both exits of a task pop the entries of its path.                       *)
PopEntries(p) == /\ deadline' = [deadline EXCEPT ![p] = NoDeadline]
                 /\ task' = [task EXCEPT ![p] = NoTask]
                 /\ idle' = (idle \/ NoTasksBut({p}))

(* Faulty variant of Fire: the deadline is not looked at after the sleep.  *)
FireOnWake(t) == LET p == path[t]
                 IN  /\ pc[t] = "asleep" /\ wake[t] <= now /\ deadline[p] # NoDeadline
                     /\ PopEntries(p)
                     /\ pc' = [pc EXCEPT ![t] = "done"]
                     /\ fires' = [fires EXCEPT ![p] = @ + 1]
                     /\ owes' = owes \ {p}
                     /\ UNCHANGED <<now, path, wake, submits, last, orphaned>>

(* The deadline has passed: the task unregisters itself and calls on_ready.*)
Fire(t) == LET p == path[t]
           IN  /\ Due(t)
               /\ deadline[p] # NoDeadline /\ deadline[p] <= now
               /\ PopEntries(p)
               /\ pc' = [pc EXCEPT ![t] = "done"]
               /\ fires' = [fires EXCEPT ![p] = @ + 1]
               /\ owes' = owes \ {p}
               /\ UNCHANGED <<now, path, wake, submits, last, orphaned>>

(* The CancelledError arrives: the handler pops by path, whoever owns the  *)
(* entries by now.                                                         *)
HandleCancel(t) == /\ pc[t] = "cancelled"
                   /\ PopEntries(path[t])
                   /\ pc' = [pc EXCEPT ![t] = "done"]
                   /\ UNCHANGED <<now, path, wake, fires, history>>

(* Task.cancel() of the tasks registered for the paths of S.  A task that  *)
(* has not run yet ends without entering its try block.                    *)
CancelTasks(S) ==
    pc' = [t \in Tasks |->
              IF t \notin {task[p] : p \in S} THEN pc[t]
              ELSE IF pc[t] = "ready" THEN "done"
              ELSE IF pc[t] = "asleep" THEN "cancelled" ELSE pc[t]]

(* cancel(path) for a single path of S, cancel() for all of them.          *)
Cancel(S) ==
    /\ CancelTasks(S)
    /\ deadline' = [p \in Paths |-> IF p \in S THEN NoDeadline ELSE deadline[p]]
    /\ task' = [p \in Paths |-> IF p \in S THEN NoTask ELSE task[p]]
    /\ idle' = (idle \/ NoTasksBut(S))
    /\ owes' = owes \ S
    /\ UNCHANGED <<now, path, wake, submits, fires, last, orphaned>>

Next == \/ Tick
        \/ \E p \in Paths : Submit(p) \/ Cancel({p})
        \/ Cancel(Paths)
        \/ \E t \in Tasks : Return(t) \/ Sleep(t) \/ Fire(t) \/ HandleCancel(t)

Spec == Init /\ [][Next]_vars

(* Time passes and the event loop runs every task that is due.             *)
FairSpec == /\ Spec
            /\ WF_vars(Tick)
            /\ \A t \in Tasks : WF_vars(Return(t) \/ Sleep(t) \/ Fire(t) \/ HandleCancel(t))

-----------------------------------------------------------------------------
(* Properties. *)

TypeOK == /\ now \in 0 .. MaxTime
          /\ deadline \in [Paths -> {NoDeadline} \union 0 .. MaxTime]
          /\ task \in [Paths -> Tasks \union {NoTask}]
          /\ idle \in BOOLEAN
          /\ path \in [Tasks -> Paths]
          /\ pc \in [Tasks -> {"unborn", "ready", "asleep", "cancelled", "done"}]
          /\ wake \in [Tasks -> 0 .. MaxTime]
          /\ submits \in 0 .. MaxSubmits
          /\ fires \in [Paths -> 0 .. MaxSubmits]
          /\ owes \subseteq Paths /\ orphaned \subseteq Paths
          /\ last \in [Paths -> 0 .. MaxTime]

(* A path with a deadline has exactly one registered task, which is alive, *)
(* works for that path and will look at the deadline in time; a path       *)
(* without one has none.  So a later submit() never leans on a dead task.  *)
(* The idle event, which wait_idle() lets drain() rely on, is set exactly  *)
(* when nothing is registered.                                             *)
EntriesAgree ==
    /\ \A p \in Paths :
          /\ deadline[p] = NoDeadline <=> task[p] = NoTask
          /\ task[p] # NoTask =>
                /\ path[task[p]] = p
                /\ \/ pc[task[p]] = "ready"
                   \/ pc[task[p]] = "asleep" /\ wake[task[p]] <= deadline[p]
    /\ idle <=> \A p \in Paths : task[p] = NoTask

(* "Only fires on_ready after delay_seconds has elapsed with no subsequent *)
(* submissions", and only once per burst, also when a task that was taken  *)
(* out of the dictionary is still around.                                  *)
FiresAfterQuiet ==
    [][\A p \in Paths : fires'[p] # fires[p] =>
           /\ now >= last[p] + Delay
           /\ p \in owes
           /\ fires'[p] = fires[p] + 1]_vars

(* A submission that was neither fired nor cancelled keeps its deadline,   *)
(* unless it came in between a cancel() of its path and the turn of the    *)
(* loop in which the cancelled task cleans up: that handler pops the new   *)
(* entries.  (JobQueue only cancels in stop(), after which it submits      *)
(* nothing.)                                                               *)
NoLostSubmission == \A p \in owes \ orphaned : deadline[p] # NoDeadline

(* With the same exception, every burst of submissions is followed by a    *)
(* call of on_ready, unless it is cancelled.                               *)
BurstsFire == \A p \in Paths : (p \in owes) ~> (p \notin owes \/ p \in orphaned)

(* Together: a burst fires, once, and not before it is quiet.              *)
QuietBurstsFire == FiresAfterQuiet /\ BurstsFire
=============================================================================
