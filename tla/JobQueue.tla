------------------------------ MODULE JobQueue ------------------------------
(***************************************************************************)
(* The asyncio worker pool of job_queue.py: class JobQueue, together with  *)
(* the part of AsyncDebouncer it uses (AsyncDebouncer.tla models the       *)
(* debouncer itself, with its clock and its tasks).                        *)
(*                                                                         *)
(* Grain of atomicity: one action is one uninterrupted segment of an       *)
(* asyncio task, from one suspension point to the next.  The critical      *)
(* sections under JobQueue._lock contain no await, so the lock is never    *)
(* contended, taking it never suspends, and the code around it belongs to  *)
(* the segment.                                                            *)
(*                                                                         *)
(* Processes: the callers of submit() and start(); the debounce tasks, one *)
(* per armed path; the workers; a caller of drain(); a caller of stop(),   *)
(* which may run drain() under a timeout first.                            *)
(***************************************************************************)
EXTENDS Integers, Sequences, FiniteSets, Functions

CONSTANTS Paths,       \* resolved source paths
          Workers,     \* the worker tasks: max_workers of them
          NoPath,      \* a worker that handles nothing
          MaxSubmits   \* bound on the calls of submit()

ASSUME PathsAssumption == NoPath \notin Paths
ASSUME WorkersAssumption == IsFiniteSet(Workers) /\ Workers # {}
ASSUME MaxSubmitsAssumption == MaxSubmits \in Nat

Drainers == {"client", "stopper"}   \* who may be inside drain()

VARIABLES
    debouncing,  \* paths of _debouncer._tasks, each with a deadline
    queue,       \* _queue: the paths waiting for a worker, in FIFO order
    unfinished,  \* _queue._unfinished_tasks: put and not yet task_done
    queued,      \* _queued
    inFlight,    \* _in_flight
    rerun,       \* _rerun_pending
    idle,        \* _idle_event.is_set()
    running,     \* _running
    stopped,     \* _stopped
    wpc,         \* worker -> "none", "waiting" in get(), "handling", "exited"
    wpath,       \* worker -> the path its handler is processing
    dpc,         \* drainer -> where it is in drain()
    stopPc,      \* the caller of stop(): "off", "drain", "gather", "done"
    submits,     \* calls of submit() so far
    owed         \* history: what a drain() in progress still has to wait for

poolVars  == <<queue, unfinished, queued, inFlight, rerun, wpc, wpath>>
lifeVars  == <<running, stopped, stopPc>>
vars == <<debouncing, poolVars, idle, lifeVars, dpc, submits, owed>>

-----------------------------------------------------------------------------
(* drain() waits for three events in turn.  A task woken by an event       *)
(* resumes even when the event has been cleared again in the meantime, so  *)
(* "woken" is a state of its own.                                          *)
(*   debounce  suspended in AsyncDebouncer.wait_idle                       *)
(*   join      suspended in _queue.join()                                  *)
(*   idle      suspended in _idle_event.wait()                             *)
(*   spin      looping without ever suspending: the event loop is stuck    *)
DrainWaits == {"debounce", "join", "idle"}
DrainWoken == {"debounceWoken", "joinWoken", "idleWoken"}
DrainStates == {"off", "done", "spin"} \union DrainWaits \union DrainWoken

Init == /\ debouncing = {}
        /\ queue = <<>>
        /\ unfinished = 0
        /\ queued = {}
        /\ inFlight = {}
        /\ rerun = {}
        /\ idle = TRUE
        /\ running = FALSE
        /\ stopped = FALSE
        /\ wpc = [w \in Workers |-> "none"]
        /\ wpath = [w \in Workers |-> NoPath]
        /\ dpc = [d \in Drainers |-> "off"]
        /\ stopPc = "off"
        /\ submits = 0
        /\ owed = [d \in Drainers |-> [p \in Paths |-> "nothing"]]

Quiescent == inFlight = {} /\ rerun = {} /\ queue = <<>>

(* The drainers after the debouncer's event, the queue's finished event    *)
(* and the idle event have been set (each flag says whether it was).       *)
Woken(debounceSet, finishedSet, idleSet) ==
    [d \in Drainers |->
        IF dpc[d] = "debounce" /\ debounceSet THEN "debounceWoken"
        ELSE IF dpc[d] = "join" /\ finishedSet THEN "joinWoken"
        ELSE IF dpc[d] = "idle" /\ idleSet THEN "idleWoken"
        ELSE dpc[d]]

-----------------------------------------------------------------------------
(* submit(): ignored once stopped; otherwise the path's deadline is set or *)
(* bumped.                                                                 *)
Submit(p) == /\ submits < MaxSubmits
             /\ submits' = submits + 1
             /\ debouncing' = IF stopped THEN debouncing
                                         ELSE debouncing \union {p}
             /\ UNCHANGED <<poolVars, idle, lifeVars, dpc, owed>>

(* _enqueue: the path is in flight and is noted for a rerun.               *)
FileRerun(p) == /\ p \in inFlight
                /\ rerun' = rerun \union {p}
                /\ idle' = FALSE
                /\ UNCHANGED <<queue, unfinished, queued>>

(* Faulty variants of FileNew: a path is queued while it is in flight; the *)
(* idle event is not cleared.                                              *)
FileNewInFlight(p) == /\ p \notin queued
                      /\ queued' = queued \union {p}
                      /\ queue' = Append(queue, p)
                      /\ unfinished' = unfinished + 1
                      /\ idle' = FALSE
                      /\ UNCHANGED rerun
FileNewStaysIdle(p) == /\ p \notin inFlight \union queued
                       /\ queued' = queued \union {p}
                       /\ queue' = Append(queue, p)
                       /\ unfinished' = unfinished + 1
                       /\ UNCHANGED <<rerun, idle>>

(* _enqueue: a new job.                                                    *)
FileNew(p) == /\ p \notin inFlight
              /\ p \notin queued
              /\ queued' = queued \union {p}
              /\ queue' = Append(queue, p)
              /\ unfinished' = unfinished + 1
              /\ idle' = FALSE
              /\ UNCHANGED rerun

(* _enqueue: the path is waiting in the queue already.                     *)
AlreadyFiled(p) == /\ p \notin inFlight
                   /\ p \in queued
                   /\ UNCHANGED <<queue, unfinished, queued, rerun, idle>>

(* The debounce task of p finds its deadline passed: it unregisters        *)
(* itself, then calls _enqueue.                                            *)
Fire(p) ==
    /\ p \in debouncing
    /\ debouncing' = debouncing \ {p}
    /\ dpc' = Woken(debouncing' = {}, FALSE, FALSE)
    /\ IF stopped
       THEN UNCHANGED <<poolVars, idle>>
       ELSE FileRerun(p) \/ FileNew(p) \/ AlreadyFiled(p)
    /\ UNCHANGED <<inFlight, wpc, wpath, lifeVars, submits, owed>>

(* start(): a queue that was stopped is never started again. *)
Start == /\ ~running /\ ~stopped
         /\ running' = TRUE
         /\ wpc' = [w \in Workers |-> "waiting"]
         /\ UNCHANGED <<debouncing, queue, unfinished, queued, inFlight, rerun,
                        wpath, idle, stopped, stopPc, dpc, submits, owed>>
-----------------------------------------------------------------------------
(* How a run that begins, or ends, changes what a drain() is still owed: a *)
(* path is owed "aRun" until a run of it begins after the drain() call,    *)
(* "itsEnd" until that run (or the one already in flight) ends.            *)
Began(debts, p) ==
    [d \in Drainers |-> [debts[d] EXCEPT ![p] = IF @ = "aRun" THEN "itsEnd" ELSE @]]
Ended(debts, p) ==
    [d \in Drainers |-> [debts[d] EXCEPT ![p] = IF @ = "itsEnd" THEN "nothing" ELSE @]]

(* Faulty variant of Take: the path stays in _queued.                      *)
TakeStaysQueued(w) ==
    /\ wpc[w] = "waiting" /\ ~stopped /\ queue # <<>>
    /\ queue' = Tail(queue)
    /\ inFlight' = inFlight \union {Head(queue)}
    /\ wpath' = [wpath EXCEPT ![w] = Head(queue)]
    /\ owed' = Began(owed, Head(queue))
    /\ wpc' = [wpc EXCEPT ![w] = "handling"]
    /\ idle' = FALSE
    /\ UNCHANGED <<debouncing, queued, unfinished, rerun, lifeVars, dpc, submits>>

(* A worker suspended in get() receives the head of the queue and enters   *)
(* the handler.  A worker that stop() has cancelled gets no path.          *)
Take(w) ==
    /\ wpc[w] = "waiting"
    /\ ~stopped
    /\ queue # <<>>
    /\ LET p == Head(queue)
       IN  /\ queue' = Tail(queue)
           /\ queued' = queued \ {p}
           /\ inFlight' = inFlight \union {p}
           /\ wpath' = [wpath EXCEPT ![w] = p]
           /\ owed' = Began(owed, p)
    /\ wpc' = [wpc EXCEPT ![w] = "handling"]
    /\ idle' = FALSE
    /\ UNCHANGED <<debouncing, unfinished, rerun, lifeVars, dpc, submits>>

(* task_done(), and the put of a rerun right after it.                     *)
AfterTaskDone(again) == IF again THEN unfinished ELSE unfinished - 1

(* Whether the path has a rerun to file; a faulty variant that drops it.   *)
NeverReruns(p) == FALSE
Reruns(p) == p \in rerun

(* The condition for setting the idle event.                               *)
Settled(inFlightNow, rerunNow, queueNow) ==
    inFlightNow = {} /\ rerunNow = {} /\ queueNow = <<>>

(* The handler of w returns or raises, which is the same to the worker.    *)
(* The finally block frees the path, files the rerun and perhaps sets the  *)
(* idle event; get() then returns at once if there is a path to take, and  *)
(* suspends otherwise.                                                     *)
Finish(w) ==
    LET p == wpath[w]
        again == Reruns(p)
        queueNow == IF again THEN Append(queue, p) ELSE queue
        queuedNow == IF again THEN queued \union {p} ELSE queued
        inFlightNow == inFlight \ {p}
        settled == Settled(inFlightNow, rerun \ {p}, queueNow)
    IN  /\ wpc[w] = "handling"
        /\ ~stopped
        /\ unfinished' = AfterTaskDone(again)
        /\ rerun' = rerun \ {p}
        /\ dpc' = Woken(FALSE, unfinished = 1, settled)
        /\ \/ /\ queueNow = <<>>
              /\ queue' = queueNow
              /\ queued' = queuedNow
              /\ inFlight' = inFlightNow
              /\ idle' = (settled \/ idle)
              /\ wpc' = [wpc EXCEPT ![w] = "waiting"]
              /\ wpath' = [wpath EXCEPT ![w] = NoPath]
              /\ owed' = Ended(owed, p)
           \/ /\ queueNow # <<>>
              /\ LET q == Head(queueNow)
                 IN  /\ queue' = Tail(queueNow)
                     /\ queued' = queuedNow \ {q}
                     /\ inFlight' = inFlightNow \union {q}
                     /\ wpath' = [wpath EXCEPT ![w] = q]
                     /\ owed' = Began(Ended(owed, p), q)
              /\ idle' = FALSE
              /\ UNCHANGED wpc
        /\ UNCHANGED <<debouncing, lifeVars, submits>>

(* The CancelledError of stop() reaches a worker: out of get() it leaves   *)
(* the loop; out of the handler it runs the finally block first, which now *)
(* drops the rerun.                                                        *)
Interrupt(w) ==
    /\ stopPc = "gather"
    /\ \/ /\ wpc[w] = "waiting"
          /\ UNCHANGED <<unfinished, inFlight, rerun, wpath, idle, dpc>>
       \/ LET p == wpath[w]
              settled == Settled(inFlight \ {p}, rerun \ {p}, queue)
          IN  /\ wpc[w] = "handling"
              /\ inFlight' = inFlight \ {p}
              /\ unfinished' = unfinished - 1
              /\ rerun' = rerun \ {p}
              /\ idle' = (settled \/ idle)
              /\ dpc' = Woken(FALSE, unfinished = 1, settled)
              /\ wpath' = [wpath EXCEPT ![w] = NoPath]
    /\ wpc' = [wpc EXCEPT ![w] = "exited"]
    /\ UNCHANGED <<debouncing, queue, queued, lifeVars, submits, owed>>

-----------------------------------------------------------------------------
(* Where drain() suspends next, from each of its three stages; a faulty    *)
(* variant does not wait for the debouncer.                                *)
FromCheck == IF Quiescent THEN "done"
             ELSE IF ~idle THEN "idle"
             ELSE IF unfinished > 0 THEN "join" ELSE "spin"
FromJoin == IF unfinished > 0 THEN "join" ELSE FromCheck
FromDebounceAtOnce == FromJoin
FromDebounce == IF debouncing # {} THEN "debounce" ELSE FromJoin

(* What is owed to a drain() called now. *)
Owing == [p \in Paths |->
             IF p \in debouncing \union queued \union rerun THEN "aRun"
             ELSE IF p \in inFlight THEN "itsEnd" ELSE "nothing"]

DrainCall == /\ dpc["client"] \in {"off", "done"}
             /\ dpc' = [dpc EXCEPT !["client"] = FromDebounce]
             /\ owed' = [owed EXCEPT !["client"] = Owing]
             /\ UNCHANGED <<debouncing, poolVars, idle, lifeVars, submits>>

DrainResume(d) ==
    /\ \/ dpc[d] = "debounceWoken" /\ dpc' = [dpc EXCEPT ![d] = FromDebounce]
       \/ dpc[d] = "joinWoken" /\ dpc' = [dpc EXCEPT ![d] = FromCheck]
       \/ dpc[d] = "idleWoken" /\ dpc' = [dpc EXCEPT ![d] = FromJoin]
    /\ UNCHANGED <<debouncing, poolVars, idle, lifeVars, submits, owed>>

-----------------------------------------------------------------------------
AllExited == \A w \in Workers : wpc[w] \in {"none", "exited"}

(* Faulty variant of Shutdown: it empties the queue while handlers run.    *)
ShutdownClears ==
    /\ stopped' = TRUE /\ running' = FALSE /\ debouncing' = {}
    /\ dpc' = [Woken(TRUE, FALSE, AllExited) EXCEPT !["stopper"] = "off"]
    /\ stopPc' = IF AllExited THEN "done" ELSE "gather"
    /\ queue' = <<>> /\ unfinished' = 0
    /\ inFlight' = {} /\ queued' = {} /\ rerun' = {} /\ idle' = TRUE
    /\ UNCHANGED <<wpc, wpath, submits, owed>>

(* The segment of stop() that raises _stopped, cancels the debounce timers *)
(* and requests the cancellation of every worker.  With no worker task to  *)
(* wait for it goes on to clear the sets.                                  *)
Shutdown ==
    /\ stopped' = TRUE
    /\ running' = FALSE
    /\ debouncing' = {}
    /\ dpc' = [Woken(TRUE, FALSE, AllExited) EXCEPT !["stopper"] = "off"]
    /\ IF AllExited
       THEN /\ stopPc' = "done"
            /\ inFlight' = {} /\ queued' = {} /\ rerun' = {}
            /\ idle' = TRUE
       ELSE /\ stopPc' = "gather"
            /\ UNCHANGED <<inFlight, queued, rerun, idle>>
    /\ UNCHANGED <<queue, unfinished, wpc, wpath, submits, owed>>

(* stop(drain=False). *)
StopNow == stopPc \in {"off", "done"} /\ Shutdown

(* stop(drain=True) enters drain() under its timeout. *)
StopDraining == /\ stopPc \in {"off", "done"}
                /\ stopPc' = "drain"
                /\ dpc' = [dpc EXCEPT !["stopper"] = FromDebounce]
                /\ owed' = [owed EXCEPT !["stopper"] = Owing]
                /\ UNCHANGED <<debouncing, poolVars, idle, running, stopped, submits>>

StopDrained == stopPc = "drain" /\ dpc["stopper"] = "done" /\ Shutdown

(* Faulty variant of StopTimeout: it does not reach the wait for the idle  *)
(* event or for the queue.                                                 *)
StopTimeoutDebounce == /\ stopPc = "drain"
                       /\ dpc["stopper"] \in {"debounce", "debounceWoken"}
                       /\ Shutdown

(* The timeout cancels drain() wherever it is suspended. *)
StopTimeout == /\ stopPc = "drain"
               /\ dpc["stopper"] \in DrainWaits \union DrainWoken
               /\ Shutdown

(* Every worker has exited; what they left behind is cleared, except for   *)
(* the queue itself and its unfinished count.                              *)
StopFinish == /\ stopPc = "gather"
              /\ AllExited
              /\ stopPc' = "done"
              /\ inFlight' = {} /\ queued' = {} /\ rerun' = {}
              /\ idle' = TRUE
              /\ dpc' = Woken(FALSE, FALSE, TRUE)
              /\ UNCHANGED <<debouncing, queue, unfinished, wpc, wpath,
                             running, stopped, submits, owed>>

Next == \/ \E p \in Paths : Submit(p) \/ Fire(p)
        \/ Start
        \/ \E w \in Workers : Take(w) \/ Finish(w) \/ Interrupt(w)
        \/ DrainCall
        \/ \E d \in Drainers : DrainResume(d)
        \/ StopNow \/ StopDraining \/ StopDrained \/ StopTimeout \/ StopFinish

Spec == Init /\ [][Next]_vars

(* The event loop runs every task that can go on, a quiet window ends once *)
(* its burst of events has (submissions are bounded), a handler returns    *)
(* (its subprocess and its API calls have timeouts), and the timeout of    *)
(* stop() expires.  Nobody has to call submit, start, drain or stop.       *)
Fairness == /\ \A p \in Paths : WF_vars(Fire(p))
            /\ \A w \in Workers : /\ WF_vars(Take(w))
                                  /\ WF_vars(Finish(w))
                                  /\ WF_vars(Interrupt(w))
            /\ \A d \in Drainers : WF_vars(DrainResume(d))
            /\ WF_vars(StopDrained)
            /\ WF_vars(StopTimeout)
            /\ WF_vars(StopFinish)

FairSpec == Spec /\ Fairness
-----------------------------------------------------------------------------
(* Properties. *)

Handling(w) == wpc[w] = "handling"
Handlers == {w \in Workers : Handling(w)}
Pending == debouncing \union queued \union rerun
Busy == [p \in Paths |-> {w \in Workers : Handling(w) /\ wpath[w] = p}]

(* Types.  That unfinished never becomes negative is what keeps task_done  *)
(* from raising ValueError inside the worker's finally block, which would  *)
(* kill the worker.                                                        *)
TypeOK == /\ debouncing \subseteq Paths
          /\ queue \in Seq(Paths)
          /\ unfinished \in Nat
          /\ queued \subseteq Paths
          /\ inFlight \subseteq Paths
          /\ rerun \subseteq Paths
          /\ idle \in BOOLEAN
          /\ running \in BOOLEAN
          /\ stopped \in BOOLEAN
          /\ wpc \in [Workers -> {"none", "waiting", "handling", "exited"}]
          /\ wpath \in [Workers -> Paths \union {NoPath}]
          /\ dpc \in [Drainers -> DrainStates]
          /\ stopPc \in {"off", "drain", "gather", "done"}
          /\ submits \in 0 .. MaxSubmits
          /\ owed \in [Drainers -> [Paths -> {"nothing", "aRun", "itsEnd"}]]

(* "No two workers ever process the same path concurrently", also while a  *)
(* rerun is being filed and while stop() interrupts the handlers.          *)
MutualExclusion ==
    \A v, w \in Workers :
        (Handling(v) /\ Handling(w) /\ wpath[v] = wpath[w]) => v = w

(* The three sets that guard a path agree with the queue and the workers:  *)
(* until the workers have exited, the queue holds each queued path once    *)
(* and no path that is in flight, so that one put is matched by one run; a *)
(* rerun is only noted for a path in flight, whose worker will file it.    *)
GuardsAgree ==
    /\ inFlight = {wpath[w] : w \in Handlers}
    /\ rerun \subseteq inFlight
    /\ (stopped /\ AllExited) \/
          /\ queued = Range(queue)
          /\ IsInjective(queue)
          /\ queued \intersect inFlight = {}

(* Before start() there is no worker; stop() has raised its flag before it *)
(* waits for the workers.                                                  *)
Lifecycle == /\ (~running /\ ~stopped) => \A w \in Workers : wpc[w] = "none"
             /\ stopPc \in {"gather", "done"} => stopped

(* The idle event is set exactly when there is nothing to wait for; a      *)
(* stale event would make drain() return early or spin, a missing one      *)
(* would leave it asleep.                                                  *)
IdleEventExact == ~stopped => (idle <=> Quiescent)

(* The queue's unfinished count is what join() waits on: the paths in the  *)
(* queue and those being handled, also across a rerun (task_done before    *)
(* put) and an interruption.                                               *)
UnfinishedExact == unfinished = Len(queue) + Cardinality(Handlers)

(* All that the queue counts, marks and signals about the same jobs says   *)
(* the same; drain(), submit() and the workers each trust another part.    *)
BookkeepingExact == GuardsAgree /\ UnfinishedExact /\ IdleEventExact

(* When drain() returns, every change submitted before it was called has   *)
(* been covered by a run that began after the change and has ended, even   *)
(* when it came in while its path was in flight.                           *)
DrainCovers ==
    \A d \in Drainers : (dpc[d] = "done" /\ ~stopped)
                            => \A p \in Paths : owed[d][p] = "nothing"

(* Where the debts of a drain() in progress are: a path that is owed a run *)
(* has a pending change, and one that the pool itself holds once drain()   *)
(* is past the debouncer; a path that is owed an end is in flight.         *)
DrainDebts ==
    ~stopped => \A d \in Drainers, p \in Paths :
        /\ owed[d][p] = "aRun" =>
              p \in IF dpc[d] \in {"debounce", "debounceWoken"} THEN Pending
                                                            ELSE queued \union rerun
        /\ owed[d][p] = "itsEnd" => p \in inFlight

(* drain() never loops on an event that is set while what it waits for is  *)
(* not there: that would block the event loop for good.                    *)
NoSpin == \A d \in Drainers : dpc[d] # "spin"

(* Together they are preserved by every step.                              *)
IInv == /\ TypeOK
        /\ MutualExclusion
        /\ GuardsAgree
        /\ Lifecycle
        /\ UnfinishedExact
        /\ IdleEventExact
        /\ DrainDebts
        /\ DrainCovers
        /\ NoSpin

(* The pool implements its promise: a pending change only leaves the sets  *)
(* when a run begins that covers it, or when stop() drops it; runs of one  *)
(* path exclude each other; nothing begins after stop().                   *)
Guard == INSTANCE PathGuard WITH pending <- Pending, busy <- Busy, closed <- stopped
ImplementsPathGuard == Guard!Spec

(* While the pool runs, a pending change is eventually covered by a run,   *)
(* unless stop() comes first.                                              *)
ChangesAreHandled ==
    \A p \in Paths : (p \in Pending /\ running) ~> (p \notin Pending \/ stopped)

(* drain() on a running pool returns, unless stop() comes first.           *)
DrainReturns == (running /\ dpc["client"] \in DrainWaits \union DrainWoken)
                    ~> (dpc["client"] = "done" \/ stopped)

(* stop() always returns, whatever is in flight and whether or not its     *)
(* drain() can finish.                                                     *)
StopReturns == stopPc \in {"drain", "gather"} ~> stopPc = "done"

(* So whoever waits for the queue gets through.                            *)
CallersReturn == DrainReturns /\ StopReturns
=============================================================================
