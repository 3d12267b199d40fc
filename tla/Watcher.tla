------------------------------- MODULE Watcher -------------------------------
(***************************************************************************)
(* FileWatcher of watcher.py: file system events of the observer thread,   *)
(* the runs of _process_file() that the job queue starts, the tasks that   *)
(* clean up after deletions, and the two files they all write: hashes.json *)
(* (behind the lock of ChangeTracker) and context.json (read, changed and  *)
(* replaced by threads that share no lock).                                *)
(*                                                                         *)
(* The job queue enters as what JobQueue is shown to implement: the        *)
(* actions of PathGuard.  The pipeline enters as what Pipeline says of a   *)
(* run with if_changed: it reads the source, skips it, fails, or ends and  *)
(* records what it read.                                                   *)
(***************************************************************************)
EXTENDS Naturals, Sequences

CONSTANTS Paths,      \* the source files
          Workers,    \* the workers of the job queue
          Cleaners,   \* the tasks _on_file_deleted() can have created at once
          Contents,   \* what parses
          Broken,     \* what does not parse
          Missing,    \* no file; no entry
          MaxEdits    \* bound on the edits of the user

ASSUME NamesAssumption == /\ Broken \notin Contents /\ Missing \notin Contents
                          /\ Broken # Missing /\ Missing \notin Paths
                          /\ Workers \intersect Cleaners = {}
ASSUME BoundsAssumption == MaxEdits \in Nat

VARIABLES file,      \* the source files
          hash,      \* hashes.json
          index,     \* context.json
          watching,  \* the observer thread runs
          events,    \* callbacks it has posted to the loop
          pending, busy, closed,    \* the job queue, see PathGuard
          pc,        \* where each worker's _process_file() and each cleaner is
          subject,   \* the path a cleaner is for
          copy,      \* context.json as its thread has read and changed it
          snap,      \* the source as its run has read it
          running,   \* _running
          stopPc,    \* where stop() is
          edits,     \* edits of the user so far
          missed,    \* history: paths edited while nobody watched
          excused    \* history: paths whose entries may be wrong, see Cleaning and Merging

disk == <<file, hash, index>>
queue == <<pending, busy, closed>>
threads == <<pc, subject, copy, snap>>
life == <<running, stopPc>>
history == <<missed, excused>>
vars == <<disk, watching, events, queue, threads, life, edits, history>>

Queue == INSTANCE PathGuard

Actors == Workers \union Cleaners
Parses(c) == c \in Contents
Entries == Contents \union {Missing}
Unread == [p \in Paths |-> Missing]

Init == /\ file \in [Paths -> Contents \union {Missing}]
        /\ index = file
        /\ hash = [p \in Paths |-> Missing]
        /\ watching = FALSE /\ events = <<>>
        /\ Queue!Init
        /\ pc = [a \in Actors |-> "idle"]
        /\ subject = [k \in Cleaners |-> Missing]
        /\ copy = [a \in Actors |-> Unread]
        /\ snap = [w \in Workers |-> Missing]
        /\ running = FALSE /\ stopPc = "off"
        /\ edits = 0
        /\ missed = {} /\ excused = {}

Goto(a, l) == pc' = [pc EXCEPT ![a] = l]
Working(w, p) == w \in busy[p]

(* What gets in each other's way: a deletion and a run of the same path,   *)
(* and two threads that have read context.json at once.                    *)
Cleaning(p) == {k \in Cleaners : pc[k] # "idle" /\ subject[k] = p}
Merging == {a \in Actors : pc[a] = "merge"}

-----------------------------------------------------------------------------
(* The user and the observer thread. *)

Excuse(S, condition) == /\ excused' = IF condition THEN excused \union S ELSE excused
                        /\ UNCHANGED missed

(* watchdog's events, filtered and posted by call_soon_threadsafe().  What *)
(* happens while nobody watches is not made up for later.                  *)
Report(es, S) == /\ events' = IF watching THEN events \o es ELSE events
                 /\ missed' = IF watching THEN missed ELSE missed \union S

(* A save, in place or by renaming a temporary file.                       *)
Save(p, c) == /\ file[p] # c
              /\ file' = [file EXCEPT ![p] = c]
              /\ Report(<<[kind |-> "modified", path |-> p]>>, {p})

Delete(p) == /\ file[p] # Missing
             /\ file' = [file EXCEPT ![p] = Missing]
             /\ Report(<<[kind |-> "deleted", path |-> p]>>, {p})

(* on_moved(): the destination first, then the source.  Faulty variants:   *)
(* the event is passed on as it is; the destination is forgotten.          *)
MovedAsIs(p, q) == <<[kind |-> "moved", path |-> q]>>
MovedAwayOnly(p, q) == <<[kind |-> "deleted", path |-> p]>>
Moved(p, q) == <<[kind |-> "modified", path |-> q], [kind |-> "deleted", path |-> p]>>

Move(p, q) == /\ p # q /\ file[p] # Missing
              /\ file' = [file EXCEPT ![p] = Missing, ![q] = file[p]]
              /\ Report(Moved(p, q), {p, q})

Edit == /\ edits < MaxEdits
        /\ edits' = edits + 1
        /\ \/ \E p \in Paths, c \in Contents \union {Broken} : Save(p, c)
           \/ \E p \in Paths : Delete(p)
           \/ \E p, q \in Paths : Move(p, q)
        /\ UNCHANGED <<hash, index, watching, queue, threads, life, excused>>

(* The callback of a modification: JobQueue.submit().                      *)
OnModified == /\ events # <<>> /\ Head(events).kind = "modified"
              /\ events' = Tail(events)
              /\ \/ Queue!Change(Head(events).path)
                 \/ closed /\ UNCHANGED queue
              /\ UNCHANGED <<disk, watching, threads, life, edits, history>>

(* The callback of a deletion: _on_file_deleted() creates a task, which is *)
(* one cleaner as good as another.                                         *)
OnDeleted == LET p == Head(events).path
                 free == {k \in Cleaners : pc[k] = "idle"}
                 k == CHOOSE k \in free : TRUE
             IN  /\ events # <<>> /\ Head(events).kind = "deleted"
                 /\ free # {}
                 /\ events' = Tail(events)
                 /\ subject' = [subject EXCEPT ![k] = p]
                 /\ Goto(k, "remove")
                 /\ Excuse({p}, busy[p] # {} \/ Cleaning(p) # {})
                 /\ UNCHANGED <<disk, watching, queue, copy, snap, life, edits>>

-----------------------------------------------------------------------------
(* The read-modify-write of context.json, by workers and cleaners. *)

(* A thread reads context.json and changes its copy.                       *)
ReadIndex(a, p, entry) ==
    /\ copy' = [copy EXCEPT ![a] = [index EXCEPT ![p] = entry]]
    /\ Goto(a, "merge")
    /\ Excuse(Paths, Merging # {})

ReplaceIndex(a, next) == /\ pc[a] = "merge"
                         /\ index' = copy[a]
                         /\ copy' = [copy EXCEPT ![a] = Unread]
                         /\ Goto(a, next)

-----------------------------------------------------------------------------
(* _process_file(), one path at a time for each worker. *)

Take(w, p) == /\ Queue!Begin(w, p)
              /\ pc[w] = "idle"
              /\ Goto(w, "check")
              /\ Excuse({p}, Cleaning(p) # {})
              /\ UNCHANGED <<disk, watching, events, subject, copy, snap, life, edits>>

(* The handler returns or raises; the worker does not mind.  In a faulty   *)
(* variant it does.                                                        *)
FinishDies(w, p) == /\ Queue!End(w, p)
                    /\ Goto(w, "exited")
                    /\ snap' = [snap EXCEPT ![w] = Missing]
Finish(w, p) == /\ Queue!End(w, p)
                /\ Goto(w, "idle")
                /\ snap' = [snap EXCEPT ![w] = Missing]

(* is_file() and index_file().                                             *)
Check(w, p) == /\ Working(w, p) /\ pc[w] = "check"
               /\ \/ /\ Parses(file[p])
                     /\ Goto(w, "modify")
                     /\ UNCHANGED <<snap, queue>>
                  \/ /\ ~Parses(file[p])
                     /\ Finish(w, p)
               /\ UNCHANGED <<disk, watching, events, subject, copy, life, edits, history>>

(* walk_and_modify_json() parses once more, then reads context.json (one   *)
(* step: a save in between is reported and handled later).  It does not    *)
(* write what does not parse; its caller ignores what it returns.          *)
Modify(w, p) == /\ Working(w, p) /\ pc[w] = "modify"
                /\ \/ /\ Parses(file[p])
                      /\ ReadIndex(w, p, file[p])
                   \/ /\ ~Parses(file[p])
                      /\ Goto(w, "read")
                      /\ UNCHANGED <<copy, history>>
                /\ UNCHANGED <<disk, watching, events, queue, subject, snap, life, edits>>

Modified(w, p) == /\ Working(w, p)
                  /\ ReplaceIndex(w, "read")
                  /\ UNCHANGED <<file, hash, watching, events, queue, subject, snap, life, edits,
                                 history>>

(* run(if_changed=True) raises if there is no source, and skips what       *)
(* hashes.json has.                                                        *)
ReadSource(w, p) == /\ Working(w, p) /\ pc[w] = "read"
                    /\ \/ /\ file[p] # Missing
                          /\ snap' = [snap EXCEPT ![w] = file[p]]
                          /\ Goto(w, "compare")
                          /\ UNCHANGED queue
                       \/ /\ file[p] = Missing
                          /\ Finish(w, p)
                    /\ UNCHANGED <<disk, watching, events, subject, copy, life, edits, history>>

Compare(w, p) == /\ Working(w, p) /\ pc[w] = "compare"
                 /\ \/ /\ hash[p] # snap[w]
                       /\ Goto(w, "test")
                       /\ UNCHANGED <<snap, queue>>
                    \/ /\ hash[p] = snap[w]
                       /\ Finish(w, p)
                 /\ UNCHANGED <<disk, watching, events, subject, copy, life, edits, history>>

(* It ends and records what it read, or raises.                            *)
RunPipeline(w, p) == /\ Working(w, p) /\ pc[w] = "test"
                     /\ Finish(w, p)
                     /\ hash' \in {hash, [hash EXCEPT ![p] = snap[w]]}
                     /\ UNCHANGED <<file, index, watching, events, subject, copy, life, edits,
                                    history>>

-----------------------------------------------------------------------------
(* _async_file_deleted(). *)

RemoveHash(k) == /\ pc[k] = "remove"
                 /\ hash' = [hash EXCEPT ![subject[k]] = Missing]
                 /\ Goto(k, "delete")
                 /\ UNCHANGED <<file, index, watching, events, queue, subject, copy, snap, life,
                                edits, history>>

(* walk_and_delete_json() writes only if there is an entry.                *)
DeleteEntry(k) == /\ pc[k] = "delete"
                  /\ \/ /\ index[subject[k]] # Missing
                        /\ ReadIndex(k, subject[k], Missing)
                        /\ UNCHANGED subject
                     \/ /\ index[subject[k]] = Missing
                        /\ Goto(k, "idle")
                        /\ subject' = [subject EXCEPT ![k] = Missing]
                        /\ UNCHANGED <<copy, history>>
                  /\ UNCHANGED <<disk, watching, events, queue, snap, life, edits>>

Deleted(k) == /\ ReplaceIndex(k, "idle")
              /\ subject' = [subject EXCEPT ![k] = Missing]
              /\ UNCHANGED <<file, hash, watching, events, queue, snap, life, edits, history>>
-----------------------------------------------------------------------------
(* start() and stop(). *)

(* start() looks at _running only; but whoever called stop() waits for its *)
(* end (run_daemon(), watch_cmd()), so nobody starts while it is under way.*)
Start == /\ ~running /\ stopPc \in {"off", "done"}
         /\ running' = TRUE /\ watching' = TRUE /\ stopPc' = "off"
         /\ UNCHANGED <<disk, events, queue, threads, edits, history>>

Stop == /\ running
        /\ running' = FALSE /\ stopPc' = "join"
        /\ UNCHANGED <<disk, watching, events, queue, threads, edits, history>>

ObserverEnds == /\ stopPc = "join" /\ watching
                /\ watching' = FALSE
                /\ UNCHANGED <<disk, events, queue, threads, life, edits, history>>

(* Faulty variant of Joined: it does not go through the loop.              *)
JoinedAtOnce == /\ stopPc = "join" /\ ~watching
                /\ stopPc' = "gather"
                /\ UNCHANGED <<disk, watching, events, queue, threads, running, edits, history>>

(* The end of join() comes back to the loop behind what the observer has   *)
(* posted.                                                                 *)
Joined == /\ stopPc = "join" /\ ~watching /\ events = <<>>
          /\ stopPc' = "gather"
          /\ UNCHANGED <<disk, watching, events, queue, threads, running, edits, history>>

(* The cleaners have ended; JobQueue.stop() begins, and drops what is      *)
(* pending.                                                                *)
Gathered == /\ stopPc = "gather"
            /\ \A k \in Cleaners : pc[k] = "idle"
            /\ stopPc' = "queue"
            /\ pending' = {} /\ Queue!Close
            /\ UNCHANGED <<disk, watching, events, threads, running, edits, history>>

(* The worker is cancelled.  A thread it was waiting for goes on: it still *)
(* replaces context.json, and may still record the hash.                   *)
Interrupt(w, p) == /\ stopPc = "queue"
                   /\ pending' = pending /\ Queue!Wind(w, p)
                   /\ Goto(w, IF pc[w] = "merge" THEN "merge" ELSE "exited")
                   /\ \/ UNCHANGED hash
                      \/ pc[w] = "test" /\ hash' = [hash EXCEPT ![p] = snap[w]]
                   /\ snap' = [snap EXCEPT ![w] = Missing]
                   /\ UNCHANGED <<file, index, watching, events, subject, copy, life, edits,
                                  history>>

ThreadEnds(w) == /\ closed /\ \A p \in Paths : ~Working(w, p)
                 /\ ReplaceIndex(w, "exited")
                 /\ UNCHANGED <<file, hash, watching, events, queue, subject, snap, life, edits,
                                history>>

QueueStopped == /\ stopPc = "queue" /\ \A p \in Paths : busy[p] = {}
                /\ stopPc' = "done"
                /\ UNCHANGED <<disk, watching, events, queue, threads, running, edits, history>>

Process(w, p) == \/ Check(w, p) \/ Modify(w, p) \/ Modified(w, p) \/ ReadSource(w, p)
                 \/ Compare(w, p) \/ RunPipeline(w, p)

CleanUp(k) == RemoveHash(k) \/ DeleteEntry(k) \/ Deleted(k)

Stopping == ObserverEnds \/ Joined \/ Gathered \/ QueueStopped

Next == \/ Edit \/ OnModified \/ OnDeleted
        \/ \E w \in Workers, p \in Paths : Take(w, p) \/ Process(w, p) \/ Interrupt(w, p)
        \/ \E w \in Workers : ThreadEnds(w)
        \/ \E k \in Cleaners : CleanUp(k)
        \/ Start \/ Stop \/ Stopping

Spec == Init /\ [][Next]_vars

(* The event loop runs its callbacks, threads and pipelines end, and the   *)
(* job queue handles every change (ChangesAreHandled of JobQueue).  Nobody *)
(* has to edit, start or stop.                                             *)
Covers(p) == \E w \in Workers : Take(w, p) /\ p \notin pending'

FairSpec == /\ Spec
            /\ WF_vars(OnModified) /\ WF_vars(OnDeleted) /\ WF_vars(Stopping)
            /\ \A p \in Paths : SF_vars(Covers(p))
            /\ \A w \in Workers : WF_vars(ThreadEnds(w))
            /\ \A w \in Workers, p \in Paths : WF_vars(Process(w, p) \/ Interrupt(w, p))
            /\ \A k \in Cleaners : WF_vars(CleanUp(k))

-----------------------------------------------------------------------------
(* Properties. *)

TypeOK == /\ file \in [Paths -> Entries \union {Broken}]
          /\ hash \in [Paths -> Entries \union {Broken}]
          /\ index \in [Paths -> Entries]
          /\ watching \in BOOLEAN /\ running \in BOOLEAN /\ closed \in BOOLEAN
          /\ events \in Seq([kind : {"modified", "deleted"}, path : Paths])
          /\ pending \subseteq Paths
          /\ busy \in [Paths -> SUBSET Workers]
          /\ pc \in [Actors -> {"idle", "check", "modify", "merge", "read", "compare", "test",
                                "remove", "delete", "exited"}]
          /\ subject \in [Cleaners -> Paths \union {Missing}]
          /\ copy \in [Actors -> [Paths -> Entries]]
          /\ snap \in [Workers -> Entries \union {Broken}]
          /\ stopPc \in {"off", "join", "gather", "queue", "done"}
          /\ edits \in 0 .. MaxEdits
          /\ missed \subseteq Paths /\ excused \subseteq Paths

(* Nothing is left to do.                                                  *)
Settled == /\ events = <<>> /\ pending = {}
           /\ \A p \in Paths : busy[p] = {}
           /\ \A k \in Cleaners : pc[k] = "idle"

(* What hashes.json and context.json should say of p when all is done: a   *)
(* deleted file has left both, and a file that parses is indexed as it is. *)
Accounted(p) == /\ file[p] = Missing => hash[p] = Missing /\ index[p] = Missing
                /\ Parses(file[p]) => index[p] = file[p]

(* "Cleaning up removed source files from the change tracker and AST       *)
(* index", and the index of what was saved.                                *)
SettledIsClean ==
    Settled /\ watching /\ ~closed => \A p \in Paths \ missed : Accounted(p)

(* So it is for every path whose deletion did not overlap with a run of it,*)
(* as long as no two threads were changing context.json at once: saves,    *)
(* moves, deletions and runs in any other order leave nothing behind.      *)
ApartIsClean ==
    Settled /\ watching /\ ~closed => \A p \in Paths \ (missed \union excused) : Accounted(p)

(* "Clean shutdown that stops the observer thread and drains/stops the job *)
(* queue": when stop() has returned no callback is left that could create  *)
(* a cleaner, no cleaner is at work and no worker is.                      *)
StoppedIsSilent == stopPc = "done" => Settled /\ ~watching

(* Whatever is reported is handled in the end, if nobody stops the watcher.*)
Settles == (watching /\ running) ~> (Settled \/ ~running)
=============================================================================
