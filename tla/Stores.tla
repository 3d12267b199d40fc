------------------------------- MODULE Stores -------------------------------
(***************************************************************************)
(* The files under .ghost that outlive a run: usage.json and the history   *)
(* of each source (history.py), and hashes.json (change_tracker.py).  All  *)
(* are read, changed and replaced by a rename; most of it behind a lock    *)
(* that only the threads of one process share, while a daemon and the      *)
(* commands are processes of their own.  Snapshots are written in place.   *)
(***************************************************************************)
EXTENDS Naturals, Sequences, FiniteSets

CONSTANTS Processes,  \* a daemon, commands
          Threads,    \* their threads, asyncio.to_thread()'s
          home,       \* the process of each thread
          Files,      \* source files
          Codes,      \* texts of tests and sources
          Attempts,   \* attempt numbers
          Missing,    \* no such file; no entry
          Torn,       \* a file that is open and not yet written
          Nobody,     \* the lock is free
          MaxOps      \* bound on the operations begun

ASSUME NamesAssumption == /\ Missing \notin Codes /\ Torn \notin Codes /\ Missing # Torn
                          /\ Nobody \notin Threads /\ Missing \notin Attempts
                          /\ "usage" \notin Files /\ "hashes" \notin Files
ASSUME HomeAssumption == home \in [Threads -> Processes]
ASSUME BoundsAssumption == MaxOps \in Nat

VARIABLES store,     \* usage.json, hashes.json and the meta.json of each file
          snap,      \* attempt_<n>.py of each file
          target,    \* the test file of each source, as rollback() leaves it
          lock,      \* _lock of each tracker in each process
          pc, job,   \* where each thread is, and in what operation
          copy,      \* what it has read and changed
          ops,       \* operations begun
          ledger,    \* history: what the stores would be were every operation atomic
          collided,  \* history: stores whose updates no lock kept apart, see Apart
          loose      \* history: snapshots whose recording was cut short or overtaken

disk == <<store, snap, target>>
threads == <<lock, pc, job, copy, ops>>
history == <<ledger, collided, loose>>
vars == <<disk, threads, history>>

Names == {"usage", "hashes"} \union Files
Trackers == {"usage", "hashes", "history"}
TrackerOf(s) == IF s \in Files THEN "history" ELSE s

Jobs == [op : {"attempt"}, file : Files, attempt : Attempts, code : Codes]
          \union [op : {"call"}, heal : BOOLEAN] \union [op : {"success"}]
          \union [op : {"mark"}, file : Files, code : Codes]
          \union [op : {"remove"}, file : Files]
          \union [op : {"rollback"}, file : Files, attempt : Attempts \union {Missing}]
NoJob == [op |-> "none"]

(* The store that an operation changes, and what it makes of it.  Tokens   *)
(* are counted with the requests.                                          *)
StoreOf(j) == CASE j.op \in {"call", "success"} -> "usage"
                [] j.op \in {"mark", "remove"} -> "hashes"
                [] OTHER -> j.file

Counted(u, j) == [u EXCEPT !.requests = @ + 1, !.heals = IF j.heal THEN @ + 1 ELSE @]
Healed(u) == [u EXCEPT !.healed = @ + 1]
(* faulty variant: a record is a record of an attempt *)
RecordedAsIs(records, j) == Append(records, j)
(* faulty variant: an attempt that has a record gets no other *)
RecordedOnce(records, j) ==
    IF \E i \in DOMAIN records : records[i].attempt = j.attempt THEN records
    ELSE Append(records, [attempt |-> j.attempt, code |-> j.code])
Recorded(records, j) == Append(records, [attempt |-> j.attempt, code |-> j.code])

Apply(j, x) == CASE j.op = "call" -> Counted(x, j)
                 [] j.op = "success" -> Healed(x)
                 [] j.op = "mark" -> [x EXCEPT ![j.file] = j.code]
                 [] j.op = "remove" -> [x EXCEPT ![j.file] = Missing]
                 [] j.op = "attempt" -> Recorded(x, j)
                 [] OTHER -> x

Empty == [s \in Names |->
            CASE s = "usage" -> [requests |-> 0, heals |-> 0, healed |-> 0]
              [] s = "hashes" -> [f \in Files |-> Missing]
              [] OTHER -> <<>>]

Init == /\ store = Empty /\ ledger = Empty
        /\ snap = [f \in Files |-> [n \in Attempts |-> Missing]]
        /\ target = [f \in Files |-> Missing]
        /\ lock = [p \in Processes |-> [k \in Trackers |-> Nobody]]
        /\ pc = [t \in Threads |-> "idle"]
        /\ job = [t \in Threads |-> NoJob]
        /\ copy = [t \in Threads |-> Missing]
        /\ ops = 0
        /\ collided = {} /\ loose = {}

Goto(t, l) == pc' = [pc EXCEPT ![t] = l]
Return(t) == /\ Goto(t, "idle")
             /\ job' = [job EXCEPT ![t] = NoJob]
             /\ copy' = [copy EXCEPT ![t] = Missing]

(* record_success() takes no lock; rollback() changes no store.            *)
Locked(j) == j.op # "success"
(* faulty variant: the lock is looked for and found free *)
LockFree(t, j) == Nobody
LockOf(t, j) == lock[home[t]][TrackerOf(StoreOf(j))]
Acquired(t, j) == [lock EXCEPT ![home[t]][TrackerOf(StoreOf(j))] = t]
Released(t, j) == [lock EXCEPT ![home[t]][TrackerOf(StoreOf(j))] = Nobody]

(* Two updates that the lock of a process keeps apart.                     *)
Apart(t, u) == home[t] = home[u] /\ Locked(job[t]) /\ Locked(job[u])
Updating(s) == {t \in Threads : pc[t] = "replace" /\ StoreOf(job[t]) = s}

Recording(f, n) == {t \in Threads : /\ pc[t] \in {"write", "read", "replace"}
                                    /\ job[t].op = "attempt"
                                    /\ job[t].file = f /\ job[t].attempt = n}
Loosened(T) == loose \union {<<job[t].file, job[t].attempt>> :
                               t \in {u \in T : job[u].op = "attempt"
                                                /\ pc[u] \in {"write", "read", "replace"}}}

-----------------------------------------------------------------------------
(* Calls, from the pipeline and the commands. *)

FirstStep(j) == CASE j.op = "attempt" -> "open"
                  [] j.op = "rollback" -> "look"
                  [] OTHER -> "read"

Begin(t, j) == /\ pc[t] = "idle" /\ ops < MaxOps
               /\ ops' = ops + 1
               /\ job' = [job EXCEPT ![t] = j]
               /\ Goto(t, FirstStep(j))
               /\ UNCHANGED <<disk, lock, copy, history>>

(* record_attempt(): write_text() opens the snapshot, which empties it,    *)
(* then writes; no lock is held.                                           *)
OpenSnapshot(t) ==
    LET f == job[t].file n == job[t].attempt
    IN  /\ pc[t] = "open"
        /\ snap' = [snap EXCEPT ![f][n] = Torn]
        /\ Goto(t, "write")
        /\ loose' = IF Recording(f, n) = {} THEN loose ELSE loose \union {<<f, n>>}
        /\ UNCHANGED <<store, target, lock, job, copy, ops, ledger, collided>>

WriteSnapshot(t) == /\ pc[t] = "write"
                    /\ snap' = [snap EXCEPT ![job[t].file][job[t].attempt] = job[t].code]
                    /\ Goto(t, "read")
                    /\ UNCHANGED <<store, target, lock, job, copy, ops, history>>

(* The lock is taken and the store is read.  remove() looks before it      *)
(* writes.                                                                 *)
ReadStore(t) ==
    LET j == job[t] s == StoreOf(j)
    IN  /\ pc[t] = "read"
        /\ Locked(j) => LockOf(t, j) = Nobody
        /\ \/ /\ j.op = "remove" /\ store[s][j.file] = Missing
              /\ Return(t)
              /\ UNCHANGED <<lock, collided>>
           \/ /\ j.op = "remove" => store[s][j.file] # Missing
              /\ copy' = [copy EXCEPT ![t] = Apply(j, store[s])]
              /\ lock' = IF Locked(j) THEN Acquired(t, j) ELSE lock
              /\ collided' = IF \A u \in Updating(s) : Apart(t, u)
                             THEN collided ELSE collided \union {s}
              /\ Goto(t, "replace")
              /\ UNCHANGED job
        /\ UNCHANGED <<disk, ops, ledger, loose>>

Release(t) == lock' = IF Locked(job[t]) THEN Released(t, job[t]) ELSE lock

(* The temporary file is renamed, and the lock released.                   *)
ReplaceStore(t) ==
    LET s == StoreOf(job[t])
    IN  /\ pc[t] = "replace"
        /\ store' = [store EXCEPT ![s] = copy[t]]
        /\ ledger' = [ledger EXCEPT ![s] = Apply(job[t], @)]
        /\ Release(t) /\ Return(t)
        /\ UNCHANGED <<snap, target, ops, collided, loose>>

(* A write fails.  The error is suppressed (usage) or raised; either way   *)
(* the lock is released and the store is as it was.                        *)
WriteFails(t) == /\ pc[t] \in {"write", "replace", "restore"}
                 /\ \/ pc[t] = "replace" /\ Release(t)
                    \/ pc[t] # "replace" /\ UNCHANGED lock
                 /\ loose' = Loosened({t})
                 /\ Return(t)
                 /\ UNCHANGED <<disk, ops, ledger, collided>>

-----------------------------------------------------------------------------
(* rollback(). *)

(* Where the records are that rollback() can mean, those of the attempt or *)
(* all, and the first of them.                                             *)
Matching(records, n) == {i \in DOMAIN records : n \in {records[i].attempt, Missing}}
FirstMatch(records, n) ==
    records[CHOOSE i \in Matching(records, n) : \A j \in Matching(records, n) : i <= j]

(* get_history() and the choice of the first record.                       *)
ChooseRecord(t) ==
    LET records == store[job[t].file] n == job[t].attempt
    IN  /\ pc[t] = "look"
        /\ \/ /\ Matching(records, n) = {}
              /\ Return(t)
           \/ /\ Matching(records, n) # {}
              /\ job' = [job EXCEPT ![t].attempt = FirstMatch(records, n).attempt]
              /\ Goto(t, "load")
              /\ UNCHANGED copy
        /\ UNCHANGED <<disk, lock, ops, history>>

(* The snapshot is read, and the test file opened.                         *)
LoadSnapshot(t) == LET j == job[t]
                   IN  /\ pc[t] = "load"
                       /\ copy' = [copy EXCEPT ![t] = snap[j.file][j.attempt]]
                       /\ target' = [target EXCEPT ![j.file] = Torn]
                       /\ Goto(t, "restore")
                       /\ UNCHANGED <<store, snap, lock, job, ops, history>>

RestoreTest(t) == /\ pc[t] = "restore"
                  /\ target' = [target EXCEPT ![job[t].file] = copy[t]]
                  /\ Return(t)
                  /\ UNCHANGED <<store, snap, lock, ops, history>>

(* A process dies, and may be started again.                               *)
Crash(p) ==
    LET mine == {t \in Threads : home[t] = p}
    IN  /\ \E t \in mine : pc[t] # "idle"
        /\ pc' = [t \in Threads |-> IF t \in mine THEN "idle" ELSE pc[t]]
        /\ job' = [t \in Threads |-> IF t \in mine THEN NoJob ELSE job[t]]
        /\ copy' = [t \in Threads |-> IF t \in mine THEN Missing ELSE copy[t]]
        /\ lock' = [lock EXCEPT ![p] = [k \in Trackers |-> Nobody]]
        /\ loose' = Loosened(mine)
        /\ UNCHANGED <<disk, ops, ledger, collided>>

Step(t) == \/ OpenSnapshot(t) \/ WriteSnapshot(t) \/ ReadStore(t) \/ ReplaceStore(t)
           \/ ChooseRecord(t) \/ LoadSnapshot(t) \/ RestoreTest(t)

Next == \/ \E t \in Threads : Step(t) \/ WriteFails(t) \/ \E j \in Jobs : Begin(t, j)
        \/ \E p \in Processes : Crash(p)

Spec == Init /\ [][Next]_vars

-----------------------------------------------------------------------------
(* Properties. *)

Usage == [requests : Nat, heals : Nat, healed : Nat]
Records == Seq([attempt : Attempts, code : Codes])
Hashes == [Files -> Codes \union {Missing}]
Texts == Codes \union {Missing, Torn}
WellFormed(s, x) == CASE s = "usage" -> x \in Usage
                      [] s = "hashes" -> x \in Hashes
                      [] OTHER -> x \in Records

TypeOK == /\ DOMAIN store = Names /\ \A s \in Names : WellFormed(s, store[s])
          /\ DOMAIN ledger = Names /\ \A s \in Names : WellFormed(s, ledger[s])
          /\ snap \in [Files -> [Attempts -> Texts]]
          /\ target \in [Files -> Texts]
          /\ lock \in [Processes -> [Trackers -> Threads \union {Nobody}]]
          /\ pc \in [Threads -> {"idle", "open", "write", "read", "replace", "look", "load",
                                 "restore"}]
          /\ job \in [Threads -> Jobs \union {NoJob}]
          /\ DOMAIN copy = Threads
          /\ \A t \in Threads :
                CASE pc[t] = "replace" -> WellFormed(StoreOf(job[t]), copy[t])
                  [] pc[t] = "restore" -> copy[t] \in Texts
                  [] OTHER -> copy[t] = Missing
          /\ ops \in 0 .. MaxOps
          /\ collided \subseteq Names
          /\ loose \subseteq Files \X Attempts

(* "Concurrent record_attempt and record_call invocations must be          *)
(* race-free" (test_chaos_edge_cases.py), for all that happens to a store: *)
(* it holds every update that was ever written to it, unless two processes,*)
(* or record_success() and another call, were in it at the same time.      *)
(* Whatever else the threads of a process do at once, fail or crash in,    *)
(* nothing is lost and nothing counted twice.                              *)
LocksSuffice == \A s \in Names \ collided : store[s] = ledger[s]

(* The last record of an attempt was made with this text, or there is none *)
(* of either.                                                              *)
LastTells(records, n, text) ==
    LET found == Matching(records, n)
    IN  \/ found = {} /\ text = Missing
        \/ \E i \in found : records[i].code = text /\ \A j \in found : j <= i

(* The snapshots and meta.json, two files that no lock covers together,    *)
(* tell the same story: when nobody is recording it, a snapshot is the text*)
(* of the last record of its attempt, unless a recording of it was cut     *)
(* short or overtaken by another, or its record was lost.                  *)
SnapshotsMatch ==
    \A f \in Files \ collided, n \in Attempts :
        Recording(f, n) = {} /\ <<f, n>> \notin loose => LastTells(store[f], n, snap[f][n])

(* "If *attempt* is None, the earliest recorded attempt (attempt 0) is     *)
(* restored", and with a number the first record of that number: so it     *)
(* should be at least when nothing was cut short, overtaken or lost.       *)
RestoresEarliest ==
    \A t \in Threads :
        LET f == job[t].file n == job[t].attempt
        IN  pc[t] = "restore" /\ f \notin collided /\ Recording(f, n) = {} /\ <<f, n>> \notin loose
              => copy[t] \in {Torn, FirstMatch(store[f], n).code}
=============================================================================
