---------------------------- MODULE StoresProofs ----------------------------
(***************************************************************************)
(* Proofs about Stores, for any processes, threads, files and operations.  *)
(*                                                                         *)
(* What a locked update has read stays true until it is written, because   *)
(* the lock of its process keeps the others of that process out, and an    *)
(* update of another process, or one without a lock, marks the store as    *)
(* collided.  So there is at most one update in a store that has not       *)
(* collided, and what it will write is made from what the store holds.     *)
(***************************************************************************)
EXTENDS Stores, WellFoundedInduction, TLAPS

Steps == {"idle", "open", "write", "read", "replace", "look", "load", "restore"}

Shape == /\ DOMAIN store = Names /\ DOMAIN ledger = Names
         /\ lock \in [Processes -> [Trackers -> Threads \union {Nobody}]]
         /\ pc \in [Threads -> Steps]
         /\ DOMAIN job = Threads /\ DOMAIN copy = Threads
         /\ \A t \in Threads : pc[t] \in {"open", "write", "read", "replace"} =>
                                 StoreOf(job[t]) \in Names

Place(j) == TrackerOf(StoreOf(j))
LocksHeld == \A t \in Threads : pc[t] = "replace" /\ Locked(job[t]) =>
                                   lock[home[t]][Place(job[t])] = t

SoleUpdate == \A s \in Names \ collided :
                 /\ \A t \in Updating(s) : copy[t] = Apply(job[t], store[s])
                 /\ \A t, u \in Updating(s) : t = u

IInv == Shape /\ LocksHeld /\ SoleUpdate /\ LocksSuffice

-----------------------------------------------------------------------------
(* Lemmas about the places of the locks and the steps that change no store.*)

LEMMA TrackerType == ASSUME NEW s \in Names PROVE TrackerOf(s) \in Trackers
  BY DEF Names, TrackerOf, Trackers

LEMMA StoreType == ASSUME NEW j \in Jobs PROVE StoreOf(j) \in Names
  BY DEF Jobs, StoreOf, Names

(* Acquiring or releasing a lock sets it and no other.                     *)
LEMMA SetLock ==
    ASSUME Shape, NEW t \in Threads, NEW s \in Names, NEW v \in Threads \union {Nobody},
           lock' = [lock EXCEPT ![home[t]][TrackerOf(s)] = v]
    PROVE  /\ lock' \in [Processes -> [Trackers -> Threads \union {Nobody}]]
           /\ lock'[home[t]][TrackerOf(s)] = v
           /\ \A p \in Processes, k \in Trackers :
                 p # home[t] \/ k # TrackerOf(s) => lock'[p][k] = lock[p][k]
  <1>1. home[t] \in Processes /\ TrackerOf(s) \in Trackers
    BY HomeAssumption, TrackerType
  <1> QED
    BY <1>1 DEF Shape

(* A step that writes no store and begins no update, and leaves the locks  *)
(* of the updates alone.                                                   *)
LEMMA AsideStep ==
    ASSUME IInv, Shape', UNCHANGED <<store, ledger, collided>>,
           \A u \in Threads : pc'[u] = "replace" =>
              /\ pc[u] = "replace" /\ job'[u] = job[u] /\ copy'[u] = copy[u]
              /\ Locked(job[u]) => lock'[home[u]][Place(job[u])] = lock[home[u]][Place(job[u])]
    PROVE  IInv'
  <1>1. LocksHeld'
    <2> SUFFICES ASSUME NEW u \in Threads, pc'[u] = "replace", Locked(job'[u])
                 PROVE  lock'[home[u]][Place(job'[u])] = u
      BY DEF LocksHeld, Locked, Place, TrackerOf, StoreOf
    <2>1. pc[u] = "replace" /\ job'[u] = job[u]
      OBVIOUS
    <2> QED
      BY <2>1 DEF IInv, LocksHeld
  <1>2. \A s \in Names : Updating(s)' \subseteq Updating(s)
    BY DEF Updating
  <1>3. SoleUpdate'
    <2> SUFFICES ASSUME NEW s \in Names \ collided
                 PROVE  /\ \A t \in Updating(s)' : copy'[t] = Apply(job'[t], store[s])
                        /\ \A t, u \in Updating(s)' : t = u
      BY DEF SoleUpdate, Apply, Updating
    <2>1. \A t \in Updating(s)' : t \in Updating(s) /\ copy'[t] = copy[t] /\ job'[t] = job[t]
      BY <1>2 DEF Updating
    <2>2. /\ \A t \in Updating(s) : copy[t] = Apply(job[t], store[s])
          /\ \A t, u \in Updating(s) : t = u
      BY DEF IInv, SoleUpdate
    <2> QED
      BY <2>1, <2>2
  <1>4. LocksSuffice'
    BY DEF IInv, LocksSuffice
  <1> QED
    BY <1>1, <1>3, <1>4 DEF IInv

(* A thread that ends its update, or fails in it, releases its own lock.   *)
LEMMA ReleaseOwn ==
    ASSUME IInv, NEW t \in Threads, pc[t] = "replace", Release(t)
    PROVE  /\ lock' \in [Processes -> [Trackers -> Threads \union {Nobody}]]
           /\ \A u \in Threads \ {t} : pc[u] = "replace" /\ Locked(job[u]) =>
                 lock'[home[u]][Place(job[u])] = u
  <1> DEFINE s == StoreOf(job[t])
  <1>1. s \in Names
    BY DEF IInv, Shape
  <1>2. \A u \in Threads : pc[u] = "replace" /\ Locked(job[u]) =>
           lock[home[u]][Place(job[u])] = u
    BY DEF IInv, LocksHeld
  <1>3. CASE ~Locked(job[t])
    BY <1>2, <1>3 DEF IInv, Shape, Release
  <1>4. CASE Locked(job[t])
    <2>1. lock' = [lock EXCEPT ![home[t]][TrackerOf(s)] = Nobody]
      BY <1>4 DEF Release, Released
    <2>2. /\ lock' \in [Processes -> [Trackers -> Threads \union {Nobody}]]
          /\ \A p \in Processes, k \in Trackers :
                p # home[t] \/ k # TrackerOf(s) => lock'[p][k] = lock[p][k]
      BY <1>1, <2>1, SetLock DEF IInv
    <2>3. ASSUME NEW u \in Threads \ {t}, pc[u] = "replace", Locked(job[u])
          PROVE  lock'[home[u]][Place(job[u])] = u
      <3>1. home[u] \in Processes /\ Place(job[u]) \in Trackers
        BY <2>3, HomeAssumption, TrackerType DEF IInv, Shape, Place
      <3>2. /\ lock[home[u]][Place(job[u])] = u
            /\ lock[home[t]][TrackerOf(s)] = t
        BY <1>2, <1>4, <2>3 DEF Place
      <3>3. home[u] # home[t] \/ Place(job[u]) # TrackerOf(s)
        BY <2>3, <3>2
      <3> QED
        BY <2>2, <3>1, <3>2, <3>3
    <2> QED
      BY <2>2, <2>3
  <1> QED
    BY <1>3, <1>4
-----------------------------------------------------------------------------
(* The steps. *)

LEMMA InitInv == Init => IInv
  <1> SUFFICES ASSUME Init PROVE IInv
    OBVIOUS
  <1>1. Shape
    BY DEF Init, Shape, Empty, Steps
  <1>2. LocksHeld /\ SoleUpdate
    BY DEF Init, LocksHeld, SoleUpdate, Updating
  <1>3. LocksSuffice
    BY DEF Init, LocksSuffice
  <1> QED
    BY <1>1, <1>2, <1>3 DEF IInv

LEMMA BeginStep == ASSUME IInv, NEW t \in Threads, NEW j \in Jobs, Begin(t, j) PROVE IInv'
  <1>1. /\ pc[t] = "idle" /\ job' = [job EXCEPT ![t] = j]
        /\ pc' = [pc EXCEPT ![t] = FirstStep(j)]
        /\ UNCHANGED <<store, lock, copy, ledger, collided>>
    BY DEF Begin, Goto, disk, history
  <1>2. FirstStep(j) \in Steps \ {"replace"}
    BY DEF FirstStep, Steps
  <1>3. Shape'
    BY <1>1, <1>2, StoreType DEF IInv, Shape
  <1>4. \A u \in Threads : pc'[u] = "replace" => u # t /\ pc[u] = "replace" /\ job'[u] = job[u]
    BY <1>1, <1>2 DEF IInv, Shape
  <1>5. \A u \in Threads \ {t} : copy'[u] = copy[u]
    BY <1>1
  <1> QED
    BY <1>1, <1>3, <1>4, <1>5, AsideStep

(* The lock is taken, and with it the update is alone in its store, unless *)
(* the store has collided.                                                 *)
LEMMA ReadStep == ASSUME IInv, NEW t \in Threads, ReadStore(t) PROVE IInv'
  <1> DEFINE j == job[t]
             s == StoreOf(j)
  <1>1. /\ pc[t] = "read" /\ s \in Names /\ (Locked(j) => LockOf(t, j) = Nobody)
        /\ UNCHANGED <<store, ledger>>
    BY DEF ReadStore, disk, IInv, Shape
  <1>2. CASE Return(t) /\ UNCHANGED <<lock, collided>>
    <2>1. /\ pc' = [pc EXCEPT ![t] = "idle"] /\ job' = [job EXCEPT ![t] = NoJob]
          /\ copy' = [copy EXCEPT ![t] = Missing]
      BY <1>2 DEF Return, Goto
    <2>2. Shape'
      BY <1>1, <1>2, <2>1 DEF IInv, Shape, Steps
    <2> QED
      BY <1>1, <1>2, <2>1, <2>2, AsideStep DEF IInv, Shape
  <1>3. CASE /\ copy' = [copy EXCEPT ![t] = Apply(j, store[s])]
             /\ lock' = IF Locked(j) THEN Acquired(t, j) ELSE lock
             /\ collided' = IF \A u \in Updating(s) : Apart(t, u)
                            THEN collided ELSE collided \union {s}
             /\ Goto(t, "replace")
             /\ UNCHANGED job
    <2>1. pc' = [pc EXCEPT ![t] = "replace"] /\ job' = job
      BY <1>3 DEF Goto
    <2>2. /\ lock' \in [Processes -> [Trackers -> Threads \union {Nobody}]]
          /\ Locked(j) => lock'[home[t]][TrackerOf(s)] = t
          /\ \A p \in Processes, k \in Trackers :
                ~Locked(j) \/ p # home[t] \/ k # TrackerOf(s) => lock'[p][k] = lock[p][k]
      <3>1. CASE Locked(j)
        <4>1. lock' = [lock EXCEPT ![home[t]][TrackerOf(s)] = t]
          BY <1>3, <3>1 DEF Acquired
        <4>2. /\ lock' \in [Processes -> [Trackers -> Threads \union {Nobody}]]
              /\ lock'[home[t]][TrackerOf(s)] = t
              /\ \A p \in Processes, k \in Trackers :
                    p # home[t] \/ k # TrackerOf(s) => lock'[p][k] = lock[p][k]
          <5> HIDE DEF s
          <5> QED
            BY <1>1, <4>1, SetLock DEF IInv
        <4> QED
          BY <3>1, <4>2
      <3>2. CASE ~Locked(j)
        BY <1>3, <3>2 DEF IInv, Shape
      <3> QED
        BY <3>1, <3>2
    <2>3. Shape'
      BY <1>1, <1>3, <2>1, <2>2 DEF IInv, Shape, Steps
    <2>4. ASSUME NEW u \in Threads \ {t}, pc[u] = "replace", Locked(job[u])
          PROVE  /\ lock[home[u]][Place(job[u])] = u
                 /\ lock'[home[u]][Place(job[u])] = u
      <3>1. lock[home[u]][Place(job[u])] = u
        BY <2>4 DEF IInv, LocksHeld
      <3>2. home[u] \in Processes /\ Place(job[u]) \in Trackers
        BY <2>4, HomeAssumption, TrackerType DEF IInv, Shape, Place
      <3>3. ~Locked(j) \/ home[u] # home[t] \/ Place(job[u]) # TrackerOf(s)
        BY <1>1, <2>4, <3>1, NamesAssumption DEF LockOf, Place
      <3> QED
        BY <2>2, <3>1, <3>2, <3>3
    <2>5. LocksHeld'
      <3> SUFFICES ASSUME NEW u \in Threads, pc'[u] = "replace", Locked(job[u])
                   PROVE  lock'[home[u]][Place(job[u])] = u
        BY <2>1 DEF LocksHeld, Place, TrackerOf, StoreOf, Locked
      <3>1. CASE u = t
        BY <2>2, <3>1 DEF Place
      <3>2. CASE u # t
        BY <2>1, <2>4, <3>2 DEF IInv, Shape
      <3> QED
        BY <3>1, <3>2
    <2>6. s \notin collided' => Updating(s) = {} /\ collided' = collided
      <3> SUFFICES ASSUME s \notin collided' PROVE Updating(s) = {} /\ collided' = collided
        OBVIOUS
      <3>1. collided' = collided /\ \A u \in Updating(s) : Apart(t, u)
        BY <1>3
      <3>2. ASSUME NEW u \in Updating(s) PROVE FALSE
        <4>1. /\ u \in Threads \ {t} /\ pc[u] = "replace" /\ StoreOf(job[u]) = s
              /\ home[u] = home[t] /\ Locked(job[u]) /\ Locked(j)
          BY <1>1, <3>1, <3>2 DEF Updating, Apart
        <4>2. lock[home[t]][TrackerOf(s)] = u
          BY <2>4, <4>1 DEF Place
        <4> QED
          BY <1>1, <4>1, <4>2, NamesAssumption DEF LockOf, Place
      <3> QED
        BY <3>1, <3>2
    <2>7. collided \subseteq collided'
      BY <1>3
    <2>8. SoleUpdate'
      <3> SUFFICES ASSUME NEW r \in Names \ collided'
                   PROVE  /\ \A u \in Updating(r)' : copy'[u] = Apply(job[u], store[r])
                          /\ \A u, v \in Updating(r)' : u = v
        BY <1>1, <2>1 DEF SoleUpdate, Apply, Updating
      <3>1. /\ \A u \in Updating(r) : copy[u] = Apply(job[u], store[r])
            /\ \A u, v \in Updating(r) : u = v
        BY <2>7 DEF IInv, SoleUpdate
      <3>2. CASE r = s
        <4>1. Updating(r) = {}
          BY <2>6, <3>2
        <4>2. Updating(r)' \subseteq {t}
          BY <2>1, <4>1 DEF Updating, IInv, Shape
        <4>3. copy'[t] = Apply(j, store[r])
          BY <1>3, <3>2 DEF IInv, Shape
        <4> QED
          BY <4>2, <4>3
      <3>3. CASE r # s
        <4>1. \A u \in Updating(r)' : u \in Updating(r) /\ u # t
          BY <2>1, <3>3 DEF Updating, IInv, Shape
        <4>2. \A u \in Threads \ {t} : copy'[u] = copy[u]
          BY <1>3 DEF IInv, Shape
        <4>3. \A u \in Updating(r)' : u \in Threads
          BY DEF Updating
        <4> QED
          BY <3>1, <4>1, <4>2, <4>3
      <3> QED
        BY <3>2, <3>3
    <2>9. LocksSuffice'
      BY <1>1, <2>7 DEF IInv, LocksSuffice
    <2> QED
      BY <2>3, <2>5, <2>8, <2>9 DEF IInv
  <1>4. \/ Return(t) /\ UNCHANGED <<lock, collided>>
        \/ /\ copy' = [copy EXCEPT ![t] = Apply(j, store[s])]
           /\ lock' = IF Locked(j) THEN Acquired(t, j) ELSE lock
           /\ collided' = IF \A u \in Updating(s) : Apart(t, u)
                          THEN collided ELSE collided \union {s}
           /\ Goto(t, "replace")
           /\ UNCHANGED job
    BY DEF ReadStore
  <1> QED
    BY <1>2, <1>3, <1>4

(* The update is written where it was read.                                *)
LEMMA ReplaceStep == ASSUME IInv, NEW t \in Threads, ReplaceStore(t) PROVE IInv'
  <1> DEFINE s == StoreOf(job[t])
  <1>1. /\ pc[t] = "replace" /\ s \in Names /\ Release(t)
        /\ store' = [store EXCEPT ![s] = copy[t]]
        /\ ledger' = [ledger EXCEPT ![s] = Apply(job[t], @)]
        /\ pc' = [pc EXCEPT ![t] = "idle"] /\ job' = [job EXCEPT ![t] = NoJob]
        /\ copy' = [copy EXCEPT ![t] = Missing]
        /\ collided' = collided
    BY DEF ReplaceStore, Return, Goto, IInv, Shape
  <1>2. /\ lock' \in [Processes -> [Trackers -> Threads \union {Nobody}]]
        /\ \A u \in Threads \ {t} : pc[u] = "replace" /\ Locked(job[u]) =>
              lock'[home[u]][Place(job[u])] = u
    BY <1>1, ReleaseOwn
  <1>3. \A u \in Threads : pc'[u] # "idle" =>
           /\ u # t /\ pc'[u] = pc[u] /\ job'[u] = job[u] /\ copy'[u] = copy[u]
    BY <1>1 DEF IInv, Shape
  <1>4. Shape'
    BY <1>1, <1>2 DEF IInv, Shape, Steps
  <1>5. LocksHeld'
    BY <1>2, <1>3 DEF LocksHeld, Place, TrackerOf, StoreOf, Locked
  <1>6. \A r \in Names : Updating(r)' \subseteq Updating(r) \ {t}
    BY <1>3 DEF Updating
  <1>7. t \in Updating(s)
    BY <1>1 DEF Updating
  <1>8. ASSUME NEW r \in Names \ collided
        PROVE  /\ store'[r] = ledger'[r]
               /\ \A u \in Updating(r)' : copy'[u] = Apply(job'[u], store'[r])
               /\ \A u, v \in Updating(r)' : u = v
    <2>1. /\ store[r] = ledger[r]
          /\ \A u \in Updating(r) : copy[u] = Apply(job[u], store[r])
          /\ \A u, v \in Updating(r) : u = v
      BY DEF IInv, SoleUpdate, LocksSuffice
    <2>2. CASE r = s
      <3>1. Updating(r)' = {}
        BY <1>6, <1>7, <2>1, <2>2
      <3>2. copy[t] = Apply(job[t], ledger[s])
        BY <1>7, <2>1, <2>2
      <3>3. store'[s] = copy[t] /\ ledger'[s] = Apply(job[t], ledger[s])
        BY <1>1 DEF IInv, Shape
      <3> QED
        BY <2>2, <3>1, <3>2, <3>3
    <2>3. CASE r # s
      <3>1. store'[r] = store[r] /\ ledger'[r] = ledger[r]
        BY <1>1, <2>3 DEF IInv, Shape
      <3>2. \A u \in Updating(r)' : u \in Updating(r) /\ copy'[u] = copy[u] /\ job'[u] = job[u]
        BY <1>3, <1>6 DEF Updating
      <3> QED
        BY <2>1, <3>1, <3>2
    <2> QED
      BY <2>2, <2>3
  <1>9. SoleUpdate' /\ LocksSuffice'
    BY <1>1, <1>8 DEF SoleUpdate, LocksSuffice, Apply, Updating
  <1> QED
    BY <1>4, <1>5, <1>9 DEF IInv

(* A failed write leaves the store as it was.                              *)
LEMMA FailStep == ASSUME IInv, NEW t \in Threads, WriteFails(t) PROVE IInv'
  <1>1. /\ pc' = [pc EXCEPT ![t] = "idle"] /\ job' = [job EXCEPT ![t] = NoJob]
        /\ copy' = [copy EXCEPT ![t] = Missing]
        /\ UNCHANGED <<store, ledger, collided>>
        /\ (pc[t] = "replace" /\ Release(t)) \/ lock' = lock
    BY DEF WriteFails, Return, Goto, disk
  <1>2. /\ lock' \in [Processes -> [Trackers -> Threads \union {Nobody}]]
        /\ \A u \in Threads \ {t} : pc[u] = "replace" /\ Locked(job[u]) =>
              lock'[home[u]][Place(job[u])] = u
    <2>1. CASE pc[t] = "replace" /\ Release(t)
      BY <2>1, ReleaseOwn
    <2>2. CASE lock' = lock
      BY <2>2 DEF IInv, Shape, LocksHeld
    <2> QED
      BY <1>1, <2>1, <2>2
  <1>3. \A u \in Threads : pc'[u] # "idle" =>
           /\ u # t /\ pc'[u] = pc[u] /\ job'[u] = job[u] /\ copy'[u] = copy[u]
    BY <1>1 DEF IInv, Shape
  <1>4. Shape'
    BY <1>1, <1>2 DEF IInv, Shape, Steps
  <1>5. \A u \in Threads : pc'[u] = "replace" /\ Locked(job[u]) =>
           lock'[home[u]][Place(job[u])] = lock[home[u]][Place(job[u])]
    <2> TAKE u \in Threads
    <2> HAVE pc'[u] = "replace" /\ Locked(job[u])
    <2>1. u # t /\ pc[u] = "replace" /\ job'[u] = job[u]
      BY <1>3
    <2>2. lock[home[u]][Place(job[u])] = u
      BY <2>1 DEF IInv, LocksHeld
    <2> QED
      BY <1>2, <2>1, <2>2 DEF LockOf
  <1> QED
    BY <1>1, <1>3, <1>4, <1>5, AsideStep

(* Steps on snapshots and test files.                                      *)
LEMMA SnapshotStep ==
    ASSUME IInv, NEW t \in Threads,
           \/ OpenSnapshot(t) \/ WriteSnapshot(t)
           \/ ChooseRecord(t) \/ LoadSnapshot(t) \/ RestoreTest(t)
    PROVE  IInv'
  <1>1. UNCHANGED <<store, lock, ledger, collided>>
    BY DEF OpenSnapshot, WriteSnapshot, ChooseRecord, LoadSnapshot, RestoreTest, disk, history
  <1>2. pc[t] # "replace" /\ DOMAIN job' = Threads /\ DOMAIN copy' = Threads
        /\ \A u \in Threads \ {t} : job'[u] = job[u] /\ copy'[u] = copy[u]
    BY DEF OpenSnapshot, WriteSnapshot, ChooseRecord, LoadSnapshot, RestoreTest, Return, IInv,
           Shape
  <1>3. /\ pc' \in [Threads -> Steps] /\ \A u \in Threads \ {t} : pc'[u] = pc[u]
        /\ \/ pc'[t] \in {"idle", "load", "restore"}
           \/ pc'[t] \in {"write", "read"} /\ pc[t] \in {"open", "write"} /\ job'[t] = job[t]
    BY DEF OpenSnapshot, WriteSnapshot, ChooseRecord, LoadSnapshot, RestoreTest, Return, Goto,
           IInv, Shape, Steps
  <1>4. Shape'
    BY <1>1, <1>2, <1>3 DEF IInv, Shape
  <1>5. \A u \in Threads : pc'[u] = "replace" =>
           u # t /\ pc[u] = "replace" /\ job'[u] = job[u] /\ copy'[u] = copy[u]
    BY <1>2, <1>3
  <1> QED
    BY <1>1, <1>4, <1>5, AsideStep

(* A crash takes the threads of a process and its locks, and no other's.   *)
LEMMA CrashStep == ASSUME IInv, NEW p \in Processes, Crash(p) PROVE IInv'
  <1>1. /\ pc' = [t \in Threads |-> IF home[t] = p THEN "idle" ELSE pc[t]]
        /\ job' = [t \in Threads |-> IF home[t] = p THEN NoJob ELSE job[t]]
        /\ copy' = [t \in Threads |-> IF home[t] = p THEN Missing ELSE copy[t]]
        /\ lock' = [lock EXCEPT ![p] = [k \in Trackers |-> Nobody]]
        /\ UNCHANGED <<store, ledger, collided>>
    BY DEF Crash, disk
  <1>2. Shape'
    BY <1>1 DEF IInv, Shape, Steps
  <1>3. \A u \in Threads : pc'[u] = "replace" =>
           /\ home[u] # p /\ pc[u] = "replace" /\ job'[u] = job[u] /\ copy'[u] = copy[u]
           /\ lock'[home[u]] = lock[home[u]]
    BY <1>1, HomeAssumption DEF IInv, Shape
  <1> QED
    BY <1>1, <1>2, <1>3, AsideStep

LEMMA NextInv == IInv /\ [Next]_vars => IInv'
  <1> SUFFICES ASSUME IInv, [Next]_vars PROVE IInv'
    OBVIOUS
  <1>1. ASSUME NEW t \in Threads, Step(t) PROVE IInv'
    BY <1>1, ReadStep, ReplaceStep, SnapshotStep DEF Step
  <1>2. ASSUME NEW t \in Threads, WriteFails(t) PROVE IInv'
    BY <1>2, FailStep
  <1>3. ASSUME NEW t \in Threads, NEW j \in Jobs, Begin(t, j) PROVE IInv'
    BY <1>3, BeginStep
  <1>4. ASSUME NEW p \in Processes, Crash(p) PROVE IInv'
    BY <1>4, CrashStep
  <1>5. CASE UNCHANGED vars
    <2>1. UNCHANGED <<store, ledger, collided, lock, pc, job, copy>>
      BY <1>5 DEF vars, disk, threads, history
    <2>2. Shape'
      BY <2>1 DEF IInv, Shape
    <2> QED
      BY <2>1, <2>2, AsideStep
  <1> QED
    BY <1>1, <1>2, <1>3, <1>4, <1>5 DEF Next

(* The inductive invariant, on which the theorem rests.                    *)
THEOREM Invariance == Spec => []IInv
  BY InitInv, NextInv, PTL DEF Spec

(* Where the lock of a process covers the updates of a store, every update *)
(* written to usage.json, hashes.json or a meta.json is in it, once.       *)
THEOREM NothingIsLost == Spec => []LocksSuffice
  BY Invariance, PTL DEF IInv

-----------------------------------------------------------------------------
(* Types.  What a thread does is a step of the operation it has begun.     *)

Fits == \A t \in Threads :
           /\ pc[t] # "idle" => job[t] \in Jobs
           /\ pc[t] \in {"open", "write"} => job[t].op = "attempt"
           /\ pc[t] \in {"read", "replace"} => job[t].op # "rollback"
           /\ pc[t] \in {"look", "load", "restore"} => job[t].op = "rollback"
           /\ pc[t] \in {"load", "restore"} => job[t].attempt \in Attempts

Typed == TypeOK /\ Fits

LEMMA JobFields ==
    ASSUME NEW j \in Jobs
    PROVE  /\ j.op \in {"attempt", "call", "success", "mark", "remove", "rollback"}
           /\ j.op = "attempt" => j.file \in Files /\ j.attempt \in Attempts /\ j.code \in Codes
           /\ j.op = "call" => j.heal \in BOOLEAN
           /\ j.op = "mark" => j.file \in Files /\ j.code \in Codes
           /\ j.op = "remove" => j.file \in Files
           /\ j.op = "rollback" => j.file \in Files /\ j.attempt \in Attempts \union {Missing}
  BY DEF Jobs

LEMMA CountType ==
    ASSUME NEW x \in Usage, NEW j
    PROVE  Counted(x, j) \in Usage /\ Healed(x) \in Usage
  <1>1. x.requests + 1 \in Nat /\ x.heals \in Nat /\ x.heals + 1 \in Nat /\ x.healed + 1 \in Nat
    BY DEF Usage
  <1>2. (IF j.heal THEN x.heals + 1 ELSE x.heals) \in Nat
    BY <1>1
  <1> DEFINE h == IF j.heal THEN x.heals + 1 ELSE x.heals
  <1>3. Counted(x, j) = [x EXCEPT !.requests = x.requests + 1, !.heals = h]
    BY DEF Counted
  <1> HIDE DEF h
  <1>4. [x EXCEPT !.requests = x.requests + 1, !.heals = h] \in Usage
    BY <1>1, <1>2 DEF Usage, h
  <1>5. Healed(x) \in Usage
    BY <1>1 DEF Healed, Usage
  <1> QED
    BY <1>3, <1>4, <1>5

(* An operation keeps its store well-formed.                               *)
LEMMA ApplyType ==
    ASSUME NEW j \in Jobs, j.op # "rollback", NEW x, WellFormed(StoreOf(j), x)
    PROVE  WellFormed(StoreOf(j), Apply(j, x))
  <1> USE JobFields DEF WellFormed, StoreOf, Apply
  <1>1. CASE j.op = "attempt"
    <2>1. j.file \notin {"usage", "hashes"} /\ x \in Records
      BY <1>1, NamesAssumption
    <2>2. [attempt |-> j.attempt, code |-> j.code] \in [attempt : Attempts, code : Codes]
      BY <1>1
    <2>3. Recorded(x, j) \in Records
      BY <2>1, <2>2 DEF Records, Recorded
    <2>4. Apply(j, x) = Recorded(x, j) /\ StoreOf(j) = j.file
      BY <1>1
    <2> QED
      BY <2>1, <2>3, <2>4 DEF WellFormed
  <1>2. CASE j.op = "call"
    <2>1. x \in Usage
      BY <1>2
    <2>2. Counted(x, j) \in Usage
      BY <2>1, CountType
    <2> QED
      BY <1>2, <2>2
  <1>3. CASE j.op = "success"
    <2>1. x \in Usage
      BY <1>3
    <2>2. Healed(x) \in Usage
      BY <2>1, CountType
    <2> QED
      BY <1>3, <2>2
  <1>4. CASE j.op = "mark"
    BY <1>4 DEF Hashes
  <1>5. CASE j.op = "remove"
    BY <1>5 DEF Hashes
  <1> QED
    BY <1>1, <1>2, <1>3, <1>4, <1>5

(* What WellFormed says of the three kinds of stores.                      *)
LEMMA StoreKinds ==
    ASSUME NEW f \in Files, NEW x
    PROVE  /\ f \in Names /\ f \notin {"usage", "hashes"} /\ f # "usage" /\ f # "hashes"
           /\ WellFormed(f, x) <=> x \in Records
           /\ WellFormed("hashes", x) <=> x \in Hashes
  BY NamesAssumption DEF Names, WellFormed

(* A set of numbers that is not empty has a least one.                     *)
LEMMA LeastNumber ==
    ASSUME NEW T, T \subseteq Nat, T # {}
    PROVE  \E x \in T : \A y \in T : x <= y
  <1> DEFINE R == OpToRel(<, Nat)
  <1>1. IsWellFoundedOn(R, Nat)
    BY NatLessThanWellFounded
  <1>2. \A x, y \in Nat : x < y => <<x, y>> \in R
    BY DEF OpToRel
  <1> HIDE DEF R
  <1>3. PICK x \in T : \A y \in T : ~ (<<y, x>> \in R)
    BY <1>1, WFMin
  <1>4. ASSUME NEW y \in T PROVE x <= y
    <2>1. x \in Nat /\ y \in Nat /\ <<y, x>> \notin R
      BY <1>3
    <2>2. ~ (y < x)
      BY <1>2, <2>1
    <2> QED
      BY <2>1, <2>2
  <1> QED
    BY <1>4

LEMMA Elements == ASSUME NEW S, NEW q \in Seq(S) PROVE \A i \in DOMAIN q : q[i] \in S
  OBVIOUS

(* The first of the records that rollback() can mean is one of them.       *)
LEMMA FirstMatchType ==
    ASSUME NEW records \in Records, NEW n, Matching(records, n) # {}
    PROVE  /\ FirstMatch(records, n) \in [attempt : Attempts, code : Codes]
           /\ n \in {FirstMatch(records, n).attempt, Missing}
  <1> DEFINE found == Matching(records, n)
             first == CHOOSE i \in found : \A j \in found : i <= j
  <1>1. found \subseteq Nat /\ found \subseteq DOMAIN records
    BY DEF Matching, Records
  <1>2. \E i \in found : \A j \in found : i <= j
    <2> HIDE DEF found
    <2> QED
      BY <1>1, LeastNumber DEF found
  <1>3. first \in found
    <2> HIDE DEF found
    <2> QED
      BY <1>2
  <1>4. FirstMatch(records, n) = records[first]
    BY DEF FirstMatch
  <1>5. first \in DOMAIN records /\ n \in {records[first].attempt, Missing}
    BY <1>3 DEF Matching
  <1> HIDE DEF first
  <1>6. \A i \in DOMAIN records : records[i] \in [attempt : Attempts, code : Codes]
    BY Elements DEF Records
  <1> QED
    BY <1>4, <1>5, <1>6

LEMMA InitTypes == Init => Typed
  <1> SUFFICES ASSUME Init PROVE Typed
    OBVIOUS
  <1>1. \A s \in Names : WellFormed(s, Empty[s])
    <2> SUFFICES ASSUME NEW s \in Names PROVE WellFormed(s, Empty[s])
      OBVIOUS
    <2>1. CASE s = "usage"
      BY <2>1 DEF WellFormed, Empty, Usage
    <2>2. CASE s = "hashes"
      BY <2>2 DEF WellFormed, Empty, Hashes
    <2>3. CASE s \notin {"usage", "hashes"}
      BY <2>3 DEF WellFormed, Empty, Records
    <2> QED
      BY <2>1, <2>2, <2>3
  <1>2. TypeOK
    BY <1>1, BoundsAssumption DEF Init, TypeOK, Empty, Texts
  <1>3. Fits
    BY DEF Init, Fits
  <1> QED
    BY <1>2, <1>3 DEF Typed

(* A thread that returns is idle and holds nothing.                        *)
LEMMA ReturnFacts ==
    ASSUME Typed, NEW t \in Threads, Return(t)
    PROVE  /\ pc'[t] = "idle" /\ job'[t] = NoJob /\ copy'[t] = Missing
           /\ \A u \in Threads \ {t} : pc'[u] = pc[u] /\ job'[u] = job[u] /\ copy'[u] = copy[u]
           /\ pc' \in [Threads -> Steps] /\ job' \in [Threads -> Jobs \union {NoJob}]
           /\ DOMAIN copy' = Threads
  BY DEF Typed, TypeOK, Return, Goto, Steps

Held(t) == CASE pc[t] = "replace" -> WellFormed(StoreOf(job[t]), copy[t])
             [] pc[t] = "restore" -> copy[t] \in Texts
             [] OTHER -> copy[t] = Missing

Fit(t) == /\ pc[t] # "idle" => job[t] \in Jobs
          /\ pc[t] \in {"open", "write"} => job[t].op = "attempt"
          /\ pc[t] \in {"read", "replace"} => job[t].op # "rollback"
          /\ pc[t] \in {"look", "load", "restore"} => job[t].op = "rollback"
          /\ pc[t] \in {"load", "restore"} => job[t].attempt \in Attempts

(* A step of one thread, that keeps the stores well-formed.                *)
LEMMA ThreadStep ==
    ASSUME Typed, NEW t \in Threads,
           DOMAIN store' = Names, \A s \in Names : WellFormed(s, store'[s]),
           DOMAIN ledger' = Names, \A s \in Names : WellFormed(s, ledger'[s]),
           snap' \in [Files -> [Attempts -> Texts]], target' \in [Files -> Texts],
           lock' \in [Processes -> [Trackers -> Threads \union {Nobody}]],
           pc' \in [Threads -> Steps], job' \in [Threads -> Jobs \union {NoJob}],
           DOMAIN copy' = Threads,
           \A u \in Threads \ {t} : pc'[u] = pc[u] /\ job'[u] = job[u] /\ copy'[u] = copy[u],
           ops' \in 0 .. MaxOps, collided' \subseteq Names, loose' \subseteq Files \X Attempts,
           Held(t)', Fit(t)'
    PROVE  Typed'
  <1>1. \A u \in Threads \ {t} : Held(u)' /\ Fit(u)'
    <2> SUFFICES ASSUME NEW u \in Threads \ {t} PROVE Held(u)' /\ Fit(u)'
      OBVIOUS
    <2>1. Held(u) /\ Fit(u)
      BY DEF Typed, TypeOK, Fits, Held, Fit
    <2>2. pc'[u] = pc[u] /\ job'[u] = job[u] /\ copy'[u] = copy[u]
      OBVIOUS
    <2>3. Fit(u)'
      BY <2>1, <2>2 DEF Fit
    <2>4. Held(u)'
      BY <2>1, <2>2 DEF Held, WellFormed, StoreOf, Usage, Hashes, Records, Texts
    <2> QED
      BY <2>3, <2>4
  <1>2. \A u \in Threads : Held(u)' /\ Fit(u)'
    BY <1>1
  <1>3. Fits'
    BY <1>2 DEF Fits, Fit
  <1>4. \A u \in Threads : CASE pc'[u] = "replace" -> WellFormed(StoreOf(job'[u]), copy'[u])
                             [] pc'[u] = "restore" -> copy'[u] \in Texts
                             [] OTHER -> copy'[u] = Missing
    BY <1>2 DEF Held, WellFormed, StoreOf, Texts, Usage, Hashes, Records
  <1>5. TypeOK'
    BY <1>4 DEF TypeOK, Steps, Usage, Hashes, Records, WellFormed, Texts, StoreOf, Names, Trackers,
                Jobs, NoJob
  <1> QED
    BY <1>3, <1>5 DEF Typed

(* Steps of threads, operation by operation. *)
LEMMA BeginTypes == ASSUME Typed, NEW t \in Threads, NEW j \in Jobs, Begin(t, j) PROVE Typed'
  <1>1. /\ pc' = [pc EXCEPT ![t] = FirstStep(j)] /\ job' = [job EXCEPT ![t] = j]
        /\ UNCHANGED <<store, snap, target, lock, copy, ledger, collided, loose>>
        /\ pc[t] = "idle" /\ ops < MaxOps /\ ops' = ops + 1
    BY DEF Begin, Goto, disk, history
  <1>2. FirstStep(j) \in {"open", "look", "read"}
    BY DEF FirstStep
  <1>3. /\ pc'[t] = FirstStep(j) /\ job'[t] = j /\ copy'[t] = Missing
        /\ pc' \in [Threads -> Steps] /\ job' \in [Threads -> Jobs \union {NoJob}]
        /\ DOMAIN copy' = Threads
        /\ \A u \in Threads \ {t} : pc'[u] = pc[u] /\ job'[u] = job[u] /\ copy'[u] = copy[u]
    BY <1>1, <1>2 DEF Typed, TypeOK, Steps
  <1>4. ops' \in 0 .. MaxOps
    BY <1>1, BoundsAssumption DEF Typed, TypeOK
  <1>5. Fit(t)'
    BY <1>2, <1>3, JobFields DEF Fit, FirstStep
  <1>6. Held(t)'
    BY <1>2, <1>3 DEF Held
  <1> QED
    BY <1>1, <1>3, <1>4, <1>5, <1>6, ThreadStep DEF Typed, TypeOK

LEMMA OpenTypes == ASSUME Typed, NEW t \in Threads, OpenSnapshot(t) PROVE Typed'
  <1>1. /\ pc[t] = "open" /\ pc' = [pc EXCEPT ![t] = "write"]
        /\ snap' = [snap EXCEPT ![job[t].file][job[t].attempt] = Torn]
        /\ loose' \in {loose, loose \union {<<job[t].file, job[t].attempt>>}}
        /\ UNCHANGED <<store, target, lock, job, copy, ops, ledger, collided>>
    BY DEF OpenSnapshot, Goto
  <1>2. job[t] \in Jobs /\ job[t].op = "attempt"
    BY <1>1 DEF Typed, Fits
  <1>3. job[t].file \in Files /\ job[t].attempt \in Attempts
    BY <1>2, JobFields
  <1>4. snap' \in [Files -> [Attempts -> Texts]] /\ loose' \subseteq Files \X Attempts
    BY <1>1, <1>3 DEF Typed, TypeOK, Texts
  <1>5. /\ pc' \in [Threads -> Steps] /\ pc'[t] = "write" /\ copy[t] = Missing
        /\ \A u \in Threads \ {t} : pc'[u] = pc[u]
    BY <1>1 DEF Typed, TypeOK, Steps
  <1>6. Held(t)' /\ Fit(t)'
    BY <1>1, <1>2, <1>5 DEF Held, Fit
  <1> QED
    BY <1>1, <1>4, <1>5, <1>6, ThreadStep DEF Typed, TypeOK

LEMMA WriteTypes == ASSUME Typed, NEW t \in Threads, WriteSnapshot(t) PROVE Typed'
  <1>1. /\ pc[t] = "write" /\ pc' = [pc EXCEPT ![t] = "read"]
        /\ snap' = [snap EXCEPT ![job[t].file][job[t].attempt] = job[t].code]
        /\ UNCHANGED <<store, target, lock, job, copy, ops, ledger, collided, loose>>
    BY DEF WriteSnapshot, Goto, history
  <1>2. job[t] \in Jobs /\ job[t].op = "attempt"
    BY <1>1 DEF Typed, Fits
  <1>3. job[t].file \in Files /\ job[t].attempt \in Attempts /\ job[t].code \in Codes
    BY <1>2, JobFields
  <1>4. snap' \in [Files -> [Attempts -> Texts]]
    BY <1>1, <1>3 DEF Typed, TypeOK, Texts
  <1>5. /\ pc' \in [Threads -> Steps] /\ pc'[t] = "read" /\ copy[t] = Missing
        /\ \A u \in Threads \ {t} : pc'[u] = pc[u]
    BY <1>1 DEF Typed, TypeOK, Steps
  <1>6. Held(t)' /\ Fit(t)'
    BY <1>1, <1>2, <1>5 DEF Held, Fit
  <1> QED
    BY <1>1, <1>4, <1>5, <1>6, ThreadStep DEF Typed, TypeOK

(* A lock is set or freed.                                                 *)
LEMMA LockType ==
    ASSUME Typed, NEW t \in Threads, job[t] \in Jobs,
           lock' \in {lock, Acquired(t, job[t]), Released(t, job[t])}
    PROVE  lock' \in [Processes -> [Trackers -> Threads \union {Nobody}]]
  <1>1. home[t] \in Processes /\ TrackerOf(StoreOf(job[t])) \in Trackers
    BY HomeAssumption, StoreType, TrackerType
  <1> DEFINE k == TrackerOf(StoreOf(job[t]))
  <1>2. \E v \in Threads \union {Nobody} : lock' \in {lock, [lock EXCEPT ![home[t]][k] = v]}
    BY DEF Acquired, Released
  <1>3. k \in Trackers
    BY <1>1
  <1> HIDE DEF k
  <1>4. PICK v \in Threads \union {Nobody} : lock' \in {lock, [lock EXCEPT ![home[t]][k] = v]}
    BY <1>2
  <1>5. lock \in [Processes -> [Trackers -> Threads \union {Nobody}]]
    BY DEF Typed, TypeOK
  <1>6. [lock EXCEPT ![home[t]][k] = v] \in [Processes -> [Trackers -> Threads \union {Nobody}]]
    BY <1>1, <1>3, <1>5
  <1> QED
    BY <1>4, <1>5, <1>6

LEMMA ReadTypes == ASSUME Typed, NEW t \in Threads, ReadStore(t) PROVE Typed'
  <1> DEFINE j == job[t]
             s == StoreOf(j)
  <1>1. /\ pc[t] = "read" /\ lock' \in {lock, Acquired(t, j)}
        /\ collided' \in {collided, collided \union {s}}
        /\ UNCHANGED <<store, snap, target, ops, ledger, loose>>
    BY DEF ReadStore, disk
  <1>2. j \in Jobs /\ j.op # "rollback" /\ s \in Names
    BY <1>1, StoreType DEF Typed, Fits
  <1>3. /\ lock' \in [Processes -> [Trackers -> Threads \union {Nobody}]]
        /\ collided' \subseteq Names
    BY <1>1, <1>2, LockType DEF Typed, TypeOK
  <1>4. CASE Return(t)
    <2>1. Held(t)' /\ Fit(t)'
      BY <1>4, ReturnFacts DEF Held, Fit
    <2> QED
      BY <1>1, <1>3, <1>4, <2>1, ReturnFacts, ThreadStep DEF Typed, TypeOK
  <1>5. CASE /\ copy' = [copy EXCEPT ![t] = Apply(j, store[s])]
             /\ Goto(t, "replace") /\ UNCHANGED job
    <2>1. /\ pc' \in [Threads -> Steps] /\ pc'[t] = "replace" /\ copy'[t] = Apply(j, store[s])
          /\ \A u \in Threads \ {t} : pc'[u] = pc[u] /\ copy'[u] = copy[u]
          /\ DOMAIN copy' = Threads
      BY <1>5 DEF Typed, TypeOK, Steps, Goto
    <2>2. WellFormed(s, store[s])
      BY <1>2 DEF Typed, TypeOK
    <2>3. WellFormed(s, copy'[t])
      BY <1>2, <2>1, <2>2, ApplyType
    <2>4. Fit(t)'
      BY <1>2, <1>5, <2>1 DEF Fit
    <2>5. Held(t)'
      BY <1>5, <2>1, <2>3 DEF Held, WellFormed, StoreOf, Usage, Hashes, Records
    <2> QED
      BY <1>1, <1>3, <1>5, <2>1, <2>4, <2>5, ThreadStep DEF Typed, TypeOK
  <1> QED
    BY <1>4, <1>5 DEF ReadStore

LEMMA ReplaceTypes == ASSUME Typed, NEW t \in Threads, ReplaceStore(t) PROVE Typed'
  <1> DEFINE s == StoreOf(job[t])
  <1>1. /\ pc[t] = "replace" /\ Return(t) /\ lock' \in {lock, Released(t, job[t])}
        /\ store' = [store EXCEPT ![s] = copy[t]]
        /\ ledger' = [ledger EXCEPT ![s] = Apply(job[t], @)]
        /\ UNCHANGED <<snap, target, ops, collided, loose>>
    BY DEF ReplaceStore, Release
  <1>2. job[t] \in Jobs /\ job[t].op # "rollback" /\ s \in Names
    BY <1>1, StoreType DEF Typed, Fits
  <1>3. WellFormed(s, copy[t]) /\ WellFormed(s, Apply(job[t], ledger[s]))
    BY <1>1, <1>2, ApplyType DEF Typed, TypeOK
  <1>4. /\ DOMAIN store' = Names /\ store'[s] = copy[t]
        /\ DOMAIN ledger' = Names /\ ledger'[s] = Apply(job[t], ledger[s])
        /\ \A r \in Names \ {s} : store'[r] = store[r] /\ ledger'[r] = ledger[r]
    BY <1>1, <1>2 DEF Typed, TypeOK
  <1> HIDE DEF s
  <1>5. \A r \in Names : WellFormed(r, store'[r]) /\ WellFormed(r, ledger'[r])
    BY <1>2, <1>3, <1>4 DEF Typed, TypeOK
  <1>6. lock' \in [Processes -> [Trackers -> Threads \union {Nobody}]]
    BY <1>1, <1>2, LockType
  <1>7. Held(t)' /\ Fit(t)'
    BY <1>1, ReturnFacts DEF Held, Fit
  <1> QED
    BY <1>1, <1>4, <1>5, <1>6, <1>7, ReturnFacts, ThreadStep DEF Typed, TypeOK

(* What is marked as loose is a snapshot.                                  *)
LEMMA LoosenedType ==
    ASSUME Typed, NEW T, T \subseteq Threads PROVE Loosened(T) \subseteq Files \X Attempts
  <1>1. ASSUME NEW t \in Threads, job[t].op = "attempt", pc[t] \in {"write", "read", "replace"}
        PROVE  job[t].file \in Files /\ job[t].attempt \in Attempts
    BY <1>1, JobFields DEF Typed, Fits
  <1> QED
    BY <1>1 DEF Loosened, Typed, TypeOK

LEMMA FailTypes == ASSUME Typed, NEW t \in Threads, WriteFails(t) PROVE Typed'
  <1>1. /\ pc[t] \in {"write", "replace", "restore"} /\ Return(t)
        /\ lock' \in {lock, Released(t, job[t])} /\ loose' = Loosened({t})
        /\ UNCHANGED <<store, snap, target, ops, ledger, collided>>
    BY DEF WriteFails, Release, disk
  <1>2. job[t] \in Jobs
    BY <1>1 DEF Typed, Fits
  <1>3. /\ lock' \in [Processes -> [Trackers -> Threads \union {Nobody}]]
        /\ loose' \subseteq Files \X Attempts
    BY <1>1, <1>2, LockType, LoosenedType
  <1>4. Held(t)' /\ Fit(t)'
    BY <1>1, ReturnFacts DEF Held, Fit
  <1> QED
    BY <1>1, <1>3, <1>4, ReturnFacts, ThreadStep DEF Typed, TypeOK

(* rollback().                                                             *)
LEMMA ChooseTypes == ASSUME Typed, NEW t \in Threads, ChooseRecord(t) PROVE Typed'
  <1> DEFINE records == store[job[t].file]
             n == job[t].attempt
  <1>1. /\ pc[t] = "look"
        /\ UNCHANGED <<store, snap, target, lock, ops, ledger, collided, loose>>
    BY DEF ChooseRecord, disk, history
  <1>2. job[t] \in Jobs /\ job[t].op = "rollback" /\ job[t].file \in Files
    BY <1>1, JobFields DEF Typed, Fits
  <1>3. CASE Return(t)
    <2>1. Held(t)' /\ Fit(t)'
      BY <1>3, ReturnFacts DEF Held, Fit
    <2> QED
      BY <1>1, <1>3, <2>1, ReturnFacts, ThreadStep DEF Typed, TypeOK
  <1>4. CASE /\ Matching(records, n) # {}
             /\ job' = [job EXCEPT ![t].attempt = FirstMatch(records, n).attempt]
             /\ Goto(t, "load") /\ UNCHANGED copy
    <2> DEFINE a == FirstMatch(records, n).attempt
    <2>1. records \in Records
      BY <1>2, StoreKinds DEF Typed, TypeOK
    <2>2. a \in Attempts
      <3> HIDE DEF records, n
      <3> QED
        BY <1>4, <2>1, FirstMatchType
    <2>3. /\ pc' \in [Threads -> Steps] /\ pc'[t] = "load" /\ copy'[t] = Missing
          /\ \A u \in Threads \ {t} : pc'[u] = pc[u] /\ job'[u] = job[u] /\ copy'[u] = copy[u]
          /\ job'[t] = [job[t] EXCEPT !.attempt = a] /\ DOMAIN job' = Threads
          /\ DOMAIN copy' = Threads
      BY <1>1, <1>4 DEF Typed, TypeOK, Steps, Goto
    <2> HIDE DEF a
    <2>4. job[t] \in [op : {"rollback"}, file : Files, attempt : Attempts \union {Missing}]
      BY <1>2 DEF Jobs
    <2>5. /\ job'[t] \in [op : {"rollback"}, file : Files, attempt : Attempts \union {Missing}]
          /\ job'[t].op = "rollback" /\ job'[t].attempt = a
      BY <2>2, <2>3, <2>4
    <2>6. job'[t] \in Jobs
      BY <2>5 DEF Jobs
    <2>7. job' \in [Threads -> Jobs \union {NoJob}]
      <3>1. \A u \in Threads : job'[u] \in Jobs \union {NoJob}
        BY <2>3, <2>6 DEF Typed, TypeOK
      <3>2. job' = [u \in Threads |-> job'[u]]
        BY <1>4, <2>3 DEF Typed, TypeOK
      <3> QED
        BY <3>1, <3>2
    <2>8. Held(t)' /\ Fit(t)'
      BY <2>2, <2>3, <2>5, <2>6 DEF Held, Fit
    <2> QED
      BY <1>1, <2>3, <2>7, <2>8, ThreadStep DEF Typed, TypeOK
  <1> QED
    BY <1>3, <1>4 DEF ChooseRecord

LEMMA LoadTypes == ASSUME Typed, NEW t \in Threads, LoadSnapshot(t) PROVE Typed'
  <1>1. /\ pc[t] = "load" /\ pc' = [pc EXCEPT ![t] = "restore"]
        /\ copy' = [copy EXCEPT ![t] = snap[job[t].file][job[t].attempt]]
        /\ target' = [target EXCEPT ![job[t].file] = Torn]
        /\ UNCHANGED <<store, snap, lock, job, ops, ledger, collided, loose>>
    BY DEF LoadSnapshot, Goto, history
  <1>2. job[t] \in Jobs /\ job[t].op = "rollback" /\ job[t].attempt \in Attempts
    BY <1>1 DEF Typed, Fits
  <1>3. job[t].file \in Files
    BY <1>2, JobFields
  <1>4. snap[job[t].file][job[t].attempt] \in Texts /\ target' \in [Files -> Texts]
    BY <1>1, <1>2, <1>3 DEF Typed, TypeOK, Texts
  <1>5. /\ pc' \in [Threads -> Steps] /\ pc'[t] = "restore" /\ DOMAIN copy' = Threads
        /\ copy'[t] = snap[job[t].file][job[t].attempt]
        /\ \A u \in Threads \ {t} : pc'[u] = pc[u] /\ copy'[u] = copy[u]
    BY <1>1 DEF Typed, TypeOK, Steps
  <1>6. Held(t)' /\ Fit(t)'
    BY <1>1, <1>2, <1>4, <1>5 DEF Held, Fit, Texts
  <1> QED
    BY <1>1, <1>4, <1>5, <1>6, ThreadStep DEF Typed, TypeOK

LEMMA RestoreTypes == ASSUME Typed, NEW t \in Threads, RestoreTest(t) PROVE Typed'
  <1>1. /\ pc[t] = "restore" /\ Return(t)
        /\ target' = [target EXCEPT ![job[t].file] = copy[t]]
        /\ UNCHANGED <<store, snap, lock, ops, ledger, collided, loose>>
    BY DEF RestoreTest, history
  <1>2. target' \in [Files -> Texts]
    BY <1>1 DEF Typed, TypeOK
  <1>3. Held(t)' /\ Fit(t)'
    BY <1>1, ReturnFacts DEF Held, Fit
  <1> QED
    BY <1>1, <1>2, <1>3, ReturnFacts, ThreadStep DEF Typed, TypeOK

LEMMA CrashTypes == ASSUME Typed, NEW p \in Processes, Crash(p) PROVE Typed'
  <1>1. /\ pc' = [t \in Threads |-> IF home[t] = p THEN "idle" ELSE pc[t]]
        /\ job' = [t \in Threads |-> IF home[t] = p THEN NoJob ELSE job[t]]
        /\ copy' = [t \in Threads |-> IF home[t] = p THEN Missing ELSE copy[t]]
        /\ lock' = [lock EXCEPT ![p] = [k \in Trackers |-> Nobody]]
        /\ loose' = Loosened({t \in Threads : home[t] = p})
        /\ UNCHANGED <<store, snap, target, ops, ledger, collided>>
    BY DEF Crash, disk
  <1>2. loose' \subseteq Files \X Attempts
    BY <1>1, LoosenedType
  <1>3. /\ pc' \in [Threads -> Steps] /\ job' \in [Threads -> Jobs \union {NoJob}]
        /\ DOMAIN copy' = Threads
        /\ lock' \in [Processes -> [Trackers -> Threads \union {Nobody}]]
    BY <1>1 DEF Typed, TypeOK, Steps
  <1>4. \A t \in Threads : \/ pc'[t] = "idle" /\ copy'[t] = Missing
                           \/ pc'[t] = pc[t] /\ job'[t] = job[t] /\ copy'[t] = copy[t]
    BY <1>1
  <1>5. ASSUME NEW t \in Threads PROVE Held(t)' /\ Fit(t)'
    <2>1. CASE pc'[t] = "idle" /\ copy'[t] = Missing
      BY <2>1 DEF Held, Fit
    <2>2. CASE pc'[t] = pc[t] /\ job'[t] = job[t] /\ copy'[t] = copy[t]
      <3>1. Held(t) /\ Fit(t)
        BY DEF Typed, TypeOK, Fits, Held, Fit
      <3> QED
        BY <2>2, <3>1 DEF Held, Fit, WellFormed, StoreOf, Texts, Usage, Hashes, Records
    <2> QED
      BY <1>4, <2>1, <2>2
  <1>6. Fits'
    BY <1>5 DEF Fits, Fit
  <1>7. \A t \in Threads : CASE pc'[t] = "replace" -> WellFormed(StoreOf(job'[t]), copy'[t])
                             [] pc'[t] = "restore" -> copy'[t] \in Texts
                             [] OTHER -> copy'[t] = Missing
    BY <1>5 DEF Held, WellFormed, StoreOf, Texts, Usage, Hashes, Records
  <1>8. TypeOK'
    BY <1>1, <1>2, <1>3, <1>7 DEF Typed, TypeOK, Steps
  <1> QED
    BY <1>6, <1>8 DEF Typed

LEMMA NextTypes == Typed /\ [Next]_vars => Typed'
  <1> SUFFICES ASSUME Typed, [Next]_vars PROVE Typed'
    OBVIOUS
  <1>1. ASSUME NEW t \in Threads, Step(t) PROVE Typed'
    BY <1>1, OpenTypes, WriteTypes, ReadTypes, ReplaceTypes, ChooseTypes, LoadTypes, RestoreTypes
    DEF Step
  <1>2. CASE UNCHANGED vars
    BY <1>2 DEF Typed, TypeOK, Fits, vars, disk, threads, history
  <1> QED
    BY <1>1, <1>2, FailTypes, BeginTypes, CrashTypes DEF Next

(* The stores keep their formats, and every thread holds what its step     *)
(* needs.                                                                  *)
THEOREM TypeCorrect == Spec => []TypeOK
  <1>1. Typed => TypeOK
    BY DEF Typed
  <1> QED
    BY <1>1, InitTypes, NextTypes, PTL DEF Spec
-----------------------------------------------------------------------------
(* The snapshots and the records.  A recording that is alone in a snapshot *)
(* has written what its record will say; it stays alone, or the snapshot   *)
(* is marked as loose.                                                     *)

Agree(f, n) ==
    /\ Recording(f, n) = {} => LastTells(store[f], n, snap[f][n])
    /\ \A t \in Recording(f, n) : /\ Recording(f, n) = {t}
                                  /\ pc[t] # "write" => snap[f][n] = job[t].code

Agreed == \A f \in Files \ collided, n \in Attempts : <<f, n>> \notin loose => Agree(f, n)

(* One more record is the last of its attempt, and of no other.            *)
LEMMA OneMore ==
    ASSUME NEW records \in Records, NEW r \in [attempt : Attempts, code : Codes],
           NEW n \in Attempts
    PROVE  /\ r.attempt = n => LastTells(Append(records, r), n, r.code)
           /\ \A text : r.attempt # n /\ LastTells(records, n, text)
                          => LastTells(Append(records, r), n, text)
  <1> DEFINE more == Append(records, r)
             last == Len(records) + 1
             found == Matching(records, n)
             now == Matching(more, n)
  <1>1. /\ DOMAIN records = 1 .. Len(records) /\ DOMAIN more = 1 .. last
        /\ Len(records) \in Nat /\ last \in Nat
        /\ more[last] = r /\ \A i \in DOMAIN records : more[i] = records[i]
    BY DEF Records
  <1>2. n # Missing
    BY NamesAssumption
  <1>3. /\ found = {i \in 1 .. Len(records) : records[i].attempt = n}
        /\ now = {i \in 1 .. last : more[i].attempt = n}
    BY <1>1, <1>2 DEF Matching
  <1> HIDE DEF more, last
  <1>4. ASSUME r.attempt = n PROVE LastTells(more, n, r.code)
    <2>1. last \in now /\ \A j \in now : j <= last
      <3>1. last \in 1 .. last
        BY <1>1 DEF last
      <3> QED
        BY <1>1, <1>3, <1>4, <3>1
    <2> QED
      BY <1>1, <2>1 DEF LastTells
  <1>5. ASSUME NEW text, r.attempt # n, LastTells(records, n, text)
        PROVE  LastTells(more, n, text)
    <2>1. \A i : i \in 1 .. last <=> i \in 1 .. Len(records) \/ i = last
      BY <1>1 DEF last
    <2>2. now = found
      BY <1>1, <1>3, <1>5, <2>1
    <2>3. \A i \in found : more[i] = records[i]
      BY <1>1, <1>3
    <2> QED
      BY <1>5, <2>2, <2>3 DEF LastTells
  <1> QED
    BY <1>4, <1>5 DEF more

(* A step away from a snapshot and its records.                            *)
LEMMA Elsewhere ==
    ASSUME NEW f \in Files, NEW n \in Attempts, Agree(f, n),
           store'[f] = store[f], snap'[f][n] = snap[f][n],
           \A u \in Threads : u \in Recording(f, n)' <=> u \in Recording(f, n),
           \A u \in Recording(f, n) : /\ job'[u] = job[u]
                                      /\ pc'[u] # "write" => pc[u] # "write"
    PROVE  Agree(f, n)'
  <1>1. Recording(f, n)' = Recording(f, n)
    BY DEF Recording
  <1> HIDE DEF Recording
  <1>2. Recording(f, n) = {} => LastTells(store[f], n, snap[f][n])
    BY DEF Agree
  <1>3. \A t \in Recording(f, n) : Recording(f, n) = {t} /\ (pc'[t] # "write" =>
                                      snap[f][n] = job[t].code)
    BY DEF Agree
  <1>4. LastTells(store[f], n, snap[f][n]) => LastTells(store[f], n, snap[f][n])'
    BY DEF LastTells, Matching
  <1> QED
    BY <1>1, <1>2, <1>3, <1>4 DEF Agree

(* Whose step it may be: a thread that records it.                         *)
LEMMA Recorder ==
    ASSUME NEW f, NEW n, NEW t \in Threads
    PROVE  t \in Recording(f, n) <=> /\ pc[t] \in {"write", "read", "replace"}
                                     /\ job[t].op = "attempt"
                                     /\ job[t].file = f /\ job[t].attempt = n
  BY DEF Recording

(* A step of one thread, that changes neither the records nor a snapshot   *)
(* and is not of a recording, or goes on with it.                          *)
LEMMA AsideAgrees ==
    ASSUME Agreed, NEW t \in Threads, store' = store, snap' = snap, collided \subseteq collided',
           loose \subseteq loose',
           \A u \in Threads \ {t} : pc'[u] = pc[u] /\ job'[u] = job[u],
           \/ job'[t] = job[t] /\ pc[t] = "read" /\ pc'[t] = "replace"
           \/ /\ job[t].op # "attempt" \/ pc[t] \notin {"write", "read", "replace"}
              /\ job'[t].op # "attempt" \/ pc'[t] \notin {"write", "read", "replace"}
    PROVE  Agreed'
  <1> SUFFICES ASSUME NEW f \in Files \ collided', NEW n \in Attempts, <<f, n>> \notin loose'
               PROVE  Agree(f, n)'
    BY DEF Agreed
  <1>1. Agree(f, n)
    BY DEF Agreed
  <1>2. \A u \in Threads : u \in Recording(f, n)' <=> u \in Recording(f, n)
    BY DEF Recording
  <1>3. \A u \in Recording(f, n) : job'[u] = job[u] /\ (pc'[u] # "write" => pc[u] # "write")
    BY DEF Recording
  <1> QED
    BY <1>1, <1>2, <1>3, Elsewhere

LEMMA BeginAgrees ==
    ASSUME Typed, Agreed, NEW t \in Threads, NEW j \in Jobs, Begin(t, j) PROVE Agreed'
  <1>1. /\ pc[t] = "idle" /\ pc' = [pc EXCEPT ![t] = FirstStep(j)]
        /\ job' = [job EXCEPT ![t] = j]
        /\ UNCHANGED <<store, snap, collided, loose>>
    BY DEF Begin, Goto, disk, history
  <1>2. pc'[t] = FirstStep(j) /\ job'[t] = j
        /\ \A u \in Threads \ {t} : pc'[u] = pc[u] /\ job'[u] = job[u]
    BY <1>1 DEF Typed, TypeOK
  <1>3. j.op # "attempt" \/ FirstStep(j) = "open"
    BY DEF FirstStep
  <1> QED
    BY <1>1, <1>2, <1>3, AsideAgrees

(* Whoever opens a snapshot is alone, or it is loose.                      *)
LEMMA OpenAgrees ==
    ASSUME Typed, Agreed, NEW t \in Threads, OpenSnapshot(t) PROVE Agreed'
  <1> DEFINE g == job[t].file
             m == job[t].attempt
  <1>1. /\ pc[t] = "open" /\ pc' = [pc EXCEPT ![t] = "write"]
        /\ snap' = [snap EXCEPT ![g][m] = Torn]
        /\ loose' = IF Recording(g, m) = {} THEN loose ELSE loose \union {<<g, m>>}
        /\ UNCHANGED <<store, job, collided>>
    BY DEF OpenSnapshot, Goto
  <1>2. job[t].op = "attempt" /\ pc'[t] = "write" /\ \A u \in Threads \ {t} : pc'[u] = pc[u]
    BY <1>1 DEF Typed, TypeOK, Fits
  <1> SUFFICES ASSUME NEW f \in Files \ collided, NEW n \in Attempts, <<f, n>> \notin loose'
               PROVE  Agree(f, n)'
    BY <1>1 DEF Agreed
  <1>3. Agree(f, n)
    BY <1>1 DEF Agreed
  <1>4. CASE f = g /\ n = m
    <2>1. Recording(f, n) = {}
      BY <1>1, <1>4
    <2>2. \A u \in Threads : u \in Recording(f, n)' <=> u = t
      BY <1>1, <1>2, <1>4, <2>1 DEF Recording
    <2>3. Recording(f, n)' = {t}
      BY <2>2 DEF Recording
    <2> QED
      BY <1>2, <2>3 DEF Agree
  <1>5. CASE f # g \/ n # m
    <2>1. snap'[f][n] = snap[f][n] /\ store'[f] = store[f]
      BY <1>1, <1>5 DEF Typed, TypeOK
    <2>2. \A u \in Threads : u \in Recording(f, n)' <=> u \in Recording(f, n)
      BY <1>1, <1>2, <1>5 DEF Recording
    <2>3. \A u \in Recording(f, n) : job'[u] = job[u] /\ (pc'[u] # "write" => pc[u] # "write")
      BY <1>1, <1>2 DEF Recording
    <2> QED
      BY <1>3, <2>1, <2>2, <2>3, Elsewhere
  <1> QED
    BY <1>4, <1>5

LEMMA WriteAgrees ==
    ASSUME Typed, Agreed, NEW t \in Threads, WriteSnapshot(t) PROVE Agreed'
  <1> DEFINE g == job[t].file
             m == job[t].attempt
  <1>1. /\ pc[t] = "write" /\ pc' = [pc EXCEPT ![t] = "read"]
        /\ snap' = [snap EXCEPT ![g][m] = job[t].code]
        /\ UNCHANGED <<store, job, collided, loose>>
    BY DEF WriteSnapshot, Goto, history
  <1>2. job[t].op = "attempt" /\ pc'[t] = "read" /\ \A u \in Threads \ {t} : pc'[u] = pc[u]
    BY <1>1 DEF Typed, TypeOK, Fits
  <1> SUFFICES ASSUME NEW f \in Files \ collided, NEW n \in Attempts, <<f, n>> \notin loose
               PROVE  Agree(f, n)'
    BY <1>1 DEF Agreed
  <1>3. Agree(f, n)
    BY DEF Agreed
  <1>4. \A u \in Threads : u \in Recording(f, n)' <=> u \in Recording(f, n)
    BY <1>1, <1>2 DEF Recording
  <1>5. CASE f = g /\ n = m
    <2>1. t \in Recording(f, n)
      BY <1>1, <1>2, <1>5 DEF Recording
    <2>2. Recording(f, n) = {t}
      BY <1>3, <2>1 DEF Agree
    <2>3. Recording(f, n)' = {t}
      BY <1>4, <2>2 DEF Recording
    <2>4. snap'[f][n] = job'[t].code
      BY <1>1, <1>5 DEF Typed, TypeOK
    <2> QED
      BY <2>3, <2>4 DEF Agree
  <1>6. CASE f # g \/ n # m
    <2>1. snap'[f][n] = snap[f][n] /\ store'[f] = store[f]
      BY <1>1, <1>6 DEF Typed, TypeOK
    <2>2. \A u \in Recording(f, n) : job'[u] = job[u] /\ (pc'[u] # "write" => pc[u] # "write")
      BY <1>1, <1>2, <1>6 DEF Recording
    <2> QED
      BY <1>3, <1>4, <2>1, <2>2, Elsewhere
  <1> QED
    BY <1>5, <1>6

LEMMA ReadAgrees ==
    ASSUME Typed, Agreed, NEW t \in Threads, ReadStore(t) PROVE Agreed'
  <1>1. /\ pc[t] = "read" /\ collided \subseteq collided' /\ UNCHANGED <<store, snap, loose>>
        /\ \/ Return(t) /\ job[t].op = "remove"
           \/ Goto(t, "replace") /\ job' = job
    BY DEF ReadStore, disk
  <1>2. CASE Return(t) /\ job[t].op = "remove"
    BY <1>1, <1>2, ReturnFacts, AsideAgrees
  <1>3. CASE Goto(t, "replace") /\ job' = job
    <2>1. pc'[t] = "replace" /\ \A u \in Threads \ {t} : pc'[u] = pc[u]
      BY <1>3 DEF Typed, TypeOK, Goto
    <2> QED
      BY <1>1, <1>3, <2>1, AsideAgrees
  <1> QED
    BY <1>1, <1>2, <1>3

(* The record is written of the snapshot's text.                           *)
LEMMA ReplaceAgrees ==
    ASSUME IInv, Typed, Agreed, NEW t \in Threads, ReplaceStore(t) PROVE Agreed'
  <1> DEFINE j == job[t]
             s == StoreOf(j)
  <1>1. /\ pc[t] = "replace" /\ Return(t)
        /\ store' = [store EXCEPT ![s] = copy[t]]
        /\ UNCHANGED <<snap, collided, loose>>
    BY DEF ReplaceStore
  <1>2. j \in Jobs /\ j.op # "rollback" /\ s \in Names
    BY <1>1, StoreType DEF Typed, Fits
  <1>3. j.op = "attempt" => s = j.file /\ s \in Files
    BY <1>2, JobFields DEF StoreOf
  <1>4. j.op # "attempt" => s \notin Files
    BY <1>2, JobFields, NamesAssumption DEF StoreOf
  <1>5. /\ pc'[t] = "idle" /\ \A u \in Threads \ {t} : pc'[u] = pc[u] /\ job'[u] = job[u]
    BY <1>1, ReturnFacts
  <1> SUFFICES ASSUME NEW f \in Files \ collided, NEW n \in Attempts, <<f, n>> \notin loose
               PROVE  Agree(f, n)'
    BY <1>1 DEF Agreed
  <1>6. Agree(f, n) /\ f \in Names
    BY DEF Agreed, Names
  <1>7. CASE t \notin Recording(f, n)
    <2>1. j.op # "attempt" \/ j.file # f \/ j.attempt # n
      BY <1>1, <1>7 DEF Recording
    <2>2. \A u \in Threads : u \in Recording(f, n)' <=> u \in Recording(f, n)
      BY <1>5, <1>7 DEF Recording
    <2>3. \A u \in Recording(f, n) : job'[u] = job[u] /\ pc'[u] = pc[u]
      BY <1>5, <1>7 DEF Recording
    <2>4. CASE f # s
      <3>1. store'[f] = store[f] /\ snap'[f][n] = snap[f][n]
        BY <1>1, <1>6, <2>4 DEF Typed, TypeOK
      <3> QED
        BY <1>6, <2>2, <2>3, <3>1, Elsewhere
    <2>5. CASE f = s
      <3>1. j.op = "attempt" /\ j.attempt # n
        BY <1>3, <1>4, <2>1, <2>5
      <3>2. store'[f] = Recorded(store[f], j) /\ store[f] \in Records
        BY <1>1, <1>6, <2>5, <3>1, StoreKinds
        DEF IInv, SoleUpdate, Updating, Typed, TypeOK, Apply
      <3>3. LastTells(store[f], n, snap[f][n]) => LastTells(store'[f], n, snap[f][n])
        <4>1. [attempt |-> j.attempt, code |-> j.code] \in [attempt : Attempts, code : Codes]
          BY <1>2, <3>1, JobFields
        <4> QED
          BY <3>1, <3>2, <4>1, OneMore DEF Recorded
      <3>4. Recording(f, n)' = Recording(f, n)
        BY <2>2 DEF Recording
      <3> QED
        BY <1>1, <1>6, <2>3, <3>3, <3>4 DEF Agree, LastTells, Matching
    <2> QED
      BY <2>4, <2>5
  <1>8. CASE t \in Recording(f, n)
    <2>1. Recording(f, n) = {t} /\ snap[f][n] = j.code
      BY <1>1, <1>6, <1>8 DEF Agree
    <2>2. j.op = "attempt" /\ j.file = f /\ j.attempt = n
      BY <1>8 DEF Recording
    <2>3. store'[f] = Recorded(store[f], j) /\ store[f] \in Records
      BY <1>1, <1>3, <1>6, <2>2, StoreKinds
      DEF IInv, SoleUpdate, Updating, Typed, TypeOK, Apply
    <2>4. LastTells(store'[f], n, j.code)
      <3>1. [attempt |-> j.attempt, code |-> j.code] \in [attempt : Attempts, code : Codes]
        BY <1>2, <2>2, JobFields
      <3> QED
        BY <2>2, <2>3, <3>1, OneMore DEF Recorded
    <2>5. Recording(f, n)' = {}
      BY <1>5, <2>1 DEF Recording
    <2> QED
      BY <1>1, <2>1, <2>4, <2>5 DEF Agree, LastTells, Matching
  <1> QED
    BY <1>7, <1>8

(* A recording that fails or dies leaves its snapshot loose.               *)
LEMMA CutShort ==
    ASSUME Agreed, NEW T, T \subseteq Threads, store' = store, snap' = snap,
           collided' = collided, loose' = Loosened(T),
           \A u \in T : pc'[u] = "idle",
           \A u \in Threads \ T : pc'[u] = pc[u] /\ job'[u] = job[u]
    PROVE  Agreed'
  <1> SUFFICES ASSUME NEW f \in Files \ collided, NEW n \in Attempts, <<f, n>> \notin loose'
               PROVE  Agree(f, n)'
    BY DEF Agreed
  <1>1. Agree(f, n)
    BY DEF Agreed, Loosened
  <1>2. ASSUME NEW u \in T PROVE u \notin Recording(f, n)
    BY <1>2 DEF Loosened, Recording
  <1>3. \A u \in Threads : u \in Recording(f, n)' <=> u \in Recording(f, n)
    BY <1>2 DEF Recording
  <1>4. \A u \in Recording(f, n) : job'[u] = job[u] /\ pc'[u] = pc[u]
    BY <1>2 DEF Recording
  <1> QED
    BY <1>1, <1>3, <1>4, Elsewhere

LEMMA FailAgrees == ASSUME Typed, Agreed, NEW t \in Threads, WriteFails(t) PROVE Agreed'
  <1>1. Return(t) /\ loose' = Loosened({t}) /\ UNCHANGED <<store, snap, collided>>
    BY DEF WriteFails, disk
  <1> QED
    BY <1>1, ReturnFacts, CutShort

LEMMA CrashAgrees == ASSUME Typed, Agreed, NEW p \in Processes, Crash(p) PROVE Agreed'
  <1> DEFINE T == {t \in Threads : home[t] = p}
  <1>1. /\ pc' = [t \in Threads |-> IF t \in T THEN "idle" ELSE pc[t]]
        /\ job' = [t \in Threads |-> IF t \in T THEN NoJob ELSE job[t]]
        /\ loose' = Loosened(T) /\ UNCHANGED <<store, snap, collided>>
    BY DEF Crash, disk
  <1>2. /\ T \subseteq Threads /\ \A u \in T : pc'[u] = "idle"
        /\ \A u \in Threads \ T : pc'[u] = pc[u] /\ job'[u] = job[u]
    BY <1>1
  <1> HIDE DEF T
  <1> QED
    BY <1>1, <1>2, CutShort

LEMMA RollbackAgrees ==
    ASSUME Typed, Agreed, NEW t \in Threads,
           ChooseRecord(t) \/ LoadSnapshot(t) \/ RestoreTest(t)
    PROVE  Agreed'
  <1>1. /\ pc[t] \in {"look", "load", "restore"}
        /\ UNCHANGED <<store, snap, collided, loose>>
    BY DEF ChooseRecord, LoadSnapshot, RestoreTest, disk, history
  <1>2. pc'[t] \in {"idle", "load", "restore"} /\ \A u \in Threads \ {t} : pc'[u] = pc[u]
    BY DEF ChooseRecord, LoadSnapshot, RestoreTest, Return, Goto, Typed, TypeOK
  <1>3. \A u \in Threads \ {t} : job'[u] = job[u]
    BY DEF ChooseRecord, LoadSnapshot, RestoreTest, Return, Typed, TypeOK
  <1> QED
    BY <1>1, <1>2, <1>3, AsideAgrees

LEMMA InitAgrees == Init => Agreed
  <1> SUFFICES ASSUME Init, NEW f \in Files, NEW n \in Attempts PROVE Agree(f, n)
    BY DEF Agreed
  <1>1. store[f] = << >> /\ snap[f][n] = Missing
    BY NamesAssumption DEF Init, Empty, Names
  <1>2. Matching(<< >>, n) = {}
    BY DEF Matching
  <1>3. Recording(f, n) = {}
    BY DEF Init, Recording
  <1> QED
    BY <1>1, <1>2, <1>3 DEF Agree, LastTells

LEMMA NextAgrees == IInv /\ Typed /\ Agreed /\ [Next]_vars => Agreed'
  <1> SUFFICES ASSUME IInv, Typed, Agreed, [Next]_vars PROVE Agreed'
    OBVIOUS
  <1>1. ASSUME NEW t \in Threads, Step(t) PROVE Agreed'
    BY <1>1, OpenAgrees, WriteAgrees, ReadAgrees, ReplaceAgrees, RollbackAgrees DEF Step
  <1>2. CASE UNCHANGED vars
    BY <1>2 DEF Agreed, Agree, Recording, LastTells, Matching, vars, disk, threads, history
  <1> QED
    BY <1>1, <1>2, BeginAgrees, FailAgrees, CrashAgrees DEF Next

(* A snapshot that nobody records and no failure, crash or other recording *)
(* disturbed is the text of the last record of its attempt, or neither     *)
(* exists.                                                                 *)
THEOREM SnapshotsTellTheRecords == Spec => []SnapshotsMatch
  <1>1. Agreed => SnapshotsMatch
    BY DEF Agreed, Agree, SnapshotsMatch
  <1>2. IInv /\ IInv' /\ Typed /\ Typed' /\ Agreed /\ [Next]_vars => Agreed'
    BY NextAgrees
  <1> QED
    BY <1>1, <1>2, InitInv, NextInv, InitTypes, NextTypes, InitAgrees, NextAgrees, PTL DEF Spec
=============================================================================
