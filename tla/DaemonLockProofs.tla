-------------------------- MODULE DaemonLockProofs --------------------------
(***************************************************************************)
(* Proofs about DaemonLock, for any daemons, commands and files: a lock    *)
(* has its owner, and the file of an active daemon its PID, however the    *)
(* system calls, signals, crashes and interrupts interleave; and there is  *)
(* one daemon, and commands learn the truth, while acquire(), release()    *)
(* and probes do not overlap.                                              *)
(*                                                                         *)
(* Who holds a lock is read off from the places of the processes and their *)
(* descriptors (Locks); for a command to signal a process, what it has     *)
(* remembered must be one (Memories).  While processes are Alone at the    *)
(* file, the descriptors and the name stand for one file (Named).          *)
(***************************************************************************)
EXTENDS DaemonLock, TLAPS

DaemonStates == {"unborn", "boot", "opened", "refused", "locked", "truncated", "written",
                 "running", "stopping", "failed", "unlinked", "dead"}
ClientStates == {"idle", "open", "lock", "unlock", "unlink", "read", "answered", "loop"}
Holding == {"locked", "truncated", "failed", "unlinked", "written", "running", "stopping"}

(* The types of what the locks are about.                                  *)
Places == /\ link \in Files \union {NoFile}
          /\ text \in [Files -> Daemons \union {Blank}]
          /\ holder \in [Files -> Daemons \union Clients \union {Nobody}]
          /\ dpc \in [Daemons -> DaemonStates]
          /\ dfd \in [Daemons -> Files \union {NoFile}]
          /\ pc \in [Clients -> ClientStates]
          /\ cfd \in [Clients -> Files \union {NoFile}]

(* Who is inside acquire(), release() or a probe has a file open.          *)
Descriptors == /\ \A d \in Daemons : dpc[d] \in Holding \union {"opened"} => dfd[d] \in Files
               /\ \A c \in Clients : pc[c] \in {"lock", "unlock"} => cfd[c] \in Files

(* LocksAreOwned, by the places.                                           *)
Owned == \A f \in Files :
            /\ \A d \in Daemons : holder[f] = d <=> dfd[d] = f /\ dpc[d] \in Holding
            /\ \A c \in Clients : holder[f] = c <=> cfd[c] = f /\ pc[c] = "unlock"

Marked == \A d \in Daemons : dpc[d] \in {"written", "running", "stopping"} => text[dfd[d]] = d

Locks == Places /\ Descriptors /\ Owned /\ Marked

(* What the commands remember; in a loop, and in a probe made from one,    *)
(* that is the process they started or are stopping.                       *)
Memories == /\ cmd \in [Clients -> {"none", "start", "stop", "status"}]
            /\ stage \in [Clients -> {"first", "poll", "last"}]
            /\ seen \in [Clients -> Daemons \union {NotRunning, Blank}]
            /\ peer \in [Clients -> Daemons \union {Nobody}]
            /\ polls \in [Clients -> Nat]
            /\ corpses \in [Clients -> SUBSET Daemons]
            /\ overlap \in BOOLEAN
            /\ \A c \in Clients : pc[c] = "loop" \/ stage[c] \in {"poll", "last"} =>
                                     peer[c] \in Daemons

IInv == Locks /\ Memories

(* No command opens, locks, unlocks or closes the file.                    *)
Aside == /\ UNCHANGED cfd /\ pc' \in [Clients -> ClientStates]
         /\ \A c \in Clients : /\ pc'[c] = "lock" <=> pc[c] = "lock"
                               /\ pc'[c] = "unlock" <=> pc[c] = "unlock"

-----------------------------------------------------------------------------
LEMMA InitInv == Init => IInv
  <1> SUFFICES ASSUME Init PROVE IInv
    OBVIOUS
  <1> USE NamesAssumption DEF Init
  <1>1. Places /\ Descriptors /\ Marked
    BY DEF Places, Descriptors, Marked, Holding, DaemonStates, ClientStates
  <1>2. Owned
    BY DEF Owned, Holding
  <1>3. Memories
    BY DEF Memories
  <1> QED
    BY <1>1, <1>2, <1>3 DEF IInv, Locks

LEMMA Properties == IInv => TypeOK /\ LocksHaveOwners
  <1> SUFFICES ASSUME IInv PROVE TypeOK /\ LocksHaveOwners
    OBVIOUS
  <1>1. TypeOK
    BY DEF IInv, Locks, Places, Memories, TypeOK, DaemonStates, ClientStates
  <1>2. LocksAreOwned
    BY DEF IInv, Locks, Owned, LocksAreOwned, Active, Holding
  <1>3. FileHoldsOwnPid
    BY DEF IInv, Locks, Marked, FileHoldsOwnPid, Active
  <1> QED
    BY <1>1, <1>2, <1>3 DEF LocksHaveOwners

-----------------------------------------------------------------------------
(* The locks. *)

(* Steps that touch neither the files' locks and texts nor the daemons.    *)
LEMMA AsideLocks ==
    ASSUME Locks, Aside, UNCHANGED <<text, holder, dpc, dfd>>, link' \in Files \union {NoFile}
    PROVE  Locks'
  <1>1. Places'
    BY DEF Locks, Places, Aside
  <1>2. Descriptors' /\ Marked'
    BY DEF Locks, Aside, Descriptors, Marked
  <1>3. Owned'
    BY DEF Locks, Aside, Owned
  <1> QED
    BY <1>1, <1>2, <1>3 DEF Locks

(* A process that ends lets go.                                            *)
LEMMA DieLocks ==
    ASSUME Locks, NEW d \in Daemons, Die(d), UNCHANGED <<link, text>>, Aside
    PROVE  Locks'
  <1>1. /\ dpc' = [dpc EXCEPT ![d] = "dead"] /\ dfd' = [dfd EXCEPT ![d] = NoFile]
        /\ holder' = [f \in Files |-> IF holder[f] = d THEN Nobody ELSE holder[f]]
    BY DEF Die, Unlocked
  <1>2. Places'
    BY <1>1 DEF Locks, Places, Aside, DaemonStates
  <1>a. \A e \in Daemons : /\ dpc'[e] = IF e = d THEN "dead" ELSE dpc[e]
                           /\ dfd'[e] = IF e = d THEN NoFile ELSE dfd[e]
    BY <1>1 DEF Locks, Places
  <1>b. \A f \in Files : holder'[f] = IF holder[f] = d THEN Nobody ELSE holder[f]
    BY <1>1 DEF Locks, Places
  <1>3. Descriptors' /\ Marked'
    BY <1>a DEF Locks, Aside, Descriptors, Marked, Holding
  <1>c. \A f \in Files, e \in Daemons : holder'[f] = e <=> dfd'[e] = f /\ dpc'[e] \in Holding
    BY <1>a, <1>b, NamesAssumption DEF Locks, Owned, Holding
  <1>d. \A f \in Files, c \in Clients : holder'[f] = c <=> cfd'[c] = f /\ pc'[c] = "unlock"
    BY <1>b, NamesAssumption DEF Locks, Aside, Owned
  <1>4. Owned'
    BY <1>c, <1>d DEF Owned
  <1> QED
    BY <1>2, <1>3, <1>4 DEF Locks

(* A daemon moves on with its file as it is.                               *)
LEMMA MoveLocks ==
    ASSUME Locks, NEW d \in Daemons, NEW s \in DaemonStates, dpc' = [dpc EXCEPT ![d] = s],
           s \in Holding <=> dpc[d] \in Holding, s # "opened",
           s \in {"written", "running", "stopping"} =>
              dpc[d] \in {"written", "running", "stopping"},
           UNCHANGED <<text, holder, dfd>>, link' \in Files \union {NoFile}, Aside
    PROVE  Locks'
  <1>1. Places'
    BY DEF Locks, Places, Aside
  <1>2. \A e \in Daemons : dpc'[e] = IF e = d THEN s ELSE dpc[e]
    BY DEF Locks, Places
  <1>3. Descriptors' /\ Marked'
    BY <1>2 DEF Locks, Aside, Descriptors, Marked
  <1>4. Owned'
    BY <1>2 DEF Locks, Aside, Owned
  <1> QED
    BY <1>1, <1>3, <1>4 DEF Locks

LEMMA TerminateLocks ==
    ASSUME Locks, NEW d \in Daemons, Terminate(d), UNCHANGED <<link, text>>, Aside
    PROVE  Locks'
  <1>1. CASE dpc[d] = "running" /\ dpc' = [dpc EXCEPT ![d] = "stopping"]
             /\ UNCHANGED <<dfd, holder>>
    BY <1>1, MoveLocks DEF Locks, Places, DaemonStates, Holding
  <1>2. CASE Die(d)
    BY <1>2, DieLocks
  <1>3. CASE UNCHANGED <<dpc, dfd, holder>>
    BY <1>3, AsideLocks DEF Locks, Places
  <1> QED
    BY <1>1, <1>2, <1>3 DEF Terminate

LEMMA ClientsAside == ASSUME Locks, UNCHANGED clients PROVE Aside
  BY DEF Locks, Places, Aside, clients

LEMMA OpenLocks == ASSUME Locks, NEW d \in Daemons, Open(d) PROVE Locks'
  <1>1. /\ dpc[d] = "boot" /\ dpc' = [dpc EXCEPT ![d] = "opened"] /\ UNCHANGED <<holder, pc, cfd>>
        /\ \E f \in Files : dfd' = [dfd EXCEPT ![d] = f]
        /\ link' \in Files
        /\ \/ text' = text
           \/ \E f \in Files : (\A e \in Daemons : dfd[e] # f) /\ text' = [text EXCEPT ![f] = Blank]
    BY NamesAssumption DEF Open, TextOpened, clients, Locks, Places
  <1>2. text' \in [Files -> Daemons \union {Blank}]
        /\ \A e \in Daemons : dfd[e] \in Files => text'[dfd[e]] = text[dfd[e]]
    BY <1>1 DEF Locks, Places
  <1>3. Places'
    BY <1>1, <1>2 DEF Locks, Places, DaemonStates
  <1>4. \A e \in Daemons : e # d => dpc'[e] = dpc[e] /\ dfd'[e] = dfd[e]
    BY <1>1 DEF Locks, Places
  <1>5. dpc'[d] = "opened" /\ dfd'[d] \in Files
    BY <1>1 DEF Locks, Places
  <1>6. Descriptors'
    BY <1>1, <1>4, <1>5 DEF Locks, Descriptors
  <1>7. Marked'
    BY <1>2, <1>4, <1>5 DEF Locks, Marked, Descriptors, Holding
  <1>8. Owned'
    BY <1>1, <1>4, <1>5 DEF Locks, Owned, Holding
  <1> QED
    BY <1>3, <1>6, <1>7, <1>8 DEF Locks

LEMMA LockLocks == ASSUME Locks, NEW d \in Daemons, Lock(d) PROVE Locks'
  <1>1. /\ dpc[d] = "opened" /\ dfd[d] \in Files /\ UNCHANGED <<link, text, pc, cfd>>
    BY DEF Lock, Locks, Descriptors, clients
  <1>2. CASE /\ holder[dfd[d]] = Nobody
             /\ holder' = [holder EXCEPT ![dfd[d]] = d]
             /\ dpc' = [dpc EXCEPT ![d] = "locked"]
             /\ UNCHANGED dfd
    <2>1. Places'
      BY <1>1, <1>2 DEF Locks, Places, DaemonStates
    <2>2. \A e \in Daemons : dpc'[e] = IF e = d THEN "locked" ELSE dpc[e]
      BY <1>2 DEF Locks, Places
    <2>3. \A f \in Files : holder'[f] = IF f = dfd[d] THEN d ELSE holder[f]
      BY <1>2 DEF Locks, Places
    <2>4. Descriptors' /\ Marked'
      BY <1>1, <1>2, <2>2 DEF Locks, Descriptors, Marked
    <2>5. \A f \in Files, e \in Daemons : holder'[f] = e <=> dfd'[e] = f /\ dpc'[e] \in Holding
      BY <1>1, <1>2, <2>2, <2>3, NamesAssumption DEF Locks, Owned, Holding
    <2>6. \A f \in Files, c \in Clients : holder'[f] = c <=> cfd'[c] = f /\ pc'[c] = "unlock"
      BY <1>1, <1>2, <2>3, NamesAssumption DEF Locks, Owned
    <2> QED
      BY <2>1, <2>4, <2>5, <2>6 DEF Locks, Owned
  <1>3. CASE /\ dpc' = [dpc EXCEPT ![d] = "refused"]
             /\ dfd' = [dfd EXCEPT ![d] = NoFile]
             /\ UNCHANGED holder
    <2>1. Places'
      BY <1>1, <1>3 DEF Locks, Places, DaemonStates
    <2>2. \A e \in Daemons : /\ dpc'[e] = IF e = d THEN "refused" ELSE dpc[e]
                             /\ e # d => dfd'[e] = dfd[e]
      BY <1>3 DEF Locks, Places
    <2>3. Descriptors' /\ Marked' /\ Owned'
      BY <1>1, <1>3, <2>2 DEF Locks, Descriptors, Marked, Owned, Holding
    <2> QED
      BY <2>1, <2>3 DEF Locks
  <1> QED
    BY <1>2, <1>3 DEF Lock

(* A daemon that has the lock writes to the file, where no other writes.   *)
LEMMA TextLocks ==
    ASSUME Locks, NEW d \in Daemons,
           \/ Truncate(d) \/ WritePid(d)
           \/ WriteFails(d) /\ text' = [text EXCEPT ![dfd[d]] = d]
    PROVE  Locks'
  <1>1. PICK s \in {"truncated", "written", "failed"}, v \in {Blank, d} :
           /\ dpc[d] \in Holding /\ dpc' = [dpc EXCEPT ![d] = s] /\ (s = "written" => v = d)
           /\ text' = [text EXCEPT ![dfd[d]] = v]
           /\ UNCHANGED <<link, holder, dfd, pc, cfd>>
    BY DEF Truncate, WritePid, WriteFails, Holding, clients
  <1>2. dfd[d] \in Files
    BY <1>1 DEF Locks, Descriptors
  <1>3. Places'
    BY <1>1, <1>2 DEF Locks, Places, DaemonStates
  <1>4. \A e \in Daemons : dpc'[e] = IF e = d THEN s ELSE dpc[e]
    BY <1>1 DEF Locks, Places
  <1>5. Descriptors' /\ Owned'
    BY <1>1, <1>4 DEF Locks, Descriptors, Owned, Holding
  <1>6. \A f \in Files : text'[f] = IF f = dfd[d] THEN v ELSE text[f]
    BY <1>1 DEF Locks, Places
  <1>7. ASSUME NEW e \in Daemons, e # d, dpc[e] \in {"written", "running", "stopping"}
        PROVE  dfd[e] \in Files /\ dfd[e] # dfd[d]
    BY <1>1, <1>2, <1>7 DEF Locks, Descriptors, Owned, Holding
  <1>8. Marked'
    BY <1>1, <1>2, <1>4, <1>6, <1>7 DEF Locks, Marked
  <1> QED
    BY <1>3, <1>5, <1>8 DEF Locks

LEMMA ReleaseLocks == ASSUME Locks, NEW d \in Daemons, ReleaseLock(d) PROVE Locks'
  BY ClientsAside, DieLocks DEF ReleaseLock, Die

LEMMA DaemonLocks ==
    ASSUME Locks, NEW d \in Daemons, DaemonStep(d) \/ Crash(d) PROVE Locks'
  <1> dpc[d] \in DaemonStates /\ link \in Files \union {NoFile}
    BY DEF Locks, Places
  <1>1. CASE Ready(d) \/ ShutsDown(d)
    BY <1>1, ClientsAside, MoveLocks DEF Ready, ShutsDown, Holding, DaemonStates, disk
  <1>2. CASE WriteFails(d)
    <2>1. CASE UNCHANGED text
      BY <1>2, <2>1, ClientsAside, MoveLocks DEF WriteFails, Holding, DaemonStates
    <2> QED
      BY <1>2, <2>1, TextLocks DEF WriteFails
  <1>3. CASE ReleaseName(d)
    BY <1>3, ClientsAside, MoveLocks DEF ReleaseName, Holding, DaemonStates
  <1>4. CASE Crash(d)
    BY <1>4, ClientsAside, DieLocks DEF Crash
  <1> QED
    BY <1>1, <1>2, <1>3, <1>4, OpenLocks, LockLocks, TextLocks, ReleaseLocks DEF DaemonStep

(* A command that is not at the lock, and does not go to it.               *)
LEMMA ElsewhereAside ==
    ASSUME Locks, NEW c \in Clients, pc[c] \notin {"lock", "unlock"},
           NEW p \in ClientStates \ {"lock", "unlock"},
           pc' = [pc EXCEPT ![c] = p], UNCHANGED cfd
    PROVE  Aside
  BY DEF Locks, Places, Aside

(* A command that closes the file lets go, too.                            *)
LEMMA CloseLocks ==
    ASSUME Locks, NEW c \in Clients, NEW p \in ClientStates \ {"lock", "unlock"},
           pc' = [pc EXCEPT ![c] = p], cfd' = [cfd EXCEPT ![c] = NoFile],
           holder' = Unlocked(c), UNCHANGED <<link, text, dpc, dfd>>
    PROVE  Locks'
  <1>1. holder' = [f \in Files |-> IF holder[f] = c THEN Nobody ELSE holder[f]]
    BY DEF Unlocked
  <1>2. Places'
    BY <1>1 DEF Locks, Places
  <1>3. \A e \in Clients : /\ pc'[e] = IF e = c THEN p ELSE pc[e]
                           /\ cfd'[e] = IF e = c THEN NoFile ELSE cfd[e]
    BY DEF Locks, Places
  <1>4. \A f \in Files : holder'[f] = IF holder[f] = c THEN Nobody ELSE holder[f]
    BY <1>1
  <1>5. Descriptors' /\ Marked'
    BY <1>3 DEF Locks, Descriptors, Marked
  <1>6. \A f \in Files, e \in Clients : holder'[f] = e <=> cfd'[e] = f /\ pc'[e] = "unlock"
    BY <1>3, <1>4, NamesAssumption DEF Locks, Owned
  <1>7. \A f \in Files, d \in Daemons : holder'[f] = d <=> dfd'[d] = f /\ dpc'[d] \in Holding
    BY <1>4, NamesAssumption DEF Locks, Owned
  <1>8. Owned'
    BY <1>6, <1>7 DEF Owned
  <1> QED
    BY <1>2, <1>5, <1>8 DEF Locks

LEMMA ProbeOpenLocks == ASSUME Locks, NEW c \in Clients, ProbeOpen(c) PROVE Locks'
  <1>1. pc[c] = "open" /\ UNCHANGED <<link, text, holder, dpc, dfd>>
    BY DEF ProbeOpen, disk, daemons
  <1>2. CASE Answer(c, NotRunning) /\ UNCHANGED cfd
    <2>1. Aside
      BY <1>1, <1>2, ElsewhereAside DEF Answer, ClientStates
    <2> QED
      BY <1>1, <2>1, AsideLocks DEF Locks, Places
  <1>3. CASE /\ link # NoFile /\ cfd' = [cfd EXCEPT ![c] = link]
             /\ pc' = [pc EXCEPT ![c] = "lock"]
    <2>1. Places'
      BY <1>1, <1>3 DEF Locks, Places, ClientStates
    <2>2. \A e \in Clients : /\ pc'[e] = IF e = c THEN "lock" ELSE pc[e]
                             /\ cfd'[e] = IF e = c THEN link ELSE cfd[e]
      BY <1>3 DEF Locks, Places
    <2>3. Descriptors' /\ Marked'
      BY <1>1, <1>3, <2>2 DEF Locks, Places, Descriptors, Marked
    <2>4. Owned'
      BY <1>1, <2>2 DEF Locks, Owned
    <2> QED
      BY <2>1, <2>3, <2>4 DEF Locks
  <1> QED
    BY <1>2, <1>3 DEF ProbeOpen

LEMMA ProbeLockLocks == ASSUME Locks, NEW c \in Clients, ProbeLock(c) PROVE Locks'
  <1>1. pc[c] = "lock" /\ cfd[c] \in Files /\ UNCHANGED <<link, text, dpc, dfd>>
    BY DEF ProbeLock, daemons, Locks, Descriptors
  <1>2. CASE /\ holder[cfd[c]] = Nobody
             /\ holder' = [holder EXCEPT ![cfd[c]] = c]
             /\ pc' = [pc EXCEPT ![c] = "unlock"]
             /\ UNCHANGED cfd
    <2>1. Places'
      BY <1>1, <1>2 DEF Locks, Places, ClientStates
    <2>2. /\ \A e \in Clients : pc'[e] = IF e = c THEN "unlock" ELSE pc[e]
          /\ \A f \in Files : holder'[f] = IF f = cfd[c] THEN c ELSE holder[f]
      BY <1>2 DEF Locks, Places
    <2>3. Descriptors' /\ Marked'
      BY <1>1, <1>2, <2>2 DEF Locks, Descriptors, Marked
    <2>4. \A f \in Files, e \in Clients : holder'[f] = e <=> cfd'[e] = f /\ pc'[e] = "unlock"
      BY <1>1, <1>2, <2>2, NamesAssumption DEF Locks, Owned
    <2>5. \A f \in Files, d \in Daemons : holder'[f] = d <=> dfd'[d] = f /\ dpc'[d] \in Holding
      BY <1>1, <1>2, <2>2, NamesAssumption DEF Locks, Owned
    <2>6. Owned'
      BY <2>4, <2>5 DEF Owned
    <2> QED
      BY <2>1, <2>3, <2>6 DEF Locks
  <1>3. CASE /\ pc' = [pc EXCEPT ![c] = "read"]
             /\ cfd' = [cfd EXCEPT ![c] = NoFile]
             /\ UNCHANGED holder
    <2>1. \A f \in Files : holder[f] # c
      BY <1>1 DEF Locks, Owned
    <2>2. holder' = Unlocked(c)
      BY <1>3, <2>1 DEF Locks, Places, Unlocked
    <2> QED
      BY <1>1, <1>3, <2>2, CloseLocks DEF ClientStates
  <1> QED
    BY <1>2, <1>3 DEF ProbeLock, ReadIfHeld

(* The other steps of a command: the locks change only with a daemon that  *)
(* it signals.                                                             *)
LEMMA CommandLocks ==
    ASSUME IInv, NEW c \in Clients,
           \/ ProbeUnlink(c) \/ ReadPid(c) \/ Finish(c) \/ Again(c) \/ StartupPoll(c)
           \/ ChildExited(c) \/ SignalFails(c) \/ GracePoll(c)
           \/ \E k \in {"start", "stop", "status"} : Command(c, k)
    PROVE  Locks'
  <1>1. /\ pc[c] \notin {"lock", "unlock"} /\ UNCHANGED cfd
        /\ \E p \in ClientStates \ {"lock", "unlock"} : pc' = [pc EXCEPT ![c] = p]
        /\ UNCHANGED <<text, holder, dpc, dfd>> /\ link' \in {link, NoFile}
    BY DEF ProbeUnlink, ReadPid, Finish, Again, StartupPoll, ChildExited, SignalFails, GracePoll,
           Command, LoopPoll, Probe, Answer, Answered, Return, ClientStates, disk, daemons
  <1>2. Aside
    BY <1>1, ElsewhereAside DEF IInv
  <1> QED
    BY <1>1, <1>2, AsideLocks DEF IInv, Locks, Places

LEMMA SpawnLocks == ASSUME IInv, NEW c \in Clients, Spawn(c) PROVE Locks'
  <1>1. PICK d \in Daemons : dpc[d] = "unborn" /\ dpc' = [dpc EXCEPT ![d] = "boot"]
    BY DEF Spawn
  <1>2. Aside /\ UNCHANGED <<text, holder, dfd, link>>
    BY ElsewhereAside DEF IInv, Spawn, Answered, ClientStates, disk
  <1> QED
    BY <1>1, <1>2, MoveLocks DEF IInv, Locks, Places, DaemonStates, Holding

LEMMA SignalLocks ==
    ASSUME IInv, NEW c \in Clients, GiveUp(c) \/ Signal(c) \/ Kill(c) PROVE Locks'
  <1>1. Aside /\ UNCHANGED <<link, text>>
    BY ElsewhereAside DEF IInv, GiveUp, Signal, Kill, Answered, Return, Probe, ClientStates
  <1>2. \E d \in Daemons : Terminate(d) \/ Die(d) \/ UNCHANGED <<dpc, dfd, holder>>
    BY DEF GiveUp, Signal, Kill, IInv, Memories
  <1> QED
    BY <1>1, <1>2, TerminateLocks, DieLocks, AsideLocks DEF IInv, Locks, Places

LEMMA ClientLocks ==
    ASSUME IInv, NEW c \in Clients, ClientStep(c) \/ Abort(c) PROVE Locks'
  <1>1. CASE ProbeUnlock(c) \/ Abort(c)
    BY <1>1, CloseLocks DEF IInv, ProbeUnlock, Abort, Return, ClientStates, daemons
  <1> QED
    BY <1>1, ProbeOpenLocks, ProbeLockLocks, CommandLocks, SpawnLocks, SignalLocks
    DEF ClientStep, IInv

-----------------------------------------------------------------------------
(* The memories. *)

LEMMA ProbeMemories ==
    ASSUME IInv, NEW c \in Clients,
           ProbeOpen(c) \/ ProbeLock(c) \/ ProbeUnlock(c) \/ ProbeUnlink(c) \/ ReadPid(c)
    PROVE  Memories'
  <1>1. /\ UNCHANGED <<cmd, stage, peer, polls, corpses>> /\ overlap' \in BOOLEAN
        /\ \E p \in ClientStates \ {"loop"} : pc' = [pc EXCEPT ![c] = p]
        /\ \/ UNCHANGED seen
           \/ \E a \in Daemons \union {NotRunning, Blank} : seen' = [seen EXCEPT ![c] = a]
    BY DEF ProbeOpen, ProbeLock, ProbeUnlock, ProbeUnlink, ReadPid, Answer, ReadIfHeld, Enter,
           ClientStates, IInv, Locks, Places, Memories
  <1> QED
    BY <1>1 DEF IInv, Locks, Places, Memories

LEMMA ReturnMemories ==
    ASSUME IInv, NEW c \in Clients, Return(c), UNCHANGED overlap PROVE Memories'
  BY DEF IInv, Locks, Places, Memories, Return

LEMMA LoopMemories ==
    ASSUME IInv, NEW c \in Clients,
           \/ \E k \in {"start", "stop", "status"} : Command(c, k)
           \/ Spawn(c) \/ Again(c) \/ StartupPoll(c) \/ Signal(c) \/ GracePoll(c) \/ Kill(c)
    PROVE  Memories'
  <1> USE DEF IInv, Locks, Places, Memories, Probe, LoopPoll
  <1>1. CASE \E k \in {"start", "stop", "status"} : Command(c, k)
    BY <1>1 DEF Command, Gone
  <1>2. CASE Spawn(c)
    BY <1>2 DEF Spawn
  <1>3. CASE Again(c)
    BY <1>3 DEF Again
  <1>4. CASE StartupPoll(c) \/ GracePoll(c)
    BY <1>4 DEF StartupPoll, GracePoll
  <1>5. CASE Signal(c)
    BY <1>5 DEF Signal, Answered
  <1>6. CASE Kill(c)
    BY <1>6 DEF Kill
  <1> QED
    BY <1>1, <1>2, <1>3, <1>4, <1>5, <1>6

LEMMA ClientMemories ==
    ASSUME IInv, NEW c \in Clients, ClientStep(c) \/ Abort(c) PROVE Memories'
  <1>1. CASE Finish(c) \/ ChildExited(c) \/ GiveUp(c) \/ SignalFails(c) \/ Abort(c)
    BY <1>1, ReturnMemories DEF Finish, ChildExited, GiveUp, SignalFails, Abort
  <1> QED
    BY <1>1, ProbeMemories, LoopMemories DEF ClientStep

LEMMA DaemonMemories ==
    ASSUME IInv, NEW d \in Daemons, DaemonStep(d) \/ Crash(d) PROVE Memories'
  <1>1. UNCHANGED clients /\ overlap' \in BOOLEAN
    BY DEF DaemonStep, Crash, Open, Lock, Truncate, WritePid, Ready, WriteFails, ShutsDown,
           ReleaseName, ReleaseLock, Enter, IInv, Memories
  <1> QED
    BY <1>1 DEF IInv, Memories, clients

LEMMA NextInv == IInv /\ [Next]_vars => IInv'
  <1> SUFFICES ASSUME IInv, [Next]_vars PROVE IInv'
    OBVIOUS
  <1>1. ASSUME NEW d \in Daemons, DaemonStep(d) \/ Crash(d) PROVE IInv'
    BY <1>1, DaemonLocks, DaemonMemories DEF IInv
  <1>2. ASSUME NEW c \in Clients, ClientStep(c) \/ Abort(c) PROVE IInv'
    BY <1>2, ClientLocks, ClientMemories DEF IInv
  <1>3. ASSUME NEW c \in Clients, NEW k \in {"start", "stop", "status"}, Command(c, k)
        PROVE  IInv'
    BY <1>3, CommandLocks, LoopMemories DEF IInv
  <1>4. CASE UNCHANGED vars
    BY <1>4 DEF vars, disk, daemons, clients, IInv, Locks, Places, Descriptors, Owned, Marked,
                Memories
  <1> QED
    BY <1>1, <1>2, <1>3, <1>4 DEF Next

-----------------------------------------------------------------------------
(* The invariant that carries the others, in every reachable state.        *)
THEOREM Invariance == Spec => []IInv
  BY InitInv, NextInv, PTL DEF Spec

(* Every variable keeps its type; a command that waits for a process or    *)
(* signals one has its PID.                                                *)
THEOREM TypeCorrect == Spec => []TypeOK
  BY Invariance, Properties, PTL

(* No path out of acquire(), release() or is_daemon_running(), a crash, a  *)
(* signal or an interrupt included, leaves a lock behind; and the file an  *)
(* active daemon has locked holds that daemon's PID.                       *)
THEOREM LocksStayOwned == Spec => []LocksHaveOwners
  BY Invariance, Properties, PTL

-----------------------------------------------------------------------------
(* What holds as long as the processes have used the file one at a time.   *)

Acquiring == Locking \union {"unlinked"}
Keeping == {"opened", "locked", "truncated", "failed", "written", "running", "stopping"}
Ended == {"stopping", "unlinked", "refused", "dead"}

(* At most one process is inside acquire(), release() or a probe.          *)
Alone == /\ \A d, e \in Daemons : dpc[d] \in Acquiring /\ dpc[e] \in Acquiring => d = e
         /\ \A b, c \in Clients : pc[b] \in Probing /\ pc[c] \in Probing => b = c
         /\ \A d \in Daemons, c \in Clients : ~(dpc[d] \in Acquiring /\ pc[c] \in Probing)

(* Whoever has the file open has the one that daemon.pid names.            *)
Named == /\ \A d \in Daemons : dpc[d] \in Keeping => dfd[d] = link
         /\ \A c \in Clients : pc[c] \in {"lock", "unlock"} => cfd[c] = link

(* Whoever is about to unlink the name, or just did, finds no daemon.      *)
Emptied == /\ \A d \in Daemons : dpc[d] = "unlinked" => Active = {}
           /\ \A c \in Clients : pc[c] = "unlink" => Active = {}

Apart == overlap \/ (Alone /\ Named /\ Emptied)

(* The daemon that stop_daemon() has signalled is on its way out.          *)
Told == \A c \in Clients :
            cmd[c] = "stop" /\ (pc[c] = "loop" \/ stage[c] \in {"poll", "last"})
                => dpc[peer[c]] \in Ended

AInv == Apart /\ Told /\ StopIsTrueIfApart

(* A step in which nobody enters or unlinks the name.                      *)
Steady == /\ UNCHANGED <<link, overlap>>
          /\ \A d \in Daemons :
                /\ dpc'[d] \in Acquiring => dpc[d] \in Acquiring
                /\ dpc'[d] \in Keeping => dpc[d] \in Keeping /\ dfd'[d] = dfd[d]
                /\ dpc'[d] = "unlinked" => dpc[d] = "unlinked"
                /\ d \in Active' => d \in Active \/ dpc[d] = "truncated"
          /\ \A c \in Clients :
                /\ pc'[c] \in Probing => pc[c] \in Probing
                /\ pc'[c] \in {"lock", "unlock"} => pc[c] \in {"lock", "unlock"} /\ cfd'[c] = cfd[c]
                /\ pc'[c] = "unlink" => pc[c] = "unlink"

LEMMA SteadyApart == ASSUME Apart, Steady PROVE Apart'
  <1> SUFFICES ASSUME ~overlap PROVE (Alone /\ Named /\ Emptied)'
    BY DEF Apart, Steady
  <1>1. Alone /\ Named /\ Emptied
    BY DEF Apart
  <1>2. Alone'
    BY <1>1 DEF Alone, Steady
  <1>3. Named'
    BY <1>1 DEF Named, Steady
  <1>4. ASSUME NEW e \in Active',
               \/ \E d \in Daemons : dpc'[d] = "unlinked"
               \/ \E c \in Clients : pc'[c] = "unlink"
        PROVE  FALSE
    <2>1. e \in Daemons /\ dpc[e] = "truncated"
      BY <1>1, <1>4 DEF Steady, Emptied, Active
    <2> QED
      BY <1>1, <1>4, <2>1 DEF Steady, Alone, Acquiring, Locking, Probing
  <1>5. Emptied'
    BY <1>4 DEF Emptied
  <1> QED
    BY <1>2, <1>3, <1>5

(* As long as they are apart, there is at most one active daemon, and      *)
(* whoever else has a lock is inside a function of its own.                *)
LEMMA OneActive ==
    ASSUME IInv, Apart, ~overlap
    PROVE  /\ \A d \in Active : link = dfd[d] /\ link \in Files /\ holder[link] = d
           /\ OneDaemon
           /\ \A c \in Clients : pc[c] = "unlock" => Active = {}
           /\ \A d \in Daemons : dpc[d] \in {"locked", "truncated", "failed"} => Active = {}
           /\ link = NoFile => Active = {}
  <1>1. \A d \in Daemons : dpc[d] \in Keeping \ {"opened"} => 
           dfd[d] = link /\ link \in Files /\ holder[link] = d
    BY DEF Apart, Named, Keeping, IInv, Locks, Descriptors, Owned, Holding
  <1>2. \A d \in Active : link = dfd[d] /\ link \in Files /\ holder[link] = d
    BY <1>1 DEF Active, Keeping
  <1>3. \A c \in Clients : pc[c] = "unlock" => link \in Files /\ holder[link] = c
    BY DEF Apart, Named, IInv, Locks, Descriptors, Owned
  <1>4. \A d \in Daemons : dpc[d] \in {"locked", "truncated", "failed"} => Active = {}
    BY <1>1, <1>2 DEF Active, Keeping
  <1> QED
    BY <1>2, <1>3, <1>4, NamesAssumption DEF OneDaemon, Active

(* A daemon that ends, is told to, or is only a child to be.               *)
LEMMA TerminateSteady ==
    ASSUME IInv, NEW d \in Daemons,
           Terminate(d) \/ Die(d) \/ UNCHANGED <<dpc, dfd>>
    PROVE  /\ \A e \in Daemons :
                /\ dpc'[e] \in Acquiring => dpc[e] \in Acquiring
                /\ dpc'[e] \in Keeping => dpc[e] \in Keeping /\ dfd'[e] = dfd[e]
                /\ dpc'[e] = "unlinked" => dpc[e] = "unlinked"
                /\ e \in Active' => e \in Active
                /\ dpc[e] \in Ended => dpc'[e] \in Ended
           /\ Terminate(d) \/ Die(d) => dpc'[d] \in Ended
  <1>1. CASE Die(d)
    BY <1>1 DEF Die, IInv, Locks, Places, Acquiring, Locking, Keeping, Active, Ended
  <1>2. CASE UNCHANGED <<dpc, dfd>> /\ ~Terminate(d)
    BY <1>1, <1>2 DEF Active
  <1>3. CASE dpc[d] = "running" /\ dpc' = [dpc EXCEPT ![d] = "stopping"] /\ UNCHANGED dfd
    BY <1>3 DEF IInv, Locks, Places, Acquiring, Locking, Keeping, Active, Ended
  <1>4. CASE (dpc[d] = "stopping" \/ d \in Gone) /\ UNCHANGED <<dpc, dfd>>
    BY <1>4 DEF Gone, Active, Ended
  <1> QED
    BY <1>1, <1>2, <1>3, <1>4 DEF Terminate

LEMMA DaemonSteady ==
    ASSUME IInv, NEW d \in Daemons,
           \/ Lock(d) \/ Truncate(d) \/ WritePid(d) \/ Ready(d) \/ WriteFails(d)
           \/ ShutsDown(d) \/ ReleaseLock(d) \/ Crash(d)
    PROVE  Steady
  <1> USE DEF IInv, Locks, Places, Steady, Acquiring, Locking, Keeping, Active
  <1>1. UNCHANGED <<link, overlap, pc, cfd>>
    BY DEF Lock, Truncate, WritePid, Ready, WriteFails, ShutsDown, ReleaseLock, Crash, disk,
           clients
  <1>2. CASE Lock(d)
    BY <1>1, <1>2 DEF Lock
  <1>3. CASE Truncate(d) \/ WritePid(d)
    BY <1>1, <1>3 DEF Truncate, WritePid
  <1>4. CASE Ready(d) \/ WriteFails(d) \/ ShutsDown(d)
    BY <1>1, <1>4 DEF Ready, WriteFails, ShutsDown
  <1>5. CASE ReleaseLock(d) \/ Crash(d)
    BY <1>1, <1>5 DEF ReleaseLock, Crash, Die
  <1> QED
    BY <1>2, <1>3, <1>4, <1>5

LEMMA ClientSteady ==
    ASSUME IInv, NEW c \in Clients,
           \/ ProbeLock(c) \/ ReadPid(c) \/ Finish(c) \/ Again(c) \/ StartupPoll(c)
           \/ ChildExited(c) \/ SignalFails(c) \/ GracePoll(c) \/ Abort(c)
           \/ \E k \in {"start", "stop", "status"} : Command(c, k)
    PROVE  Steady
  <1>1. UNCHANGED <<link, overlap, dpc, dfd>>
    BY DEF ProbeLock, ReadPid, Finish, Again, StartupPoll, ChildExited, SignalFails, GracePoll,
           Abort, Command, LoopPoll, disk, daemons
  <1>2. /\ \E p \in ClientStates : pc' = [pc EXCEPT ![c] = p]
        /\ pc'[c] \in Probing => pc[c] \in Probing
        /\ pc'[c] \in {"lock", "unlock"} => pc[c] = "lock" /\ cfd' = cfd
        /\ pc'[c] # "unlink"
        /\ \A b \in Clients \ {c} : cfd'[b] = cfd[b]
    BY DEF ProbeLock, ReadIfHeld, ReadPid, Finish, Again, StartupPoll, ChildExited, SignalFails,
           GracePoll, Abort, Command, LoopPoll, Probe, Answer, Return, ClientStates, Probing,
           IInv, Locks, Places
  <1> QED
    BY <1>1, <1>2 DEF Steady, Active, IInv, Locks, Places

(* The steps of a command that change a daemon's state.                    *)
LEMMA SignalSteady ==
    ASSUME IInv, NEW c \in Clients, Spawn(c) \/ GiveUp(c) \/ Signal(c) \/ Kill(c)
    PROVE  Steady
  <1>1. UNCHANGED <<link, overlap, cfd>>
    BY DEF Spawn, GiveUp, Signal, Kill, disk
  <1>2. \E p \in ClientStates \ Probing : pc' = [pc EXCEPT ![c] = p]
    BY DEF Spawn, GiveUp, Signal, Kill, Return, Probe, ClientStates, Probing
  <1>3. \A b \in Clients : pc'[b] \in Probing => pc'[b] = pc[b]
    BY <1>2 DEF IInv, Locks, Places
  <1>4. CASE Spawn(c)
    <2>1. UNCHANGED dfd /\ \E d \in Daemons : dpc' = [dpc EXCEPT ![d] = "boot"]
      BY <1>4 DEF Spawn
    <2> QED
      BY <1>1, <1>3, <2>1 DEF Steady, Acquiring, Locking, Keeping, Active, Probing,
                              IInv, Locks, Places
  <1>5. CASE GiveUp(c) \/ Signal(c) \/ Kill(c)
    <2>1. \E d \in Daemons : Terminate(d) \/ Die(d) \/ UNCHANGED <<dpc, dfd>>
      BY <1>5 DEF GiveUp, Signal, Kill, IInv, Memories
    <2> QED
      BY <1>1, <1>3, <2>1, TerminateSteady DEF Steady, Probing
  <1> QED
    BY <1>4, <1>5

-----------------------------------------------------------------------------
(* The steps that enter, and those that unlink the name. *)

LEMMA OpenApart == ASSUME IInv, Apart, NEW d \in Daemons, Open(d) PROVE Apart'
  <1> SUFFICES ASSUME ~overlap' PROVE (Alone /\ Named /\ Emptied)'
    BY DEF Apart
  <1>1. /\ ~overlap /\ UNCHANGED <<pc, cfd>>
        /\ \A e \in Daemons \ {d} : dpc[e] \notin Acquiring
        /\ \A c \in Clients : pc[c] \notin Probing
    BY NamesAssumption DEF Open, Enter, Acquiring, clients
  <1>2. /\ dpc[d] = "boot" /\ dpc' = [dpc EXCEPT ![d] = "opened"]
        /\ \E f \in Files \union {NoFile} :
              /\ dfd' = [dfd EXCEPT ![d] = f] /\ link' = f
              /\ link # NoFile => link' = link
    BY DEF Open, IInv, Locks, Places
  <1>3. \A e \in Daemons : /\ dpc'[e] = IF e = d THEN "opened" ELSE dpc[e]
                           /\ dfd'[e] = IF e = d THEN link' ELSE dfd[e]
    BY <1>2 DEF IInv, Locks, Places
  <1>4. Alone' /\ Emptied'
    BY <1>1, <1>3 DEF Alone, Emptied, Acquiring, Locking, Probing
  <1>5. ASSUME NEW e \in Daemons \ {d}, dpc'[e] \in Keeping PROVE dfd'[e] = link'
    <2>1. e \in Active
      BY <1>1, <1>3, <1>5 DEF Keeping, Acquiring, Locking, Active
    <2> QED
      BY <1>1, <1>2, <1>3, <2>1, OneActive, NamesAssumption
  <1>6. Named'
    BY <1>1, <1>3, <1>5 DEF Named, Probing
  <1> QED
    BY <1>4, <1>6

LEMMA ReleaseNameApart == ASSUME IInv, Apart, NEW d \in Daemons, ReleaseName(d) PROVE Apart'
  <1> SUFFICES ASSUME ~overlap' PROVE (Alone /\ Named /\ Emptied)'
    BY DEF Apart
  <1>1. /\ ~overlap /\ UNCHANGED <<dfd, pc, cfd>>
        /\ dpc[d] \in {"stopping", "failed"} /\ dpc' = [dpc EXCEPT ![d] = "unlinked"]
        /\ \A e \in Daemons \ {d} : dpc[e] \notin Acquiring
        /\ \A c \in Clients : pc[c] \notin Probing
    BY NamesAssumption DEF ReleaseName, Enter, Acquiring, clients
  <1>2. \A e \in Daemons : dpc'[e] = IF e = d THEN "unlinked" ELSE dpc[e]
    BY <1>1 DEF IInv, Locks, Places
  <1>3. Active' = {}
    <2>1. Active \subseteq {d}
      BY <1>1, OneActive DEF OneDaemon, Active
    <2> QED
      BY <1>2, <2>1 DEF Active
  <1>4. Alone' /\ Emptied'
    BY <1>1, <1>2, <1>3 DEF Alone, Emptied, Acquiring, Locking, Probing
  <1>5. Named'
    BY <1>1, <1>2, <1>3 DEF Named, Keeping, Acquiring, Locking, Active, Probing
  <1> QED
    BY <1>4, <1>5

LEMMA ProbeApart ==
    ASSUME IInv, Apart, NEW c \in Clients, ProbeOpen(c) \/ ProbeUnlock(c) \/ ProbeUnlink(c)
    PROVE  Apart'
  <1> SUFFICES ASSUME ~overlap' PROVE (Alone /\ Named /\ Emptied)'
    BY DEF Apart
  <1>a. UNCHANGED <<dpc, dfd>> /\ (UNCHANGED overlap \/ Enter(c))
    BY DEF ProbeOpen, ProbeUnlock, ProbeUnlink, daemons
  <1>b. ~overlap
    BY <1>a DEF Enter
  <1>1. ~overlap /\ UNCHANGED <<dpc, dfd>> /\ Alone /\ Named /\ Emptied
    BY <1>a, <1>b DEF Apart
  <1>2. Active' = Active
    BY <1>1 DEF Active
  <1>3. CASE ProbeOpen(c) /\ link = NoFile
    <2>1. UNCHANGED <<link, cfd>> /\ pc' = [pc EXCEPT ![c] = "answered"]
      BY <1>3 DEF ProbeOpen, Answer, disk
    <2>2. \A b \in Clients : pc'[b] = IF b = c THEN "answered" ELSE pc[b]
      BY <2>1 DEF IInv, Locks, Places
    <2> QED
      BY <1>1, <1>2, <2>1, <2>2 DEF Alone, Named, Emptied, Probing
  <1>4. CASE ProbeOpen(c) /\ link # NoFile
    <2>1. /\ UNCHANGED link /\ pc' = [pc EXCEPT ![c] = "lock"] /\ cfd' = [cfd EXCEPT ![c] = link]
          /\ \A d \in Daemons : dpc[d] \notin Acquiring
          /\ \A b \in Clients \ {c} : pc[b] \notin Probing
      BY <1>4, NamesAssumption DEF ProbeOpen, Enter, Acquiring, disk
    <2>2. \A b \in Clients : /\ pc'[b] = IF b = c THEN "lock" ELSE pc[b]
                             /\ cfd'[b] = IF b = c THEN link ELSE cfd[b]
      BY <2>1 DEF IInv, Locks, Places
    <2> QED
      BY <1>1, <1>2, <2>1, <2>2 DEF Alone, Named, Emptied, Probing
  <1>5. CASE ProbeUnlock(c)
    <2>1. /\ UNCHANGED link /\ pc[c] = "unlock" /\ pc' = [pc EXCEPT ![c] = "unlink"]
          /\ cfd' = [cfd EXCEPT ![c] = NoFile]
      BY <1>5 DEF ProbeUnlock
    <2>2. \A b \in Clients : /\ pc'[b] = IF b = c THEN "unlink" ELSE pc[b]
                             /\ b # c => cfd'[b] = cfd[b]
      BY <2>1 DEF IInv, Locks, Places
    <2>3. Active = {}
      BY <1>1, <2>1, OneActive
    <2> QED
      BY <1>1, <1>2, <2>1, <2>2, <2>3 DEF Alone, Named, Emptied, Probing
  <1>6. CASE ProbeUnlink(c)
    <2>1. UNCHANGED cfd /\ pc[c] = "unlink" /\ pc' = [pc EXCEPT ![c] = "answered"]
      BY <1>6 DEF ProbeUnlink, Answer
    <2>2. \A b \in Clients : pc'[b] = IF b = c THEN "answered" ELSE pc[b]
      BY <2>1 DEF IInv, Locks, Places
    <2>3. Active = {}
      BY <1>1, <2>1 DEF Emptied
    <2>4. \A d \in Daemons : dpc[d] \notin Keeping
      BY <1>1, <2>1, <2>3 DEF Alone, Keeping, Acquiring, Locking, Active, Probing
    <2>5. \A b \in Clients : pc'[b] \notin {"lock", "unlock"}
      BY <1>1, <2>1, <2>2 DEF Alone, Probing
    <2> QED
      BY <1>1, <1>2, <2>2, <2>4, <2>5, <2>3 DEF Alone, Named, Emptied, Probing
  <1> QED
    BY <1>3, <1>4, <1>5, <1>6

LEMMA NextApart == ASSUME IInv, Apart, Next PROVE Apart'
  <1>1. ASSUME NEW d \in Daemons, DaemonStep(d) \/ Crash(d) PROVE Apart'
    BY <1>1, DaemonSteady, SteadyApart, OpenApart, ReleaseNameApart DEF DaemonStep
  <1>2. ASSUME NEW c \in Clients, ClientStep(c) \/ Abort(c) PROVE Apart'
    BY <1>2, ClientSteady, SignalSteady, SteadyApart, ProbeApart DEF ClientStep
  <1>3. ASSUME NEW c \in Clients, NEW k \in {"start", "stop", "status"}, Command(c, k)
        PROVE  Apart'
    BY <1>3, ClientSteady, SteadyApart
  <1> QED
    BY <1>1, <1>2, <1>3 DEF Next

-----------------------------------------------------------------------------
(* What stop_daemon() is told. *)

LEMMA EndedStays ==
    ASSUME IInv, Next, NEW d \in Daemons, dpc[d] \in Ended
    PROVE  dpc'[d] \in Ended /\ (dpc'[d] = "stopping" => dpc[d] = "stopping")
  <1> DEFINE Stays == dpc'[d] \in Ended /\ (dpc'[d] = "stopping" => dpc[d] = "stopping")
  <1> SUFFICES Stays
    OBVIOUS
  <1>1. ASSUME NEW e \in Daemons, DaemonStep(e) \/ Crash(e) PROVE Stays
    BY <1>1 DEF DaemonStep, Crash, Open, Lock, Truncate, WritePid, Ready, WriteFails, ShutsDown,
                ReleaseName, ReleaseLock, Die, Ended, IInv, Locks, Places
  <1>2. ASSUME NEW c \in Clients, GiveUp(c) \/ Signal(c) \/ Kill(c) PROVE Stays
    <2>1. \E e \in Daemons : Terminate(e) \/ Die(e) \/ UNCHANGED <<dpc, dfd>>
      BY <1>2 DEF GiveUp, Signal, Kill, IInv, Memories
    <2> QED
      BY <2>1, TerminateSteady DEF Keeping, Ended
  <1>3. ASSUME NEW c \in Clients, Spawn(c) PROVE Stays
    BY <1>3 DEF Spawn, Ended, IInv, Locks, Places
  <1>4. ASSUME UNCHANGED dpc PROVE Stays
    BY <1>4
  <1> QED
    BY <1>1, <1>2, <1>3, <1>4
    DEF Next, ClientStep, Abort, Command, ProbeOpen, ProbeLock, ProbeUnlock, ProbeUnlink, ReadPid,
        Finish, Again, StartupPoll, ChildExited, SignalFails, GracePoll, LoopPoll, daemons

(* A command that is not stop, or is in its first probe, has told no one.  *)
Telling(c) == cmd[c] = "stop" /\ (pc[c] = "loop" \/ stage[c] \in {"poll", "last"})

LEMMA TellingSteps ==
    ASSUME IInv, Next, NEW c \in Clients, Telling(c)'
    PROVE  \/ Telling(c) /\ peer'[c] = peer[c]
           \/ Signal(c) /\ peer'[c] = seen[c] /\ seen[c] \in Daemons
  <1> USE DEF Telling, IInv, Locks, Places, Memories
  <1>1. ASSUME NEW d \in Daemons, DaemonStep(d) \/ Crash(d)
        PROVE  Telling(c) /\ peer'[c] = peer[c]
    <2>1. UNCHANGED clients
      BY <1>1 DEF DaemonStep, Crash, Open, Lock, Truncate, WritePid, Ready, WriteFails,
                  ShutsDown, ReleaseName, ReleaseLock
    <2> QED
      BY <2>1 DEF clients
  <1>2. ASSUME NEW b \in Clients,
               ProbeOpen(b) \/ ProbeLock(b) \/ ProbeUnlock(b) \/ ProbeUnlink(b) \/ ReadPid(b)
        PROVE  Telling(c) /\ peer'[c] = peer[c]
    <2>1. /\ UNCHANGED <<cmd, stage, peer>>
          /\ \E p \in ClientStates \ {"loop"} : pc' = [pc EXCEPT ![b] = p]
      BY <1>2 DEF ProbeOpen, ProbeLock, ProbeUnlock, ProbeUnlink, ReadPid, Answer, ReadIfHeld,
                  ClientStates
    <2> QED
      BY <2>1
  <1>3. ASSUME NEW b \in Clients,
               Finish(b) \/ ChildExited(b) \/ GiveUp(b) \/ SignalFails(b) \/ Abort(b)
        PROVE  Telling(c) /\ peer'[c] = peer[c]
    <2>1. Return(b)
      BY <1>3 DEF Finish, ChildExited, GiveUp, SignalFails, Abort
    <2> QED
      BY <2>1 DEF Return
  <1>4. ASSUME NEW b \in Clients, NEW k \in {"start", "stop", "status"}, Command(b, k)
        PROVE  Telling(c) /\ peer'[c] = peer[c]
    BY <1>4 DEF Command, Probe
  <1>5. ASSUME NEW b \in Clients, Spawn(b) PROVE Telling(c) /\ peer'[c] = peer[c]
    BY <1>5 DEF Spawn, Answered
  <1>6. ASSUME NEW b \in Clients, Again(b) PROVE Telling(c) /\ peer'[c] = peer[c]
    BY <1>6 DEF Again
  <1>7. ASSUME NEW b \in Clients, StartupPoll(b) \/ GracePoll(b) \/ Kill(b)
        PROVE  Telling(c) /\ peer'[c] = peer[c]
    BY <1>7 DEF StartupPoll, GracePoll, LoopPoll, Kill, Probe
  <1>8. ASSUME NEW b \in Clients, Signal(b)
        PROVE  \/ Telling(c) /\ peer'[c] = peer[c]
               \/ Signal(c) /\ peer'[c] = seen[c] /\ seen[c] \in Daemons
    BY <1>8 DEF Signal
  <1> QED
    BY <1>1, <1>2, <1>3, <1>4, <1>5, <1>6, <1>7, <1>8 DEF Next, ClientStep

LEMMA NextTold == ASSUME IInv, Told, Next PROVE Told'
  <1> SUFFICES ASSUME NEW c \in Clients, Telling(c)' PROVE dpc'[peer'[c]] \in Ended
    BY DEF Told, Telling
  <1>1. CASE Telling(c) /\ peer'[c] = peer[c]
    <2>1. peer[c] \in Daemons /\ dpc[peer[c]] \in Ended
      BY <1>1 DEF Telling, Told, IInv, Memories
    <2> QED
      BY <1>1, <2>1, EndedStays
  <1>2. CASE Signal(c) /\ peer'[c] = seen[c] /\ seen[c] \in Daemons
    BY <1>2, TerminateSteady DEF Signal
  <1> QED
    BY <1>1, <1>2, TellingSteps

(* How a command comes to know that no daemon is running.                  *)
LEMMA AnswerSteps ==
    ASSUME IInv, Next, NEW c \in Clients, pc'[c] = "answered", seen'[c] = NotRunning
    PROVE  \/ pc[c] = "answered" /\ seen[c] = NotRunning
           \/ ProbeOpen(c) /\ link = NoFile
           \/ ProbeUnlink(c)
  <1> USE DEF IInv, Locks, Places, Memories
  <1> DEFINE Knew == pc[c] = "answered" /\ seen[c] = NotRunning
  <1>1. ASSUME NEW d \in Daemons, DaemonStep(d) \/ Crash(d) PROVE Knew
    <2>1. UNCHANGED clients
      BY <1>1 DEF DaemonStep, Crash, Open, Lock, Truncate, WritePid, Ready, WriteFails,
                  ShutsDown, ReleaseName, ReleaseLock
    <2> QED
      BY <2>1 DEF clients
  <1>2. ASSUME NEW b \in Clients,
               \/ ProbeLock(b) \/ ProbeUnlock(b) \/ Spawn(b) \/ Again(b) \/ StartupPoll(b)
               \/ Signal(b) \/ GracePoll(b) \/ Kill(b)
               \/ \E k \in {"start", "stop", "status"} : Command(b, k)
        PROVE  Knew
    <2>1. UNCHANGED seen /\ \E p \in ClientStates \ {"answered"} : pc' = [pc EXCEPT ![b] = p]
      BY <1>2 DEF ProbeLock, ReadIfHeld, ProbeUnlock, Spawn, Again, StartupPoll, Signal, GracePoll,
                  LoopPoll, Kill, Command, Probe, ClientStates
    <2> QED
      BY <2>1
  <1>3. ASSUME NEW b \in Clients,
               Finish(b) \/ ChildExited(b) \/ GiveUp(b) \/ SignalFails(b) \/ Abort(b)
        PROVE  Knew
    <2>1. Return(b)
      BY <1>3 DEF Finish, ChildExited, GiveUp, SignalFails, Abort
    <2> QED
      BY <2>1 DEF Return
  <1>4. ASSUME NEW b \in Clients, ProbeOpen(b) \/ ProbeUnlink(b)
        PROVE  Knew \/ (ProbeOpen(c) /\ link = NoFile) \/ ProbeUnlink(c)
    BY <1>4 DEF ProbeOpen, ProbeUnlink, Answer
  <1>5. ASSUME NEW b \in Clients, ReadPid(b) PROVE Knew
    <2>1. \E a \in Daemons \union {Blank} :
             pc' = [pc EXCEPT ![b] = "answered"] /\ seen' = [seen EXCEPT ![b] = a]
      BY <1>5 DEF ReadPid, Answer
    <2>2. NotRunning \notin Daemons \union {Blank}
      BY AnswersAssumption DEF NotRunning, Blank
    <2> QED
      BY <2>1, <2>2
  <1> QED
    BY <1>1, <1>2, <1>3, <1>4, <1>5 DEF Next, ClientStep

LEMMA NextStopIsTrue == ASSUME IInv, AInv, Next PROVE StopIsTrueIfApart'
  <1> SUFFICES ASSUME ~overlap', NEW c \in Clients, Telling(c)', pc'[c] = "answered",
                      seen'[c] = NotRunning, peer'[c] \in Active'
               PROVE  FALSE
    BY DEF StopIsTrueIfApart, Answered, Telling
  <1>1. ~overlap
    <2>1. \/ overlap' = overlap
          \/ \E d \in Daemons : Enter(d)
          \/ \E b \in Clients : Enter(b)
      BY DEF Next, DaemonStep, Crash, Open, Lock, Truncate, WritePid, Ready, WriteFails,
             ShutsDown, ReleaseName, ReleaseLock, ClientStep, Abort, Command, ProbeOpen, ProbeLock,
             ProbeUnlock, ProbeUnlink, ReadPid, Finish, Spawn, Again, StartupPoll, ChildExited,
             GiveUp, Signal, SignalFails, GracePoll, Kill, LoopPoll
    <2> QED
      BY <2>1 DEF Enter
  <1>2. Telling(c) /\ peer'[c] = peer[c]
    <2>1. ~Signal(c)
      BY DEF Signal, IInv, Locks, Places
    <2> QED
      BY <2>1, TellingSteps
  <1>3. peer[c] \in Daemons /\ dpc[peer[c]] \in Ended
    BY <1>2 DEF Telling, AInv, Told, IInv, Memories
  <1>4. peer[c] \in Active
    BY <1>2, <1>3, EndedStays DEF Active, Ended
  <1>5. ~(pc[c] = "answered" /\ seen[c] = NotRunning)
    BY <1>1, <1>2, <1>4 DEF AInv, StopIsTrueIfApart, Answered, Telling, IInv, Memories
  <1>6. ProbeUnlink(c) => Active = {}
    BY <1>1 DEF ProbeUnlink, AInv, Apart, Emptied
  <1>7. link = NoFile => Active = {}
    BY <1>1, OneActive DEF AInv
  <1> QED
    BY <1>4, <1>5, <1>6, <1>7, AnswerSteps

-----------------------------------------------------------------------------
(* Who makes a probe or a launch fail. *)

LEMMA HolderIsActive ==
    ASSUME IInv, Apart, ~overlap, NEW f \in Files, f = link, holder[f] # Nobody,
           \/ \E c \in Clients : pc[c] = "lock"
           \/ \E d \in Daemons : dpc[d] = "opened"
    PROVE  holder[f] \in Active /\ text[f] = holder[f]
  <1>1. holder[f] \in Daemons \union Clients
    BY DEF IInv, Locks, Places
  <1>2. holder[f] \notin Clients
    BY DEF IInv, Locks, Owned, Apart, Alone, Probing, Acquiring, Locking
  <1>3. holder[f] \in Daemons /\ dfd[holder[f]] = f /\ dpc[holder[f]] \in Holding
    BY <1>1, <1>2 DEF IInv, Locks, Owned
  <1>4. dpc[holder[f]] \notin Acquiring
    BY <1>3 DEF Apart, Alone, Probing, Acquiring, Locking, Holding
  <1> QED
    BY <1>3, <1>4 DEF Holding, Acquiring, Locking, Active, IInv, Locks, Marked

LEMMA ProbeFails ==
    ASSUME IInv, Next, NEW c \in Clients, pc[c] = "lock", pc'[c] = "read"
    PROVE  cfd[c] \in Files /\ holder[cfd[c]] # Nobody
  <1>1. cfd[c] \in Files
    BY DEF IInv, Locks, Descriptors
  <1>2. ASSUME NEW d \in Daemons, DaemonStep(d) \/ Crash(d) PROVE FALSE
    <2>1. UNCHANGED clients
      BY <1>2 DEF DaemonStep, Crash, Open, Lock, Truncate, WritePid, Ready, WriteFails,
                  ShutsDown, ReleaseName, ReleaseLock
    <2> QED
      BY <2>1 DEF clients
  <1>3. ASSUME NEW b \in Clients, ClientStep(b) \/ Abort(b) \/
                                  \E k \in {"start", "stop", "status"} : Command(b, k)
        PROVE  ProbeLock(b) \/ \E p \in ClientStates \ {"read"} : pc' = [pc EXCEPT ![b] = p]
    BY <1>3 DEF ClientStep, Abort, Command, ProbeOpen, ProbeUnlock, ProbeUnlink, ReadPid, Finish,
                Spawn, Again, StartupPoll, ChildExited, GiveUp, Signal, SignalFails, GracePoll,
                Kill, LoopPoll, Probe, Answer, Return, ClientStates
  <1>4. ASSUME NEW b \in Clients, NEW p \in ClientStates \ {"read"}, pc' = [pc EXCEPT ![b] = p]
        PROVE  FALSE
    BY <1>4 DEF IInv, Locks, Places
  <1>5. ASSUME NEW b \in Clients, ProbeLock(b) PROVE holder[cfd[c]] # Nobody
    BY <1>5 DEF ProbeLock, IInv, Locks, Places
  <1> QED
    BY <1>1, <1>2, <1>3, <1>4, <1>5 DEF Next

LEMMA LaunchFails ==
    ASSUME IInv, Next, NEW d \in Daemons, dpc[d] = "opened", dpc'[d] = "refused"
    PROVE  dfd[d] \in Files /\ holder[dfd[d]] # Nobody
  <1>1. dfd[d] \in Files
    BY DEF IInv, Locks, Descriptors
  <1>2. ASSUME NEW e \in Daemons, Lock(e) PROVE holder[dfd[d]] # Nobody
    BY <1>2 DEF Lock, IInv, Locks, Places
  <1>3. ASSUME NEW e \in Daemons, NEW s \in DaemonStates \ {"refused"},
               dpc' = [dpc EXCEPT ![e] = s]
        PROVE  FALSE
    BY <1>3 DEF IInv, Locks, Places
  <1>4. ASSUME UNCHANGED dpc PROVE FALSE
    BY <1>4
  <1>5. ASSUME NEW e \in Daemons, DaemonStep(e) \/ Crash(e)
        PROVE  Lock(e) \/ \E s \in DaemonStates \ {"refused"} : dpc' = [dpc EXCEPT ![e] = s]
    BY <1>5 DEF DaemonStep, Crash, Open, Truncate, WritePid, Ready, WriteFails, ShutsDown,
                ReleaseName, ReleaseLock, Die, DaemonStates
  <1>6. ASSUME NEW c \in Clients, Spawn(c) \/ GiveUp(c) \/ Signal(c) \/ Kill(c)
        PROVE  \/ \E e \in Daemons, s \in DaemonStates \ {"refused"} :
                    dpc' = [dpc EXCEPT ![e] = s]
               \/ UNCHANGED dpc
    BY <1>6 DEF Spawn, GiveUp, Signal, Kill, Terminate, Die, DaemonStates, IInv, Memories
  <1>7. ASSUME NEW c \in Clients, ClientStep(c) \/ Abort(c) \/
                                  \E k \in {"start", "stop", "status"} : Command(c, k)
        PROVE  Spawn(c) \/ GiveUp(c) \/ Signal(c) \/ Kill(c) \/ UNCHANGED dpc
    BY <1>7 DEF ClientStep, Abort, Command, ProbeOpen, ProbeLock, ProbeUnlock, ProbeUnlink,
                ReadPid, Finish, Again, StartupPoll, ChildExited, SignalFails, GracePoll,
                LoopPoll, daemons
  <1> QED
    BY <1>1, <1>2, <1>3, <1>4, <1>5, <1>6, <1>7 DEF Next

(* The action of LockFailureMeansDaemonIfApart.                            *)
LockFailureMeansDaemon ==
    /\ \A c \in Clients :
          pc[c] = "lock" /\ pc'[c] = "read" /\ ~overlap
              => /\ holder[cfd[c]] \in Active
                 /\ link # NoFile
                 /\ text[link] = holder[cfd[c]]
    /\ \A d \in Daemons :
          dpc[d] = "opened" /\ dpc'[d] = "refused" /\ ~overlap
              => holder[dfd[d]] \in Active

LEMMA NextLockFailure == IInv /\ AInv /\ [Next]_vars => [LockFailureMeansDaemon]_vars
  <1> SUFFICES ASSUME IInv, AInv, Next PROVE LockFailureMeansDaemon
    OBVIOUS
  <1>1. ASSUME NEW c \in Clients, pc[c] = "lock", pc'[c] = "read", ~overlap
        PROVE  holder[cfd[c]] \in Active /\ link # NoFile /\ text[link] = holder[cfd[c]]
    <2>1. cfd[c] \in Files /\ holder[cfd[c]] # Nobody /\ cfd[c] = link
      BY <1>1, ProbeFails DEF AInv, Apart, Named
    <2> QED
      BY <1>1, <2>1, HolderIsActive, NamesAssumption DEF AInv
  <1>2. ASSUME NEW d \in Daemons, dpc[d] = "opened", dpc'[d] = "refused", ~overlap
        PROVE  holder[dfd[d]] \in Active
    <2>1. dfd[d] \in Files /\ holder[dfd[d]] # Nobody /\ dfd[d] = link
      BY <1>2, LaunchFails DEF AInv, Apart, Named, Keeping
    <2> QED
      BY <1>2, <2>1, HolderIsActive DEF AInv
  <1> QED
    BY <1>1, <1>2 DEF LockFailureMeansDaemon

LEMMA InitApart == Init => AInv
  BY DEF Init, AInv, Apart, Alone, Named, Emptied, Told, StopIsTrueIfApart, Answered, Acquiring,
         Locking, Keeping, Probing, Active

LEMMA KeepApart == IInv /\ AInv /\ [Next]_vars => AInv'
  <1> SUFFICES ASSUME IInv, AInv, [Next]_vars PROVE AInv'
    OBVIOUS
  <1>1. CASE Next
    BY <1>1, NextApart, NextTold, NextStopIsTrue DEF AInv
  <1>2. CASE UNCHANGED vars
    BY <1>2 DEF vars, disk, daemons, clients, AInv, Apart, Alone, Named, Emptied, Told,
                StopIsTrueIfApart, Answered, Active
  <1> QED
    BY <1>1, <1>2

LEMMA ApartInvariance == Spec => []AInv
  BY Invariance, InitApart, KeepApart, PTL DEF Spec

(* As long as acquire(), release() and the probes of different processes   *)
(* have not overlapped there is one active daemon at most, and daemon.pid  *)
(* names the file it has locked: "mutual exclusion", crashes included.     *)
THEOREM OneDaemonAtATime == Spec => []OneDaemonIfApart
  <1>1. IInv /\ AInv => OneDaemonIfApart
    BY OneActive DEF AInv, OneDaemonIfApart
  <1> QED
    BY <1>1, Invariance, ApartInvariance, PTL

(* As long as they have not overlapped, stop_daemon() returns True only    *)
(* when the daemon it signalled is gone, and a probe or a launch fails to  *)
(* get the lock only because of a daemon, whose PID the probe then reads.  *)
THEOREM AnswersAreTrue == Spec => AnswersAreTrueIfApart
  <1>1. AInv' => [StopIsTrueIfApart']_vars
    BY DEF AInv
  <1>2. Spec => [][StopIsTrueIfApart']_vars
    BY <1>1, ApartInvariance, PTL
  <1>3. Spec => [][LockFailureMeansDaemon]_vars
    BY NextLockFailure, Invariance, ApartInvariance, PTL DEF Spec
  <1>4. [][LockFailureMeansDaemon]_vars => LockFailureMeansDaemonIfApart
    BY DEF LockFailureMeansDaemon, LockFailureMeansDaemonIfApart
  <1> QED
    BY <1>2, <1>3, <1>4 DEF AnswersAreTrueIfApart
=============================================================================
