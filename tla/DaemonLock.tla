----------------------------- MODULE DaemonLock -----------------------------
(***************************************************************************)
(* The PID file of daemon.py and everything that races on it, one system   *)
(* call at a time: DaemonLock.acquire() and release() in the daemon        *)
(* processes, is_daemon_running() in the commands "ghost start", "ghost    *)
(* stop" and "ghost status", the signals the commands send, and crashes.   *)
(*                                                                         *)
(* A lock belongs to a file (an inode), not to the name daemon.pid: the    *)
(* name can be unlinked while a process holds or is about to lock the file.*)
(***************************************************************************)
EXTENDS Integers, FiniteSets

CONSTANTS Daemons,     \* daemon processes, each with a PID of its own
          Clients,     \* processes that run the commands
          Files,       \* inodes
          NoFile,      \* the name is not there; no descriptor
          Nobody,      \* the lock is free; no process
          GracePolls   \* bound on the polls of stop_daemon's grace period

ASSUME NamesAssumption ==
    /\ NoFile \notin Files
    /\ Nobody \notin Daemons \union Clients
    /\ Daemons \intersect Clients = {}
ASSUME BoundsAssumption == GracePolls \in Nat \ {0}

(* _STARTUP_WAIT_SECONDS is 0.5, _POLL_INTERVAL is 0.5 and time.sleep()    *)
(* never returns early, so the startup loop of start_daemon runs once.     *)
StartupPolls == 1

NotRunning == "not running"     \* is_daemon_running() returned (False, None)
Blank == "blank"                \* the file has no PID; (True, None)
ASSUME AnswersAssumption == Daemons \intersect {NotRunning, Blank} = {}

VARIABLES link,     \* the file that daemon.pid names
          text,     \* the PID in each file
          holder,   \* who holds the flock of each file
          dpc,      \* control state of each daemon process
          dfd,      \* DaemonLock._fd
          pc,       \* control state of each command
          cfd,      \* the descriptor of its probe
          cmd,      \* the command
          stage,    \* where is_daemon_running() was called from
          seen,     \* what it returned
          peer,     \* start: the child; stop: the PID that was read
          polls,    \* iterations of the loop the command is in
          corpses,  \* history: daemons that were dead when the command began
          overlap   \* history: an acquire(), release() or probe has begun while
                    \* another process was inside one

disk == <<link, text, holder>>
daemons == <<dpc, dfd>>
clients == <<pc, cfd, cmd, stage, seen, peer, polls, corpses>>
vars == <<disk, daemons, clients, overlap>>

Init == /\ link = NoFile
        /\ text = [f \in Files |-> Blank]
        /\ holder = [f \in Files |-> Nobody]
        /\ dpc = [d \in Daemons |-> "unborn"]
        /\ dfd = [d \in Daemons |-> NoFile]
        /\ pc = [c \in Clients |-> "idle"]
        /\ cfd = [c \in Clients |-> NoFile]
        /\ cmd = [c \in Clients |-> "none"]
        /\ stage = [c \in Clients |-> "first"]
        /\ seen = [c \in Clients |-> NotRunning]
        /\ peer = [c \in Clients |-> Nobody]
        /\ polls = [c \in Clients |-> 0]
        /\ corpses = [c \in Clients |-> {}]
        /\ overlap = FALSE

Gone == {d \in Daemons : dpc[d] \in {"refused", "dead"}}
Locking == {"opened", "locked", "truncated", "failed"}      \* inside acquire()
Probing == {"lock", "unlock", "unlink", "read"}             \* inside is_daemon_running()

(* Process x begins to use the file, perhaps while another one is using it.*)
Enter(x) == overlap' = (\/ overlap
                        \/ \E d \in Daemons \ {x} : dpc[d] \in Locking \union {"unlinked"}
                        \/ \E c \in Clients \ {x} : pc[c] \in Probing)

(* The kernel drops the locks of a process that ends.                      *)
Unlocked(x) == [f \in Files |-> IF holder[f] = x THEN Nobody ELSE holder[f]]

-----------------------------------------------------------------------------
(* A daemon process. *)

(* os.open() as acquire() calls it: without O_TRUNC.                       *)
TextOpened(f) == IF f = link THEN text ELSE [text EXCEPT ![f] = Blank]

(* os.open(O_CREAT): the file the name stands for, or a new, empty one.    *)
Open(d) ==
    /\ dpc[d] = "boot" /\ Enter(d)
    /\ dpc' = [dpc EXCEPT ![d] = "opened"]
    /\ \/ /\ link # NoFile
          /\ dfd' = [dfd EXCEPT ![d] = link]
          /\ text' = TextOpened(link)
          /\ UNCHANGED link
       \/ /\ link = NoFile
          /\ \E f \in Files :
                /\ \A e \in Daemons : dfd[e] # f
                /\ \A c \in Clients : cfd[c] # f
                /\ link' = f
                /\ text' = TextOpened(f)
                /\ dfd' = [dfd EXCEPT ![d] = f]
    /\ UNCHANGED <<holder, clients>>

(* The non-blocking flock: it is taken, or the process gives up with       *)
(* "daemon already running".                                               *)
Lock(d) ==
    /\ dpc[d] = "opened"
    /\ \/ /\ holder[dfd[d]] = Nobody
          /\ holder' = [holder EXCEPT ![dfd[d]] = d]
          /\ dpc' = [dpc EXCEPT ![d] = "locked"]
          /\ UNCHANGED dfd
       \/ /\ holder[dfd[d]] # Nobody
          /\ dpc' = [dpc EXCEPT ![d] = "refused"]
          /\ dfd' = [dfd EXCEPT ![d] = NoFile]
          /\ UNCHANGED holder
    /\ UNCHANGED <<link, text, clients, overlap>>

Truncate(d) == /\ dpc[d] = "locked"
               /\ text' = [text EXCEPT ![dfd[d]] = Blank]
               /\ dpc' = [dpc EXCEPT ![d] = "truncated"]
               /\ UNCHANGED <<link, holder, dfd, clients, overlap>>

WritePid(d) == /\ dpc[d] = "truncated"
               /\ text' = [text EXCEPT ![dfd[d]] = d]
               /\ dpc' = [dpc EXCEPT ![d] = "written"]
               /\ UNCHANGED <<link, holder, dfd, clients, overlap>>

(* The signal handlers are installed and the watcher starts.               *)
Ready(d) == /\ dpc[d] = "written"
            /\ dpc' = [dpc EXCEPT ![d] = "running"]
            /\ UNCHANGED <<disk, dfd, clients, overlap>>

(* The file cannot be emptied, or the PID not written, or not synced: then *)
(* it stays in the file.  acquire() releases what it has.                  *)
WriteFails(d) == /\ dpc[d] \in {"locked", "truncated"}
                 /\ \/ UNCHANGED text
                    \/ dpc[d] = "truncated" /\ text' = [text EXCEPT ![dfd[d]] = d]
                 /\ dpc' = [dpc EXCEPT ![d] = "failed"]
                 /\ UNCHANGED <<link, holder, dfd, clients, overlap>>

(* The shutdown that no command asked for: the watcher does not start, or  *)
(* an outsider sends the signal.                                           *)
ShutsDown(d) == /\ dpc[d] \in {"written", "running"}
                /\ dpc' = [dpc EXCEPT ![d] = "stopping"]
                /\ UNCHANGED <<disk, dfd, clients, overlap>>

(* Faulty variant of ReleaseName: shutdown begins with it.                 *)
ReleaseNameEarly(d) == /\ dpc[d] \in {"stopping", "failed"} /\ Enter(d)
                       /\ link' = NoFile
                       /\ dpc' = [dpc EXCEPT ![d] = IF @ = "failed" THEN "unlinked" ELSE @]
                       /\ UNCHANGED <<text, holder, dfd, clients>>

(* release(), after the watcher has stopped or when acquire() fails: first *)
(* the name goes, whatever file it stands for, and then the lock.          *)
ReleaseName(d) == /\ dpc[d] \in {"stopping", "failed"} /\ Enter(d)
                  /\ link' = NoFile
                  /\ dpc' = [dpc EXCEPT ![d] = "unlinked"]
                  /\ UNCHANGED <<text, holder, dfd, clients>>

ReleaseLock(d) == /\ dpc[d] = "unlinked"
                  /\ holder' = Unlocked(d)
                  /\ dfd' = [dfd EXCEPT ![d] = NoFile]
                  /\ dpc' = [dpc EXCEPT ![d] = "dead"]
                  /\ UNCHANGED <<link, text, clients, overlap>>

(* The process ends at once, and the file stays where it is.               *)
Die(d) == /\ dpc' = [dpc EXCEPT ![d] = "dead"]
          /\ dfd' = [dfd EXCEPT ![d] = NoFile]
          /\ holder' = Unlocked(d)

Crash(d) == /\ dpc[d] \notin {"unborn"} /\ d \notin Gone
            /\ Die(d)
            /\ UNCHANGED <<link, text, clients, overlap>>

(* SIGTERM: the handler of a running daemon sets stop_event; before it is  *)
(* installed and after shutdown has removed it the signal kills.  A second *)
(* one may come before the handler is removed.                             *)
Terminate(d) ==
    \/ /\ dpc[d] = "running"
       /\ dpc' = [dpc EXCEPT ![d] = "stopping"]
       /\ UNCHANGED <<dfd, holder>>
    \/ /\ dpc[d] # "running" /\ d \notin Gone
       /\ Die(d)
    \/ /\ dpc[d] = "stopping" \/ d \in Gone
       /\ UNCHANGED <<dpc, dfd, holder>>

-----------------------------------------------------------------------------
(* is_daemon_running(), called by a command. *)

Probe(c, from) == /\ stage' = [stage EXCEPT ![c] = from]
                  /\ pc' = [pc EXCEPT ![c] = "open"]

Answer(c, a) == /\ seen' = [seen EXCEPT ![c] = a]
                /\ pc' = [pc EXCEPT ![c] = "answered"]

ProbeOpen(c) ==
    /\ pc[c] = "open"
    /\ \/ /\ link = NoFile
          /\ Answer(c, NotRunning)
          /\ UNCHANGED <<cfd, overlap>>
       \/ /\ link # NoFile /\ Enter(c)
          /\ cfd' = [cfd EXCEPT ![c] = link]
          /\ pc' = [pc EXCEPT ![c] = "lock"]
          /\ UNCHANGED seen
    /\ UNCHANGED <<disk, daemons, cmd, stage, peer, polls, corpses>>

(* Where the probe goes when the lock is held; a faulty variant cleans the *)
(* file up.                                                                *)
CleanIfHeld == "unlink"
ReadIfHeld == "read"

ProbeLock(c) ==
    /\ pc[c] = "lock"
    /\ \/ /\ holder[cfd[c]] = Nobody
          /\ holder' = [holder EXCEPT ![cfd[c]] = c]
          /\ pc' = [pc EXCEPT ![c] = "unlock"]
          /\ UNCHANGED cfd
       \/ /\ holder[cfd[c]] # Nobody
          /\ pc' = [pc EXCEPT ![c] = ReadIfHeld]
          /\ cfd' = [cfd EXCEPT ![c] = NoFile]
          /\ UNCHANGED holder
    /\ UNCHANGED <<link, text, daemons, cmd, stage, seen, peer, polls, corpses, overlap>>

(* Faulty variant of ProbeUnlock: the lock is not released.                *)
ProbeUnlockLeaks(c) == /\ pc[c] = "unlock"
                       /\ cfd' = [cfd EXCEPT ![c] = NoFile]
                       /\ pc' = [pc EXCEPT ![c] = "unlink"]
                       /\ UNCHANGED <<disk, daemons, cmd, stage, seen, peer, polls, corpses, overlap>>

ProbeUnlock(c) == /\ pc[c] = "unlock"
                  /\ holder' = Unlocked(c)
                  /\ cfd' = [cfd EXCEPT ![c] = NoFile]
                  /\ pc' = [pc EXCEPT ![c] = "unlink"]
                  /\ UNCHANGED <<link, text, daemons, cmd, stage, seen, peer, polls, corpses, overlap>>

ProbeUnlink(c) == /\ pc[c] = "unlink"
                  /\ link' = NoFile
                  /\ Answer(c, NotRunning)
                  /\ UNCHANGED <<text, holder, daemons, cfd, cmd, stage, peer, polls, corpses, overlap>>

(* Faulty variant of ReadPid: the missing file is not told from a PID.     *)
ReadPidUnchecked(c) == /\ pc[c] = "read"
                       /\ Answer(c, IF link = NoFile THEN NoFile ELSE text[link])
                       /\ UNCHANGED <<disk, daemons, cfd, cmd, stage, peer, polls, corpses, overlap>>

(* _read_pid() opens the name again.                                       *)
ReadPid(c) == /\ pc[c] = "read"
              /\ Answer(c, IF link = NoFile THEN Blank ELSE text[link])
              /\ UNCHANGED <<disk, daemons, cfd, cmd, stage, peer, polls, corpses, overlap>>

-----------------------------------------------------------------------------
(* The commands. *)

(* The command ends, and its local variables with it.                      *)
Return(c) == /\ pc' = [pc EXCEPT ![c] = "idle"]
             /\ cmd' = [cmd EXCEPT ![c] = "none"]
             /\ stage' = [stage EXCEPT ![c] = "first"]
             /\ seen' = [seen EXCEPT ![c] = NotRunning]
             /\ peer' = [peer EXCEPT ![c] = Nobody]
             /\ polls' = [polls EXCEPT ![c] = 0]
             /\ corpses' = [corpses EXCEPT ![c] = {}]

(* The bound on launches: every start that has begun finds a process.      *)
LaunchLeft == Cardinality({c \in Clients : cmd[c] = "start" /\ peer[c] = Nobody})
                  < Cardinality({d \in Daemons : dpc[d] = "unborn"})

Command(c, k) == /\ pc[c] = "idle"
                 /\ k = "start" => LaunchLeft
                 /\ cmd' = [cmd EXCEPT ![c] = k]
                 /\ corpses' = [corpses EXCEPT ![c] = Gone]
                 /\ Probe(c, "first")
                 /\ UNCHANGED <<disk, daemons, cfd, seen, peer, polls, overlap>>

Answered(c, k, from) == pc[c] = "answered" /\ cmd[c] = k /\ stage[c] = from

(* query_daemon_status(), and the errors and refusals of start and stop.   *)
Finish(c) == /\ \/ Answered(c, "status", "first")
                \/ Answered(c, "start", "first") /\ seen[c] # NotRunning
                \/ Answered(c, "start", "poll") /\ seen[c] # NotRunning
                \/ Answered(c, "stop", "first") /\ seen[c] \in {NotRunning, Blank}
                \/ Answered(c, "stop", "poll") /\ seen[c] = NotRunning
                \/ Answered(c, "stop", "last")
             /\ Return(c)
             /\ UNCHANGED <<disk, daemons, cfd, overlap>>

(* start_daemon: Popen.                                                    *)
Spawn(c) == /\ Answered(c, "start", "first") /\ seen[c] = NotRunning
            /\ \E d \in Daemons :
                  /\ dpc[d] = "unborn"
                  /\ dpc' = [dpc EXCEPT ![d] = "boot"]
                  /\ peer' = [peer EXCEPT ![c] = d]
            /\ pc' = [pc EXCEPT ![c] = "loop"]
            /\ UNCHANGED <<disk, dfd, cfd, cmd, stage, seen, polls, corpses, overlap>>

Again(c) == /\ pc[c] = "answered" /\ stage[c] = "poll"
            /\ cmd[c] = "start" <=> seen[c] = NotRunning
            /\ pc' = [pc EXCEPT ![c] = "loop"]
            /\ UNCHANGED <<disk, daemons, cfd, cmd, stage, seen, peer, polls, corpses, overlap>>

(* One round of a polling loop.                                            *)
LoopPoll(c, bound) == /\ polls[c] < bound
                      /\ polls' = [polls EXCEPT ![c] = @ + 1]
                      /\ Probe(c, "poll")
                      /\ UNCHANGED <<disk, daemons, cfd, cmd, seen, peer, corpses, overlap>>

(* The startup window: proc.poll(), the probe, and when the time is up     *)
(* proc.terminate() and "daemon failed to acquire lock".                   *)
StartupPoll(c) == /\ pc[c] = "loop" /\ cmd[c] = "start" /\ peer[c] \notin Gone
                  /\ LoopPoll(c, StartupPolls)

ChildExited(c) == /\ pc[c] = "loop" /\ cmd[c] = "start" /\ peer[c] \in Gone
                  /\ Return(c)
                  /\ UNCHANGED <<disk, daemons, cfd, overlap>>

GiveUp(c) == /\ pc[c] = "loop" /\ cmd[c] = "start" /\ peer[c] \notin Gone
             /\ polls[c] = StartupPolls
             /\ Terminate(peer[c])
             /\ Return(c)
             /\ UNCHANGED <<link, text, cfd, overlap>>

(* stop_daemon: SIGTERM, the grace period, SIGKILL.  The PID of a process  *)
(* that is gone may be free (os.kill fails) or belong to someone else.     *)
Signal(c) == /\ Answered(c, "stop", "first") /\ seen[c] \in Daemons
             /\ peer' = [peer EXCEPT ![c] = seen[c]]
             /\ Terminate(seen[c])
             /\ pc' = [pc EXCEPT ![c] = "loop"]
             /\ UNCHANGED <<link, text, cfd, cmd, stage, seen, polls, corpses, overlap>>

SignalFails(c) == /\ Answered(c, "stop", "first") /\ seen[c] \in Gone
                  /\ Return(c)
                  /\ UNCHANGED <<disk, daemons, cfd, overlap>>

GracePoll(c) == /\ pc[c] = "loop" /\ cmd[c] = "stop"
                /\ LoopPoll(c, GracePolls)

Kill(c) == /\ pc[c] = "loop" /\ cmd[c] = "stop" /\ polls[c] > 0
           /\ \/ peer[c] \notin Gone /\ Die(peer[c])
              \/ peer[c] \in Gone /\ UNCHANGED <<dpc, dfd, holder>>
           /\ Probe(c, "last")
           /\ UNCHANGED <<link, text, cfd, cmd, seen, peer, polls, corpses, overlap>>

(* Ctrl-C, or the command is killed.                                       *)
Abort(c) == /\ pc[c] # "idle"
            /\ holder' = Unlocked(c)
            /\ cfd' = [cfd EXCEPT ![c] = NoFile]
            /\ Return(c)
            /\ UNCHANGED <<link, text, daemons, overlap>>

-----------------------------------------------------------------------------
DaemonStep(d) == \/ Open(d) \/ Lock(d) \/ Truncate(d) \/ WritePid(d) \/ Ready(d)
                 \/ WriteFails(d) \/ ShutsDown(d) \/ ReleaseName(d) \/ ReleaseLock(d)

ClientStep(c) == \/ ProbeOpen(c) \/ ProbeLock(c) \/ ProbeUnlock(c) \/ ProbeUnlink(c)
                 \/ ReadPid(c) \/ Finish(c) \/ Spawn(c) \/ Again(c)
                 \/ StartupPoll(c) \/ ChildExited(c) \/ GiveUp(c)
                 \/ Signal(c) \/ SignalFails(c) \/ GracePoll(c) \/ Kill(c)

Next == \/ \E d \in Daemons : DaemonStep(d) \/ Crash(d)
        \/ \E c \in Clients, k \in {"start", "stop", "status"} : Command(c, k)
        \/ \E c \in Clients : ClientStep(c) \/ Abort(c)

Spec == Init /\ [][Next]_vars

-----------------------------------------------------------------------------
(* Properties. *)

TypeOK == /\ link \in Files \union {NoFile}
          /\ text \in [Files -> Daemons \union {Blank}]
          /\ holder \in [Files -> Daemons \union Clients \union {Nobody}]
          /\ dpc \in [Daemons -> {"unborn", "boot", "opened", "refused", "locked",
                                 "truncated", "written", "running", "stopping",
                                 "failed", "unlinked", "dead"}]
          /\ dfd \in [Daemons -> Files \union {NoFile}]
          /\ pc \in [Clients -> {"idle", "open", "lock", "unlock", "unlink", "read",
                                "answered", "loop"}]
          /\ cfd \in [Clients -> Files \union {NoFile}]
          /\ cmd \in [Clients -> {"none", "start", "stop", "status"}]
          /\ stage \in [Clients -> {"first", "poll", "last"}]
          /\ seen \in [Clients -> Daemons \union {NotRunning, Blank}]
          /\ peer \in [Clients -> Daemons \union {Nobody}]
          /\ polls \in [Clients -> Nat]
          /\ corpses \in [Clients -> SUBSET Daemons]
          /\ overlap \in BOOLEAN

(* The daemons that are past acquire() and have not begun release().       *)
Active == {d \in Daemons : dpc[d] \in {"written", "running", "stopping"}}

(* A lock is held by a process that is between taking and releasing it, on *)
(* the file that process has open: no path out of acquire(), release() or  *)
(* is_daemon_running(), a crash included, leaves a lock behind.            *)
LocksAreOwned ==
    \A f \in Files :
        /\ \A d \in Daemons :
              holder[f] = d <=> /\ dfd[d] = f
                                /\ \/ d \in Active
                                   \/ dpc[d] \in {"locked", "truncated", "failed", "unlinked"}
        /\ \A c \in Clients : holder[f] = c <=> cfd[c] = f /\ pc[c] = "unlock"

(* The file an active daemon has locked holds its own PID, whatever other  *)
(* processes did to the file before it got the lock.                       *)
FileHoldsOwnPid == \A d \in Active : text[dfd[d]] = d

(* So every lock has its owner, and says who it is.                        *)
LocksHaveOwners == LocksAreOwned /\ FileHoldsOwnPid

(* "An flock-based PID file ensuring mutual exclusion."                    *)
OneDaemon == \A d, e \in Active : d = e

(* So it does as long as acquire(), release() and probes of different      *)
(* processes have not overlapped, crashes included; and the name           *)
(* daemon.pid stands for the file the one daemon has locked, so status and *)
(* stop find it.                                                           *)
OneDaemonIfApart == overlap \/ (OneDaemon /\ \A d \in Active : link = dfd[d])

(* As long as they have not overlapped, the daemon that stop_daemon()      *)
(* signalled is no longer active when it is about to return True.          *)
StopIsTrueIfApart ==
    overlap \/ \A c \in Clients :
        (Answered(c, "stop", "poll") \/ Answered(c, "stop", "last")) /\ seen[c] = NotRunning
            => peer[c] \notin Active

(* "If locking fails with BlockingIOError, the daemon process is confirmed *)
(* active": as long as they have not overlapped, whoever makes a probe or  *)
(* a launch fail to get the lock is an active daemon, and the PID that the *)
(* probe is about to read is that daemon's.                                *)
LockFailureMeansDaemonIfApart ==
    [][/\ \A c \in Clients :
             pc[c] = "lock" /\ pc'[c] = "read" /\ ~overlap
                 => /\ holder[cfd[c]] \in Active
                    /\ link # NoFile
                    /\ text[link] = holder[cfd[c]]
       /\ \A d \in Daemons :
             dpc[d] = "opened" /\ dpc'[d] = "refused" /\ ~overlap
                 => holder[dfd[d]] \in Active]_vars

(* As long as they have not overlapped, commands learn the truth.          *)
AnswersAreTrueIfApart == [][StopIsTrueIfApart']_vars /\ LockFailureMeansDaemonIfApart

(* Stale PID files do not "result in signalling unrelated re-used PIDs":   *)
(* stop_daemon() never signals a PID whose process was gone before the     *)
(* command began.                                                          *)
SignalsNoCorpse ==
    [][\A c \in Clients : Answered(c, "stop", "first") /\ pc'[c] = "loop"
           => peer'[c] \notin corpses[c]]_vars

(* "daemon failed to acquire lock and initialize within 0.5s": a child     *)
(* that start_daemon() gives up on has not acquired the lock.              *)
GivesUpOnLateOnly ==
    [][\A c \in Clients :
           pc[c] = "loop" /\ cmd[c] = "start" /\ pc'[c] = "idle" /\ dpc' # dpc
           => peer[c] \notin Active]_vars
=============================================================================
