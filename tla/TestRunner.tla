----------------------------- MODULE TestRunner -----------------------------
(***************************************************************************)
(* run_test() of runner.py: pytest in a session of its own, the processes  *)
(* its tests leave running, the timeout and the two signals that end them; *)
(* and pytest_plugin.py, which reports to run_test() inside pytest.  What  *)
(* the tests do is external: they fork, ignore SIGTERM, keep the pipes of  *)
(* pytest, fail in any phase, hang.                                        *)
(***************************************************************************)
EXTENDS Naturals, Sequences, FiniteSets

CONSTANTS Children,   \* processes that tests can leave behind
          Tests,      \* test functions
          Collectors, \* what they are collected from: the file and its classes
          Known,      \* exception types in _EXCEPTION_LOOKUP
          Unknown,    \* others
          Matched,    \* those that the pattern of pytest_collectreport() finds
          Guesses,    \* what it settles for when it finds none
          Nothing,    \* no exception type; no result
          class       \* _EXCEPTION_LOOKUP

Skip == "Skipped"     \* what pytest.skip() raises
Types == Known \union Unknown \union {Skip}
Classes == {"SYNTAX", "LOGIC", "RUNTIME"}
Nodes == Tests \union Collectors
Failures == [test : Nodes, type : Types]

ASSUME TypesAssumption == /\ Known \intersect Unknown = {} /\ Skip \notin Known \union Unknown
                          /\ Nothing \notin Types /\ Tests \intersect Collectors = {}
                          /\ Matched \subseteq Types \ {Skip} /\ Guesses \subseteq Known
ASSUME ClassAssumption == class \in [Known -> Classes]

VARIABLES stage,      \* where run_test() is
          leader,     \* pytest: "none", "alive" or "dead"
          code,       \* its return code
          alive,      \* children that are running
          holding,    \* children that have the pipes open
          stubborn,   \* processes that ignore SIGTERM
          failures,   \* _GHOST_FAILURES: node and exception type, in the order of insertion
          report,     \* whether the report file has been written
          result,     \* what run_test() returned
          failed,     \* history: the exceptions of nodes that failed, with the node
          excused,    \* history: the tests that raised a skip or an expected failure
          how         \* history: what ended a run that timed out, see Terminate

processes == <<leader, code, alive, holding, stubborn>>
session == <<failures, report, failed, excused>>
runnerVars == <<stage, processes, session, result, how>>

Leader == "pytest"

RunnerInit == /\ stage = "idle"
              /\ leader = "none" /\ code = 0
              /\ alive = {} /\ holding = {} /\ stubborn = {}
              /\ failures = <<>> /\ report = FALSE
              /\ result = Nothing
              /\ failed = {} /\ excused = {} /\ how = "running"

-----------------------------------------------------------------------------
(* pytest, with the plugin. *)

Started == {f.test : f \in {failures[i] : i \in DOMAIN failures}}

(* _GHOST_FAILURES[nodeid] = ...: a later phase overwrites the entry of an *)
(* earlier one in its place.                                               *)
Entered(t, e) == IF t \in Started
                 THEN [i \in DOMAIN failures |->
                         IF failures[i].test = t THEN [test |-> t, type |-> e] ELSE failures[i]]
                 ELSE Append(failures, [test |-> t, type |-> e])

(* pytest_runtest_makereport() for a phase that raised.  A skip raises too,*)
(* and so does a test that was expected to fail.  Tests run one after the  *)
(* other, and one raises twice at most, in its set-up or its call and in   *)
(* its tear-down; none runs if something could not be collected.           *)
Phases(t) == Cardinality({f \in failed : f.test = t}) + Cardinality(excused \intersect {t})
MakeReport(t, e) ==
    /\ leader = "alive" /\ Started \intersect Collectors = {}
    /\ t \in Started => t = failures[Len(failures)].test /\ Phases(t) < 2
    /\ failures' = Entered(t, e)
    /\ \/ /\ excused' = excused \union {t}
          /\ UNCHANGED failed
       \/ /\ e # Skip
          /\ failed' = failed \union {[test |-> t, type |-> e]}
          /\ UNCHANGED excused
    /\ UNCHANGED <<stage, processes, report, result, how>>

(* The first name that the pattern finds in the text of a report: one that *)
(* the text quotes before the exception, of its cause or in a line of the  *)
(* code, or else the exception's own.                                      *)
Grepped(e, quoted) == CASE quoted # {} -> quoted
                        [] quoted = {} /\ e \in Matched -> {e}
                        [] OTHER -> Guesses

(* pytest_collectreport() for what could not be collected, e.g. imported.  *)
CollectReport(n, e, quoted) ==
    /\ leader = "alive" /\ Started \subseteq Collectors \ {n}
    /\ \E found \in Grepped(e, quoted) : failures' = Entered(n, found)
    /\ failed' = failed \union {[test |-> n, type |-> e]}
    /\ UNCHANGED <<stage, processes, report, excused, result, how>>

(* A test starts a process.                                                *)
Fork(c) == /\ leader = "alive" /\ c \notin alive
           /\ alive' = alive \union {c}
           /\ holding' \in {holding, holding \union {c}}
           /\ stubborn' \in {stubborn, stubborn \union {c}}
           /\ UNCHANGED <<stage, leader, code, session, result, how>>

(* pytest_sessionfinish() writes the report, and pytest ends with 0 only if*)
(* nothing failed; or not even then, if there was no test, or a strict one *)
(* passed that was to fail.                                                *)
SessionFinish == /\ leader = "alive"
                 /\ leader' = "dead"
                 /\ code' \in IF failed = {} THEN {0, 1} ELSE {1}
                 /\ report' = TRUE
                 /\ UNCHANGED <<stage, alive, holding, stubborn, failures, failed, excused, result,
                                how>>

(* pytest dies without a report: a test ends it, with any code.            *)
Die == /\ leader = "alive"
       /\ leader' = "dead" /\ code' \in {0, 1}
       /\ UNCHANGED <<stage, alive, holding, stubborn, session, result, how>>

ChildEnds(c) == /\ c \in alive
                /\ alive' = alive \ {c}
                /\ UNCHANGED <<stage, leader, code, holding, stubborn, session, result, how>>

-----------------------------------------------------------------------------
(* run_test(). *)

Spawn == /\ stage = "idle"
         /\ stage' = "running"
         /\ leader' = "alive"
         /\ stubborn' \in {{}, {Leader}}
         /\ UNCHANGED <<code, alive, holding, session, result, how>>

(* communicate() returns when pytest has ended and nobody has its pipes.   *)
Communicated == leader = "dead" /\ alive \intersect holding = {}

(* classify_error(): the type if it is in the table, else the words of the *)
(* output, in this order.                                                  *)
Fallback(words) == CASE "SYNTAX" \in words -> "SYNTAX"
                     [] "SYNTAX" \notin words /\ "LOGIC" \in words -> "LOGIC"
                     [] "SYNTAX" \notin words /\ "LOGIC" \notin words /\ "RUNTIME" \in words
                          -> "RUNTIME"
                     [] OTHER -> "UNKNOWN"
(* faulty variant: an unknown type is its own class *)
ClassifyByName(e, words) == IF e \in Known THEN class[e] ELSE e
(* faulty variant: the words of the output alone *)
ClassifyByWords(e, words) == Fallback(words)
Classify(e, words) == IF e \in Known THEN class[e] ELSE Fallback(words)

FirstFailure == IF report /\ failures # <<>> THEN Head(failures).type ELSE Nothing

Verdict(passed, timedOut, e, c) == [passed |-> passed, timedOut |-> timedOut, type |-> e,
                                    class |-> c]

(* The output has the exceptions that failed tests raised, and the code    *)
(* around them, which may contain any word.                                *)
Output(noise) == noise \union {class[f.type] : f \in {g \in failed : g.type \in Known}}

OfSession(noise) ==
    IF code = 0 THEN Verdict(TRUE, FALSE, Nothing, Nothing)
    ELSE Verdict(FALSE, FALSE, FirstFailure, Classify(FirstFailure, Output(noise)))
OfTimeout == Verdict(FALSE, TRUE, "TimeoutError", "TIMEOUT")

Return(r) == stage' = "returned" /\ result' = r

Finish == /\ stage = "running" /\ Communicated
          /\ \E noise \in SUBSET Classes : Return(OfSession(noise))
          /\ UNCHANGED <<processes, session, how>>

(* faulty variant: the timeout is that of pytest, not of communicate() *)
TimeoutOfPytest == /\ stage = "running" /\ leader = "alive"
                   /\ stage' = "kill"
                   /\ UNCHANGED <<processes, session, result, how>>
TimeoutStrikes == /\ stage = "running"
                  /\ stage' = "kill"
                  /\ UNCHANGED <<processes, session, result, how>>

(* _kill_process_group(): SIGTERM goes to the whole group; but when pytest *)
(* has ended and been reaped, getpgid() raises, and so does proc.kill().   *)
Terminate == /\ stage = "kill"
             /\ \/ /\ stage' = "term" /\ how' = "SIGTERM"
                   /\ leader' = IF Leader \in stubborn THEN leader ELSE "dead"
                   /\ code' = IF leader = "dead" \/ Leader \in stubborn THEN code ELSE 1
                   /\ alive' = alive \intersect stubborn
                \/ /\ leader = "dead"
                   /\ stage' = "drain" /\ how' = "itself"
                   /\ UNCHANGED <<leader, code, alive>>
             /\ UNCHANGED <<holding, stubborn, session, result>>

(* proc.wait() returns, or a second passes.                                *)
Waited == /\ stage = "term" /\ leader = "dead"
          /\ stage' = "drain"
          /\ UNCHANGED <<processes, session, result, how>>

(* Up to CPython 3.12.3 proc.wait() also waits for the pipes.              *)
(* faulty variant: kill() instead of killpg() *)
KillOfLeader == /\ stage = "term" /\ leader = "alive"
                /\ stage' = "drain"
                /\ leader' = "dead" /\ code' = 1
                /\ how' = "SIGKILL"
                /\ UNCHANGED <<alive, holding, stubborn, session, result>>
Kill == /\ stage = "term"
        /\ leader = "alive" \/ alive \intersect holding # {}
        /\ stage' = "drain"
        /\ leader' = "dead" /\ code' = 1
        /\ alive' = {}
        /\ how' = "SIGKILL"
        /\ UNCHANGED <<holding, stubborn, session, result>>

(* The second communicate(), or two seconds.                               *)
Drained == /\ stage = "drain"
           /\ Return(OfTimeout)
           /\ UNCHANGED <<processes, session, how>>

(* The task is cancelled: nothing in run_test() ends the processes.        *)
CancelTask == /\ stage \in {"running", "term", "drain"}
              /\ stage' = "cancelled"
              /\ UNCHANGED <<processes, session, result, how>>

Run == Finish \/ TimeoutStrikes \/ Terminate \/ Waited \/ Kill \/ Drained

Session == \/ \E t \in Tests, e \in Types : MakeReport(t, e)
           \/ \E n \in Collectors, e \in Types \ {Skip}, quoted \in SUBSET Matched :
                 CollectReport(n, e, quoted)
           \/ \E c \in Children : Fork(c) \/ ChildEnds(c)
           \/ SessionFinish \/ Die

RunnerNext == Spawn \/ Run \/ CancelTask \/ Session

RunnerSpec == RunnerInit /\ [][RunnerNext]_runnerVars

(* The event loop and its timers run.  No process has to end.              *)
RunnerFairSpec == RunnerSpec /\ WF_runnerVars(Run)

-----------------------------------------------------------------------------
(* Properties. *)

RunnerTypeOK == /\ stage \in {"idle", "running", "kill", "term", "drain", "returned", "cancelled"}
                /\ leader \in {"none", "alive", "dead"} /\ code \in {0, 1}
                /\ alive \subseteq Children /\ holding \subseteq Children
                /\ stubborn \subseteq Children \union {Leader}
                /\ failures \in Seq(Failures)
                /\ report \in BOOLEAN
                /\ how \in {"running", "itself", "SIGTERM", "SIGKILL"}
                /\ result \in [passed : BOOLEAN, timedOut : BOOLEAN,
                               type : Types \union {Nothing, "TimeoutError"},
                               class : Classes \union {"UNKNOWN", "TIMEOUT", Nothing}]
                             \union {Nothing}
                /\ failed \subseteq Failures /\ excused \subseteq Tests

(* "Infinite loops or hanging subprocesses are guaranteed killed and       *)
(* reaped": when a run has timed out nothing that it started is running.   *)
NothingSurvives == stage = "returned" /\ result.timedOut => leader = "dead" /\ alive = {}

(* So it is for pytest itself however the run ended, and for what its tests*)
(* started if pytest ran into the SIGKILL, or if it died of the SIGTERM and*)
(* none of them ignored it.  When pytest had ended before, its children go *)
(* on.                                                                     *)
HungRunsAreReaped ==
    stage = "returned" =>
        /\ leader = "dead"
        /\ how = "SIGKILL" => alive = {}
        /\ how = "SIGTERM" /\ Leader \notin stubborn => alive \subseteq stubborn
        /\ result.timedOut <=> how # "running"

(* "Passing tests (return code 0) are never misclassified": if pytest      *)
(* reported, a run that passed had nothing that failed, and one that failed*)
(* is put down to what the first node of the report raised when it failed, *)
(* and to the class of that, whatever the output says besides; except that *)
(* the node may be a test that did not fail but was skipped, or failed as  *)
(* expected, and that the type of a node that could not be collected is    *)
(* what its report seems to name, see TypesAreExact.                       *)
BlameIsOfAFailure ==
    stage = "returned" /\ ~result.timedOut /\ report =>
        /\ result.passed => failed = {} /\ result.class = Nothing
        /\ ~result.passed /\ failures # <<>> =>
              LET blamed == Head(failures).test
              IN  /\ result.type \in Known => result.class = class[result.type]
                  /\ \/ blamed \in excused
                     \/ \E f \in failed : /\ f.test = blamed
                                          /\ blamed \in Tests => f.type = result.type

(* "Captures the exact runtime exception class name, eliminating flaky     *)
(* substring grepping": what the plugin keeps of a node that failed is an  *)
(* exception that it raised.                                               *)
TypesAreExact ==
    \A i \in DOMAIN failures : failures[i].test \in excused \/ failures[i] \in failed

(* "Never wedges": run_test() returns, whatever its processes do.          *)
RunsReturn == stage = "running" ~> stage \in {"returned", "cancelled"}
=============================================================================
