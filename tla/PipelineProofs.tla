--------------------------- MODULE PipelineProofs ---------------------------
(***************************************************************************)
(* Proofs about Pipeline, for every budget, every set of contents and any  *)
(* number of edits; and, at the end, about TestRunner, which executes the  *)
(* pipeline's tests.                                                       *)
(*                                                                         *)
(* The invariant is IInv of Pipeline.  What a run guarantees about its     *)
(* tests and its heals follows from where it is: Counters says, for every  *)
(* step of the run, how the executions and the heals stand to the attempts.*)
(***************************************************************************)
EXTENDS Pipeline, TestRunner, TLAPS

USE DEF Goto, CanHeal, NextAttempt, PassingStatus

(* Initially nothing runs. *)
LEMMA InitCore == Init => CoreInv
  <1> SUFFICES ASSUME Init PROVE CoreInv
    OBVIOUS
  <1>1. opts \in Options
    BY DEF Init, Options, Quiet
  <1>2. TypeOK
    <2>1. /\ attempt \in 0 .. MaxHeal /\ edits \in 0 .. MaxEdits
          /\ runs \in 0 .. MaxHeal + 1 /\ heals \in 0 .. MaxHeal
      BY MaxHealAssumption, BoundsAssumption DEF Init
    <2>2. /\ author \in Authors /\ pc \in Steps
          /\ status \in {NoStatus, "PASSED", "HEALED", "FAILED", "BUG_IN_CODE", "UNCLEAR"}
          /\ verdict \in {NoVerdict, "BUG_IN_CODE", "UNCLEAR", "FIX_TEST"}
      BY DEF Init, Authors, Steps
    <2>3. /\ source \in Contents \union {Missing} /\ hash \in Contents \union {NoHash}
          /\ snap \in Contents \union {Missing}
          /\ stale \in BOOLEAN /\ disturbed \in BOOLEAN
          /\ tested \subseteq Contents /\ ended \subseteq Contents
      BY DEF Init
    <2> QED
      BY <1>1, <2>1, <2>2, <2>3 DEF TypeOK
  <1>3. Counters /\ HealBudget
    BY MaxHealAssumption DEF Init, Counters, HealBudget, NoVerdict
  <1>4. Reading /\ ReportsLastTest /\ VerdictsHalt /\ UnfinishedIsRetried
    BY DEF Init, Reading, ReportsLastTest, VerdictsHalt, UnfinishedIsRetried, NoVerdict
  <1> QED
    BY <1>2, <1>3, <1>4 DEF CoreInv, Init

(* The parts of the invariant, and what they are made of.                  *)
USE DEF CoreInv, TypeOK, Counters, Reading, HealBudget, ReportsLastTest, VerdictsHalt,
        UnfinishedIsRetried, Authors, Steps, NoStatus, NoVerdict

(* A run starts with its counters at zero. *)
LEMMA StartStep == ASSUME CoreInv, NEW o \in Options, Start(o) PROVE CoreInv'
  BY MaxHealAssumption DEF Start, files, history

LEMMA ReadStep == ASSUME CoreInv, ReadSource PROVE CoreInv'
  BY MaxHealAssumption DEF ReadSource, files, history

LEMMA CheckStep == ASSUME CoreInv, CheckIfChanged PROVE CoreInv'
  BY NamesAssumption, MaxHealAssumption DEF CheckIfChanged, files, locals, history

LEMMA EnsureStep == ASSUME CoreInv, EnsureTestFile PROVE CoreInv'
  BY MaxHealAssumption DEF EnsureTestFile, files, locals, history

LEMMA KeepStep == ASSUME CoreInv, KeepTest PROVE CoreInv'
  BY MaxHealAssumption DEF KeepTest, files, locals, history

LEMMA GuardStep == ASSUME CoreInv, GuardGenerate PROVE CoreInv'
  BY MaxHealAssumption DEF GuardGenerate, files, locals, history

LEMMA GenerateStep == ASSUME CoreInv, Generate PROVE CoreInv'
  BY MaxHealAssumption DEF Generate, files, locals, history

LEMMA WriteStep == ASSUME CoreInv, WriteTest PROVE CoreInv'
  BY MaxHealAssumption DEF WriteTest, locals

LEMMA AccountStep == ASSUME CoreInv, Account PROVE CoreInv'
  BY MaxHealAssumption DEF Account, files, locals, history

(* An execution brings the executions one ahead of the heals. *)
LEMMA ExecuteStep == ASSUME CoreInv, ExecuteTest PROVE CoreInv'
  <1>1. /\ pc = "run" /\ runs' = attempt + 1 /\ stale' = FALSE /\ heals = attempt
        /\ verdict \notin {"BUG_IN_CODE", "UNCLEAR"}
        /\ tested' \subseteq Contents
        /\ UNCHANGED <<files, opts, snap, attempt, verdict, edits, heals, disturbed, ended>>
    BY DEF ExecuteTest
  <1>2. runs' \in 0 .. MaxHeal + 1
    BY <1>1, MaxHealAssumption
  <1>t. ASSUME pc' \in {"mark", "judge", "budget"},
               \/ UNCHANGED status
               \/ status' \in {"HEALED", "PASSED", "FAILED"}
        PROVE  TypeOK'
    <2>1. /\ pc' \in Steps
          /\ status' \in {NoStatus, "PASSED", "HEALED", "FAILED", "BUG_IN_CODE", "UNCLEAR"}
      BY <1>t
    <2>2. UNCHANGED <<source, author, hash, opts, snap, attempt, verdict, edits, heals, disturbed,
                     ended>>
      BY <1>1 DEF files
    <2>3. stale' \in BOOLEAN /\ tested' \subseteq Contents
      BY <1>1
    <2> HIDE DEF Authors, Steps
    <2> QED
      BY <1>2, <2>1, <2>2, <2>3
  <1>3. CASE pc' = "mark" /\ status' = "HEALED" /\ attempt > 0
    <2>1. TypeOK'
      BY <1>t, <1>3
    <2>2. Counters'
      BY <1>1, <1>3, MaxHealAssumption
    <2> QED
      BY <1>1, <1>3, <2>1, <2>2, MaxHealAssumption DEF files
  <1>4. CASE pc' = "mark" /\ status' = "PASSED" /\ ~(attempt > 0)
    <2>1. TypeOK'
      BY <1>t, <1>4
    <2>2. Counters'
      BY <1>1, <1>4, MaxHealAssumption
    <2> QED
      BY <1>1, <1>4, <2>1, <2>2, MaxHealAssumption DEF files
  <1>5. CASE pc' = "mark" /\ status' = "FAILED"
    <2>1. TypeOK'
      BY <1>t, <1>5
    <2>2. Counters'
      BY <1>1, <1>5, MaxHealAssumption
    <2> QED
      BY <1>1, <1>5, <2>1, <2>2, MaxHealAssumption DEF files
  <1>6. CASE pc' \in {"judge", "budget"} /\ UNCHANGED status
    <2>1. TypeOK'
      BY <1>t, <1>6
    <2>2. Counters'
      BY <1>1, <1>6, MaxHealAssumption
    <2> QED
      BY <1>1, <1>6, <2>1, <2>2, MaxHealAssumption DEF files
  <1> QED
    BY <1>3, <1>4, <1>5, <1>6 DEF ExecuteTest, End

(* Only FIX_TEST leads on. *)
LEMMA JudgeStep == ASSUME CoreInv, ConsultTheJudge PROVE CoreInv'
  BY MaxHealAssumption DEF ConsultTheJudge, End, files, history

(* The attempt is counted only within the budget. *)
LEMMA BudgetStep == ASSUME CoreInv, CheckHealBudget PROVE CoreInv'
  BY MaxHealAssumption DEF CheckHealBudget, End, files, history, Options

LEMMA HealStep == ASSUME CoreInv, Heal PROVE CoreInv'
  BY MaxHealAssumption DEF Heal, End, files, Options

LEMMA GuardHealedStep == ASSUME CoreInv, GuardHealed PROVE CoreInv'
  BY MaxHealAssumption DEF GuardHealed, files, locals, history

(* Every way out resets what belongs to the run; only the completed ones   *)
(* record the hash.                                                        *)
LEMMA LeaveStep == ASSUME CoreInv, MarkProcessed \/ Exit \/ Cancel PROVE CoreInv'
  <1>1. Leave
    BY DEF MarkProcessed, Exit, Cancel
  <1>2. Quiet \in Options
    BY DEF Options, Quiet
  <1>3. (opts \in Options)' /\ pc' = "idle" /\ UNCHANGED <<source, author, edits, tested>>
    BY <1>1, <1>2 DEF Leave
  <1>4. \/ hash' = snap /\ ended' = ended \union {snap} /\ snap \in Contents
        \/ UNCHANGED <<hash, ended>>
    BY DEF MarkProcessed, Exit, Cancel
  <1>5. TypeOK'
    <2>1. /\ attempt' \in 0 .. MaxHeal /\ edits' \in 0 .. MaxEdits
          /\ runs' \in 0 .. MaxHeal + 1 /\ heals' \in 0 .. MaxHeal
      BY <1>1, MaxHealAssumption DEF Leave
    <2>2. /\ pc' \in Steps /\ stale' \in BOOLEAN /\ disturbed' \in BOOLEAN
          /\ snap' \in Contents \union {Missing}
          /\ status' \in {NoStatus, "PASSED", "HEALED", "FAILED", "BUG_IN_CODE", "UNCLEAR"}
          /\ verdict' \in {NoVerdict, "BUG_IN_CODE", "UNCLEAR", "FIX_TEST"}
      BY <1>1 DEF Leave
    <2>3. hash' \in Contents \union {NoHash} /\ ended' \subseteq Contents
      BY <1>4
    <2> HIDE DEF Authors, Steps
    <2> QED
      BY <1>3, <2>1, <2>2, <2>3
  <1>6. Counters'
    BY <1>1 DEF Leave
  <1> QED
    BY <1>1, <1>3, <1>4, <1>5, <1>6, MaxHealAssumption DEF Leave

LEMMA EnvironmentStep == ASSUME CoreInv, Edit \/ Forget PROVE CoreInv'
  <1>1. CASE Edit
    <2>1. /\ UNCHANGED <<hash, pc, opts, snap, attempt, status, verdict>>
          /\ UNCHANGED <<runs, heals, stale, tested, ended>>
      BY <1>1 DEF Edit, locals
    <2>2. disturbed' \in BOOLEAN
      BY <1>1 DEF Edit
    <2>3. /\ source' \in Contents \union {Missing} /\ author' \in Authors
          /\ edits' \in 0 .. MaxEdits
      BY <1>1, BoundsAssumption DEF Edit
    <2>4. TypeOK'
      <3> HIDE DEF Authors, Steps
      <3> QED
        BY <2>1, <2>2, <2>3
    <2> QED
      BY <2>1, <2>4
  <1>2. CASE Forget
    BY <1>2, NamesAssumption, MaxHealAssumption DEF Forget, locals, history
  <1> QED
    BY <1>1, <1>2

(* The core of the invariant is inductive. *)
LEMMA NextCore == CoreInv /\ [Next]_vars => CoreInv'
  <1> SUFFICES ASSUME CoreInv, [Next]_vars PROVE CoreInv'
    OBVIOUS
  <1>1. CASE Step
    BY <1>1, ReadStep, CheckStep, EnsureStep, KeepStep, GuardStep, GenerateStep, WriteStep,
       AccountStep, ExecuteStep, JudgeStep, BudgetStep, HealStep, GuardHealedStep, LeaveStep
    DEF Step
  <1>2. CASE \E o \in Options : Start(o)
    BY <1>2, StartStep
  <1>3. CASE Cancel \/ Edit \/ Forget
    BY <1>3, LeaveStep, EnvironmentStep
  <1>4. CASE UNCHANGED vars
    BY <1>4 DEF vars, files, locals, history
  <1> QED
    BY <1>1, <1>2, <1>3, <1>4 DEF Next

HIDE DEF CoreInv, Counters, Reading, HealBudget, ReportsLastTest, VerdictsHalt,
         UnfinishedIsRetried, NoStatus, NoVerdict, TypeOK, Authors, Steps

(* Between the guard and the write only the user can put a hand-written    *)
(* test in the way.                                                        *)
LEMMA SafeStep == ASSUME Safe, Next PROVE Safe'
  <1>1. CASE Step
    BY <1>1 DEF Safe, MayWrite, Step, ReadSource, CheckIfChanged, EnsureTestFile, KeepTest,
       GuardGenerate, Generate, WriteTest, Account, ExecuteTest, ConsultTheJudge,
       CheckHealBudget, Heal, GuardHealed, MarkProcessed, Exit, Leave, End,
       files, locals, history
  <1>2. CASE Cancel \/ \E o \in Options : Start(o)
    BY <1>2 DEF Cancel, Leave, Start, Safe
  <1>3. CASE Edit \/ Forget
    BY <1>3 DEF Edit, Forget, Safe, MayWrite, locals, history
  <1> QED
    BY <1>1, <1>2, <1>3 DEF Next

(* What is read at the start stays in the file until the user edits it, so *)
(* the first execution is one of what was read.                            *)
LEMMA SourceStep == ASSUME TypeOK, Reading, SameSource, Next PROVE SameSource'
  <1>1. CASE ReadSource \/ CheckIfChanged \/ EnsureTestFile \/ KeepTest \/ GuardGenerate
    BY <1>1 DEF SameSource, ReadSource, CheckIfChanged, EnsureTestFile, KeepTest,
       GuardGenerate, files, locals, history
  <1>2. CASE Generate \/ WriteTest \/ Account
    BY <1>2 DEF SameSource, Generate, WriteTest, Account, files, locals, history
  <1>3. CASE ExecuteTest
    BY <1>3 DEF SameSource, Reading, ExecuteTest, End, files
  <1>4. CASE ConsultTheJudge \/ CheckHealBudget \/ Heal \/ GuardHealed
    BY <1>4 DEF SameSource, ConsultTheJudge, CheckHealBudget, Heal, GuardHealed, End,
       files, locals, history
  <1>5. CASE MarkProcessed \/ Exit \/ Cancel \/ \E o \in Options : Start(o)
    BY <1>5 DEF SameSource, MarkProcessed, Exit, Cancel, Leave, Start
  <1>6. CASE Edit \/ Forget
    BY <1>6 DEF SameSource, Edit, Forget, locals, history
  <1> QED
    BY <1>1, <1>2, <1>3, <1>4, <1>5, <1>6 DEF Next, Step

LEMMA NextInv == IInv /\ [Next]_vars => IInv'
  <1>1. ASSUME CoreInv, Safe, SameSource, Next PROVE IInv'
    BY <1>1, NextCore, SafeStep, SourceStep DEF IInv, CoreInv
  <1>2. ASSUME CoreInv, Safe, SameSource, UNCHANGED vars PROVE IInv'
    BY <1>2, NextCore
    DEF IInv, Safe, SameSource, MayWrite, vars, files, locals, history
  <1> QED
    BY <1>1, <1>2 DEF IInv

LEMMA InitInv == Init => IInv
  BY InitCore DEF IInv, Init, Safe, SameSource

HIDE DEF Goto

(* IInv holds in every behaviour. *)
THEOREM PipelineInvariance == Spec => []IInv
  BY InitInv, NextInv, PTL DEF Spec

(* heal_test() is called at most max_heal_attempts times in a run, whatever*)
(* pytest and the judge answer; and a verdict against the code, or none,   *)
(* ends the run with that status and leaves the test as it was executed.   *)
THEOREM HealsStayAllowed == Spec => []HealsAreAllowed
  <1>1. IInv => HealsAreAllowed
    BY DEF IInv, CoreInv, HealsAreAllowed
  <1> QED
    BY <1>1, PipelineInvariance, PTL

(* The variables of the pipeline have their types. *)
THEOREM TypeCorrect == Spec => []TypeOK
  <1>1. IInv => TypeOK
    BY DEF IInv, CoreInv
  <1> QED
    BY <1>1, PipelineInvariance, PTL

(* A status is reported for the test as it is on disk, after as many       *)
(* executions as it took.                                                  *)
THEOREM StatusIsOfLastTest == Spec => []ReportsLastTest
  <1>1. IInv => ReportsLastTest
    BY DEF IInv, CoreInv
  <1> QED
    BY <1>1, PipelineInvariance, PTL

(* A cancelled, crashed or failing run never makes a later one skip.       *)
THEOREM UnfinishedRunsAreRetried == Spec => []UnfinishedIsRetried
  <1>1. IInv => UnfinishedIsRetried
    BY DEF IInv, CoreInv
  <1> QED
    BY <1>1, PipelineInvariance, PTL

(* What an undisturbed run records as processed, a test was executed       *)
(* against.                                                                *)
THEOREM UndisturbedRunsAreTested == Spec => []UndisturbedIsTested
  <1>1. IInv => UndisturbedIsTested
    BY DEF IInv, SameSource, UndisturbedIsTested
  <1> QED
    BY <1>1, PipelineInvariance, PTL

(* No run writes over a test that a user wrote before the run began,       *)
(* unless it is forced.                                                    *)
THEOREM HandwrittenTestsSurvive == Spec => UndisturbedSurvives
  <1> DEFINE Survives == author = "user" /\ author' \in {"ghost", "unmarked"}
                             => opts.force \/ disturbed
  <1>1. ASSUME IInv, Next PROVE [Survives]_vars
    <2>1. CASE WriteTest
      BY <2>1, <1>1 DEF WriteTest, IInv, Safe, MayWrite
    <2>2. CASE Edit
      BY <2>2 DEF Edit
    <2>3. CASE ~WriteTest /\ ~Edit
      <3>1. UNCHANGED author
        BY <2>3, <1>1 DEF Next, Step, ReadSource, CheckIfChanged, EnsureTestFile, KeepTest,
           GuardGenerate, Generate, Account, ExecuteTest, ConsultTheJudge, CheckHealBudget,
           Heal, GuardHealed, MarkProcessed, Exit, Cancel, Leave, Start, Forget, files
      <3> QED
        BY <3>1
    <2> QED
      BY <2>1, <2>2, <2>3
  <1>2. IInv /\ [Next]_vars => [Survives]_vars
    BY <1>1
  <1> QED
    BY <1>2, PipelineInvariance, PTL DEF Spec, UndisturbedSurvives

(* A run that no edit disturbs records only what a test was executed       *)
(* against, and writes over no hand-written test unless it is forced.      *)
THEOREM UndisturbedRunsAreRight == Spec => UndisturbedIsRight
  BY UndisturbedRunsAreTested, HandwrittenTestsSurvive, PTL DEF UndisturbedIsRight
-----------------------------------------------------------------------------
(* TestRunner: run_test() and the plugin inside pytest, for any processes, *)
(* tests, exception types and table.                                       *)
(*                                                                         *)
(* Reaped is about the processes: what ended them follows from where       *)
(* run_test() is, and nobody forks once pytest is dead.  Blamed is about   *)
(* the failures: a return code of 0 and a report mean that no test failed, *)
(* and what the plugin keeps of a node is what it raised when it failed,   *)
(* unless it was excused or could not be collected (Accounted).            *)

Reaped == /\ stage = "idle" => leader = "none"
          /\ stage \in {"drain", "returned"} => leader = "dead"
          /\ stage \in {"idle", "running", "kill"} => how = "running"
          /\ stage \in {"term", "drain"} => how # "running"
          /\ how = "SIGKILL" => leader = "dead" /\ alive = {}
          /\ how = "SIGTERM" /\ Leader \notin stubborn
                => leader = "dead" /\ alive \subseteq stubborn
          /\ stage = "returned" => (result.timedOut <=> how # "running")

Accounted ==
    \A i \in DOMAIN failures :
        \/ failures[i].test \in excused
        \/ \E f \in failed : /\ f.test = failures[i].test
                             /\ failures[i].test \in Tests => f.type = failures[i].type

Blamed == /\ leader # "dead" => code = 0 /\ ~report
          /\ report /\ code = 0 => failed = {}
          /\ Accounted
          /\ BlameIsOfAFailure

RunnerInv == RunnerTypeOK /\ Reaped /\ Blamed

(* One more element. *)
LEMMA OneMore ==
    ASSUME NEW S, NEW s \in Seq(S), NEW x \in S
    PROVE  /\ Append(s, x) \in Seq(S)
           /\ \A i \in DOMAIN Append(s, x) :
                 Append(s, x)[i] = x \/ (i \in DOMAIN s /\ Append(s, x)[i] = s[i])
  <1>1. DOMAIN Append(s, x) = 1 .. Len(s) + 1 /\ DOMAIN s = 1 .. Len(s) /\ Len(s) \in Nat
    OBVIOUS
  <1>2. \A i \in 1 .. Len(s) : Append(s, x)[i] = s[i]
    OBVIOUS
  <1>3. Append(s, x)[Len(s) + 1] = x
    OBVIOUS
  <1> QED
    BY <1>1, <1>2, <1>3, Append(s, x) \in Seq(S)

(* What a report says of a test replaces what an earlier one said of it,   *)
(* and leaves the others alone.                                            *)
LEMMA EnteredIs ==
    ASSUME NEW S, failures \in Seq(S), NEW t, NEW e, [test |-> t, type |-> e] \in S
    PROVE  /\ Entered(t, e) \in Seq(S)
           /\ \A i \in DOMAIN Entered(t, e) :
                 \/ Entered(t, e)[i] = [test |-> t, type |-> e]
                 \/ i \in DOMAIN failures /\ Entered(t, e)[i] = failures[i]
  <1> DEFINE new == [test |-> t, type |-> e]
  <1>1. CASE t \in Started
    <2>1. Entered(t, e) = [i \in 1 .. Len(failures) |->
                              IF failures[i].test = t THEN new ELSE failures[i]]
      BY <1>1 DEF Entered
    <2> QED
      BY <2>1
  <1>2. CASE t \notin Started
    <2>1. Entered(t, e) = Append(failures, new)
      BY <1>2 DEF Entered
    <2>2. QED
      BY <2>1, OneMore
  <1> QED
    BY <1>1, <1>2

(* What run_test() returns has its type. *)
LEMMA VerdictTyped ==
    ASSUME RunnerTypeOK, NEW noise \in SUBSET Classes
    PROVE  /\ OfSession(noise) \in [passed : BOOLEAN, timedOut : BOOLEAN,
                                    type : Types \union {Nothing, "TimeoutError"},
                                    class : Classes \union {"UNKNOWN", "TIMEOUT", Nothing}]
           /\ ~OfSession(noise).timedOut
  <1>1. FirstFailure \in Types \union {Nothing}
    <2>1. CASE failures # <<>>
      <3>1. Head(failures) \in Failures
        BY <2>1 DEF RunnerTypeOK
      <3> QED
        BY <3>1 DEF FirstFailure, Failures
    <2>2. CASE failures = <<>>
      BY <2>2 DEF FirstFailure
    <2> QED
      BY <2>1, <2>2
  <1>2. \A words : Fallback(words) \in Classes \union {"UNKNOWN"}
    BY DEF Fallback, Classes
  <1>3. \A e, words : Classify(e, words) \in Classes \union {"UNKNOWN"}
    BY <1>2, ClassAssumption DEF Classify
  <1> QED
    BY <1>1, <1>3 DEF OfSession, Verdict

LEMMA RunnerInitInv == RunnerInit => RunnerInv
  <1> SUFFICES ASSUME RunnerInit PROVE RunnerInv
    OBVIOUS
  <1>1. RunnerTypeOK
    <2>1. failures \in Seq(Failures) /\ failed \subseteq Failures
      BY DEF RunnerInit
    <2> QED
      BY <2>1 DEF RunnerInit, RunnerTypeOK
  <1>2. Reaped /\ Blamed
    BY DEF RunnerInit, Reaped, Blamed, Accounted, BlameIsOfAFailure
  <1> QED
    BY <1>1, <1>2 DEF RunnerInv

USE DEF processes, session

(* The plugin enters what is accounted for. *)
LEMMA EntryStep ==
    ASSUME RunnerInv, NEW n \in Nodes, NEW e \in Types,
           leader = "alive", UNCHANGED <<stage, processes, report, result, how>>,
           failures' = Entered(n, e), failed \subseteq failed', excused \subseteq excused',
           failed' \subseteq Failures, excused' \subseteq Tests,
           \/ n \in excused'
           \/ \E f \in failed' : f.test = n /\ (n \in Tests => f.type = e)
    PROVE  RunnerInv'
  <1> DEFINE entry == [test |-> n, type |-> e]
  <1>1. /\ failures' \in Seq(Failures)
        /\ \A i \in DOMAIN failures' :
              failures'[i] = entry \/ (i \in DOMAIN failures /\ failures'[i] = failures[i])
    <2>1. failures \in Seq(Failures) /\ entry \in Failures
      BY DEF RunnerInv, RunnerTypeOK, Failures
    <2> QED
      BY <2>1, EnteredIs
  <1>2. RunnerTypeOK'
    BY <1>1 DEF RunnerInv, RunnerTypeOK
  <1>3. Reaped'
    BY DEF RunnerInv, Reaped
  <1>4. Accounted
    BY DEF RunnerInv, Blamed
  <1>5. Accounted'
    BY <1>1, <1>4 DEF Accounted
  <1>6. stage' # "returned"
    BY DEF RunnerInv, Reaped
  <1>7. leader' = "alive" /\ code' = 0 /\ ~report'
    BY DEF RunnerInv, Blamed
  <1>8. Blamed'
    BY <1>5, <1>6, <1>7 DEF Blamed, BlameIsOfAFailure
  <1> QED
    BY <1>2, <1>3, <1>8 DEF RunnerInv

(* A phase of a test raises. *)
LEMMA MakeReportStep ==
    ASSUME RunnerInv, NEW t \in Tests, NEW e \in Types, MakeReport(t, e)
    PROVE  RunnerInv'
  <1>1. /\ leader = "alive" /\ failures' = Entered(t, e)
        /\ UNCHANGED <<stage, processes, report, result, how>>
    BY DEF MakeReport
  <1>2. [test |-> t, type |-> e] \in Failures /\ t \in Nodes
    BY DEF Failures, Nodes
  <1>3. /\ failed \subseteq failed' /\ excused \subseteq excused'
        /\ failed' \subseteq Failures /\ excused' \subseteq Tests
    BY <1>2 DEF MakeReport, RunnerInv, RunnerTypeOK
  <1>4. t \in excused' \/ [test |-> t, type |-> e] \in failed'
    BY DEF MakeReport
  <1> QED
    BY <1>1, <1>2, <1>3, <1>4, EntryStep

(* Something cannot be collected; whatever its report seems to name.       *)
LEMMA CollectReportStep ==
    ASSUME RunnerInv, NEW n \in Collectors, NEW e \in Types, NEW quoted \in SUBSET Matched,
           CollectReport(n, e, quoted)
    PROVE  RunnerInv'
  <1>1. PICK found \in Grepped(e, quoted) : failures' = Entered(n, found)
    BY DEF CollectReport
  <1>2. found \in Types
    BY <1>1, TypesAssumption DEF Grepped, Types
  <1>3. /\ leader = "alive" /\ failed' = failed \union {[test |-> n, type |-> e]}
        /\ UNCHANGED <<stage, processes, report, excused, result, how>>
    BY DEF CollectReport
  <1>4. n \in Nodes /\ [test |-> n, type |-> e] \in Failures
    BY DEF Failures, Nodes
  <1>5. failed' \subseteq Failures /\ excused' \subseteq Tests
    BY <1>3, <1>4 DEF RunnerInv, RunnerTypeOK
  <1>6. n \notin Tests /\ [test |-> n, type |-> e] \in failed'
    BY <1>3, TypesAssumption
  <1> QED
    BY <1>1, <1>2, <1>3, <1>4, <1>5, <1>6, EntryStep

(* The rest of what happens inside pytest, and to the processes.           *)
LEMMA SessionStep ==
    ASSUME RunnerInv,
           \/ \E c \in Children : Fork(c) \/ ChildEnds(c)
           \/ SessionFinish \/ Die
    PROVE  RunnerInv'
  <1>1. RunnerTypeOK'
    <2>1. code' \in {0, 1} /\ UNCHANGED <<stage, failures, failed, excused, how, result>>
      BY DEF Fork, ChildEnds, SessionFinish, Die, RunnerInv, RunnerTypeOK
    <2>2. alive' \subseteq Children /\ holding' \subseteq Children
      BY DEF Fork, ChildEnds, SessionFinish, Die, RunnerInv, RunnerTypeOK
    <2>3. stubborn' \subseteq Children \union {Leader}
      BY DEF Fork, ChildEnds, SessionFinish, Die, RunnerInv, RunnerTypeOK
    <2>4. leader' \in {"none", "alive", "dead"} /\ report' \in BOOLEAN
      BY DEF Fork, ChildEnds, SessionFinish, Die, RunnerInv, RunnerTypeOK
    <2> QED
      BY <2>1, <2>2, <2>3, <2>4 DEF RunnerInv, RunnerTypeOK
  <1>2. Reaped'
    BY DEF Fork, ChildEnds, SessionFinish, Die, RunnerInv, Reaped
  <1>3. stage' = "returned" => UNCHANGED <<report, failures, failed, excused, result>>
    BY DEF Fork, ChildEnds, SessionFinish, Die, RunnerInv, Reaped
  <1>4. BlameIsOfAFailure'
    <2>1. BlameIsOfAFailure /\ stage' = stage
      BY DEF Fork, ChildEnds, SessionFinish, Die, RunnerInv, Blamed
    <2> QED
      BY <1>3, <2>1 DEF BlameIsOfAFailure
  <1>5. report' /\ code' = 0 => failed' = {}
    <2>1. CASE SessionFinish /\ failed # {}
      BY <2>1 DEF SessionFinish
    <2>2. CASE SessionFinish /\ failed = {}
      BY <2>2 DEF SessionFinish
    <2>3. CASE ~SessionFinish
      BY <2>3 DEF Fork, ChildEnds, Die, RunnerInv, Blamed
    <2> QED
      BY <2>1, <2>2, <2>3
  <1>6. Accounted'
    BY DEF Fork, ChildEnds, SessionFinish, Die, RunnerInv, Blamed, Accounted
  <1>7. Blamed'
    BY <1>4, <1>5, <1>6 DEF Fork, ChildEnds, SessionFinish, Die, RunnerInv, Blamed
  <1> QED
    BY <1>1, <1>2, <1>7 DEF RunnerInv

(* run_test() returns what the report says.  Here it is decided whom the   *)
(* run blames.                                                             *)
LEMMA FinishStep == ASSUME RunnerInv, Finish PROVE RunnerInv'
  <1>1. PICK noise \in SUBSET Classes : Return(OfSession(noise))
    BY DEF Finish
  <1>2. stage = "running" /\ leader = "dead" /\ UNCHANGED <<processes, session, how>>
    BY DEF Finish, Communicated
  <1>3. stage' = "returned" /\ result' = OfSession(noise)
    BY <1>1 DEF Return
  <1>4. RunnerTypeOK' /\ ~result'.timedOut
    BY <1>2, <1>3, VerdictTyped DEF RunnerInv, RunnerTypeOK
  <1>5. Reaped'
    BY <1>2, <1>3, <1>4 DEF RunnerInv, Reaped
  <1>6. BlameIsOfAFailure'
    <2> DEFINE Put == /\ result'.type \in Known => result'.class = class[result'.type]
                      /\ \/ Head(failures).test \in excused
                         \/ \E f \in failed :
                               /\ f.test = Head(failures).test
                               /\ Head(failures).test \in Tests => f.type = result'.type
    <2> SUFFICES ASSUME report
                 PROVE  /\ result'.passed => failed = {} /\ result'.class = Nothing
                        /\ ~result'.passed /\ failures # <<>> => Put
      BY <1>2, <1>3 DEF BlameIsOfAFailure
    <2>1. CASE code = 0
      BY <2>1, <1>3 DEF OfSession, Verdict, RunnerInv, Blamed
    <2>2. CASE code # 0 /\ failures # <<>>
      <3>1. 1 \in DOMAIN failures /\ Head(failures) = failures[1] /\ Accounted
        BY <2>2 DEF RunnerInv, Blamed, RunnerTypeOK
      <3>2. FirstFailure = Head(failures).type
        BY <2>2 DEF FirstFailure
      <3>3. result' = Verdict(FALSE, FALSE, FirstFailure, Classify(FirstFailure, Output(noise)))
        BY <2>2, <1>3 DEF OfSession
      <3>4. result'.type = Head(failures).type /\ ~result'.passed
        BY <3>2, <3>3 DEF Verdict
      <3>5. result'.type \in Known => result'.class = class[result'.type]
        BY <3>2, <3>3 DEF Verdict, Classify
      <3> QED
        BY <3>1, <3>4, <3>5 DEF Accounted
    <2>3. CASE code # 0 /\ failures = <<>>
      BY <2>3, <1>3 DEF OfSession, Verdict
    <2> QED
      BY <2>1, <2>2, <2>3
  <1>7. Blamed'
    BY <1>2, <1>6 DEF RunnerInv, Blamed, Accounted
  <1> QED
    BY <1>4, <1>5, <1>7 DEF RunnerInv

(* The start, the timeout and what follows it. *)
LEMMA TimeoutStep ==
    ASSUME RunnerInv,
           Spawn \/ TimeoutStrikes \/ Terminate \/ Waited \/ Kill \/ Drained \/ CancelTask
    PROVE  RunnerInv'
  <1> USE DEF Spawn, TimeoutStrikes, Terminate, Waited, Kill, Drained, CancelTask, Return
  <1>1. RunnerTypeOK'
    <2>1. CASE Drained
      BY <2>1 DEF OfTimeout, Verdict, RunnerInv, RunnerTypeOK
    <2>2. CASE ~Drained
      BY <2>2 DEF RunnerInv, RunnerTypeOK
    <2> QED
      BY <2>1, <2>2
  <1>2. Reaped'
    <2>1. CASE Drained
      BY <2>1 DEF OfTimeout, Verdict, RunnerInv, Reaped
    <2>2. CASE ~Drained
      BY <2>2 DEF RunnerInv, Reaped
    <2> QED
      BY <2>1, <2>2
  <1>3. stage' = "returned" => result'.timedOut
    BY DEF OfTimeout, Verdict
  <1>4. BlameIsOfAFailure'
    BY <1>3 DEF BlameIsOfAFailure
  <1>5. Blamed'
    BY <1>4 DEF RunnerInv, Reaped, Blamed, Accounted
  <1> QED
    BY <1>1, <1>2, <1>5 DEF RunnerInv

LEMMA RunnerNextInv == RunnerInv /\ [RunnerNext]_runnerVars => RunnerInv'
  <1>1. ASSUME RunnerInv, UNCHANGED runnerVars PROVE RunnerInv'
    BY <1>1 DEF runnerVars, RunnerInv, RunnerTypeOK, Reaped, Blamed, Accounted,
                BlameIsOfAFailure
  <1> QED
    BY <1>1, MakeReportStep, CollectReportStep, SessionStep, FinishStep, TimeoutStep
    DEF RunnerNext, Run, Session

THEOREM RunnerInvariance == RunnerSpec => []RunnerInv
  BY RunnerInitInv, RunnerNextInv, PTL DEF RunnerSpec

(* The variables of run_test() and of the plugin have their types.         *)
THEOREM RunnerTypeCorrect == RunnerSpec => []RunnerTypeOK
  <1>1. RunnerInv => RunnerTypeOK
    BY DEF RunnerInv
  <1> QED
    BY <1>1, RunnerInvariance, PTL

(* When run_test() has returned, pytest is dead; and no process it started *)
(* is left if it took a SIGKILL, nor one that heeds SIGTERM if pytest died *)
(* of that.                                                                *)
THEOREM HangsAreReaped == RunnerSpec => []HungRunsAreReaped
  <1>1. RunnerInv => HungRunsAreReaped
    BY DEF RunnerInv, Reaped, HungRunsAreReaped
  <1> QED
    BY <1>1, RunnerInvariance, PTL

(* A reported run that passed had nothing that failed, and one that failed *)
(* is put down to the first node of the report, to what it raised and to   *)
(* the class of that, whatever the output says; unless that node is a test *)
(* that was excused, or what could not be collected.                       *)
THEOREM TheFailedAreBlamed == RunnerSpec => []BlameIsOfAFailure
  <1>1. RunnerInv => BlameIsOfAFailure
    BY DEF RunnerInv, Blamed
  <1> QED
    BY <1>1, RunnerInvariance, PTL
=============================================================================
