------------------------------ MODULE Pipeline ------------------------------
(***************************************************************************)
(* TestPipeline.run() of pipeline.py for one source file, one step between *)
(* two awaits, with the content hash that ChangeTracker keeps for the file.*)
(* Around it, the user edits and deletes the source and the test file, and *)
(* a run can be cancelled or crash at any step.  JobQueue keeps the runs   *)
(* of one file apart, so there is one at a time.                           *)
(*                                                                         *)
(* The language model, the judge and pytest are external: whatever they    *)
(* can answer is a choice.                                                 *)
(***************************************************************************)
EXTENDS Integers, FiniteSets

CONSTANTS Contents,      \* what the source file can contain
          Missing,       \* there is no source file
          NoHash,        \* the tracker has no hash for it
          MaxHeal,       \* max_heal_attempts
          MaxEdits       \* bound on the edits of the user

ASSUME NamesAssumption == Missing \notin Contents /\ NoHash \notin Contents
ASSUME MaxHealAssumption == MaxHeal \in Nat
ASSUME BoundsAssumption == MaxEdits \in Nat

(* The arguments of run() that its control depends on.                     *)
Options == [ifChanged : BOOLEAN, force : BOOLEAN, forceGenerate : BOOLEAN,
            autoHeal : BOOLEAN, useJudge : BOOLEAN]

VARIABLES source,    \* the source file
          author,    \* who wrote the test file, see Authors
          hash,      \* the recorded hash of the source file
          pc,        \* where run() is
          opts,      \* its arguments
          snap,      \* source_code, as read at the start
          attempt,   \* attempt
          status,    \* the status it is about to return
          verdict,   \* the last answer of the judge
          edits,     \* edits of the user so far
          runs,      \* history: executions of the test in this run
          heals,     \* history: calls of heal_test in this run
          stale,     \* history: the test was written since it was last executed
          disturbed, \* history: the user has edited during this run
          tested,    \* history: contents the source had when a test of it was executed
          ended      \* history: contents for which a run completed

files == <<source, author, hash>>
locals == <<opts, snap, attempt, status, verdict>>
history == <<runs, heals, stale, disturbed, tested, ended>>
vars == <<files, pc, locals, edits, history>>

(* There may be no test file.  Ghost's own can be "unmarked": the header   *)
(* is_ghost_managed_test() looks for is not in the first five lines.       *)
Authors == {"nobody", "ghost", "unmarked", "user"}

NoStatus == "none"
NoVerdict == "none"
Quiet == [ifChanged |-> FALSE, force |-> FALSE, forceGenerate |-> FALSE,
          autoHeal |-> FALSE, useJudge |-> FALSE]

Init == /\ source \in Contents \union {Missing}
        /\ author \in {"nobody", "user"}
        /\ hash = NoHash
        /\ pc = "idle"
        /\ opts = Quiet /\ snap = Missing /\ attempt = 0
        /\ status = NoStatus /\ verdict = NoVerdict
        /\ edits = 0
        /\ runs = 0 /\ heals = 0 /\ stale = FALSE /\ disturbed = FALSE
        /\ tested = {} /\ ended = {}

Goto(l) == pc' = l

(* ensure_can_overwrite_test().                                            *)
MayWrite == opts.force \/ author \in {"nobody", "ghost"}

-----------------------------------------------------------------------------
(* The start of run(), and _check_if_changed(). *)

Start(o) == /\ pc = "idle"
            /\ opts' = o
            /\ Goto(IF source = Missing THEN "raised" ELSE "read")
            /\ UNCHANGED <<files, snap, attempt, status, verdict, edits, history>>

ReadSource == /\ pc = "read"
              /\ \/ /\ source = Missing
                    /\ Goto("raised")
                    /\ UNCHANGED snap
                 \/ /\ source # Missing
                    /\ snap' = source
                    /\ Goto(IF opts.ifChanged THEN "changed" ELSE "ensure")
              /\ UNCHANGED <<files, opts, attempt, status, verdict, edits, history>>

(* Faulty variant of CheckIfChanged: the hash is recorded when compared.   *)
CheckIfChangedRecords == /\ pc = "changed"
                         /\ Goto(IF hash = snap THEN "skipped" ELSE "ensure")
                         /\ hash' = snap
                         /\ UNCHANGED <<source, author, locals, edits, history>>

CheckIfChanged == /\ pc = "changed"
                  /\ Goto(IF hash = snap THEN "skipped" ELSE "ensure")
                  /\ UNCHANGED <<files, locals, edits, history>>

-----------------------------------------------------------------------------
(* _ensure_test_file(). *)

EnsureTestFile == /\ pc = "ensure"
                  /\ Goto(IF author # "nobody" /\ ~opts.forceGenerate
                          THEN "keep" ELSE "guard")
                  /\ UNCHANGED <<files, locals, edits, history>>

(* The test exists and stays.  Its text is read for the history, which     *)
(* fails if it has gone meanwhile and the history is empty.                *)
KeepTest == /\ pc = "keep"
            /\ \/ ~MayWrite /\ Goto("raised")
               \/ MayWrite /\ Goto("run")
               \/ author = "nobody" /\ Goto("raised")
            /\ UNCHANGED <<files, locals, edits, history>>

(* Faulty variant of GuardGenerate: forced generation is not checked.      *)
GuardGenerateForced == /\ pc = "guard"
                       /\ Goto(IF MayWrite \/ opts.forceGenerate THEN "generate" ELSE "raised")
                       /\ UNCHANGED <<files, locals, edits, history>>

GuardGenerate == /\ pc = "guard"
                 /\ Goto(IF MayWrite THEN "generate" ELSE "raised")
                 /\ UNCHANGED <<files, locals, edits, history>>

(* Faulty variant of Generate: it is tried again for ever.                 *)
GenerateRetries == /\ pc = "generate"
                   /\ \/ source # Missing /\ Goto("write")
                      \/ Goto("guard")
                   /\ UNCHANGED <<files, locals, edits, history>>

(* generate_test() reads the source again and asks the language model.     *)
Generate == /\ pc = "generate"
            /\ \/ source # Missing /\ Goto("write")
               \/ Goto("raised")
            /\ UNCHANGED <<files, locals, edits, history>>

(* The header is prepended only if the answer has none anywhere.           *)
WriteTest == /\ pc \in {"write", "writeHealed"}
             /\ author' \in {"ghost", "unmarked"}
             /\ stale' = TRUE
             /\ Goto(IF pc = "write" THEN "account" ELSE "run")
             /\ UNCHANGED <<source, hash, locals, edits, runs, heals, disturbed, tested, ended>>

(* The usage record needs the length of the source.                        *)
Account == /\ pc = "account"
           /\ Goto(IF source = Missing THEN "raised" ELSE "run")
           /\ UNCHANGED <<files, locals, edits, history>>

-----------------------------------------------------------------------------
(* The loop. *)

End(s) == status' = s /\ Goto("mark")

(* The status of a passing test; a faulty variant that ignores the heals.  *)
AlwaysPassed == "PASSED"
PassingStatus == IF attempt > 0 THEN "HEALED" ELSE "PASSED"

(* _execute_runner() and what the loop does with its result.  Without a    *)
(* file pytest fails.  SYNTAX, RUNTIME and UNKNOWN go the same way.        *)
ExecuteTest ==
    /\ pc = "run"
    /\ runs' = runs + 1
    /\ stale' = FALSE
    /\ tested' = tested \union ({source} \intersect Contents)
    /\ \/ author # "nobody" /\ End(PassingStatus)
       \/ author # "nobody" /\ opts.useJudge /\ Goto("judge") /\ UNCHANGED status
       \/ author # "nobody" /\ ~opts.useJudge /\ End("FAILED")
       \/ Goto("budget") /\ UNCHANGED status
    /\ UNCHANGED <<files, opts, snap, attempt, verdict, edits, heals, disturbed, ended>>

(* Faulty variant of ConsultTheJudge: only BUG_IN_CODE halts.              *)
ConsultTheJudgeFallsThrough ==
    /\ pc = "judge"
    /\ \/ Goto("raised") /\ UNCHANGED <<status, verdict>>
       \/ verdict' = "BUG_IN_CODE" /\ End("BUG_IN_CODE")
       \/ verdict' \in {"UNCLEAR", "FIX_TEST"} /\ Goto("budget") /\ UNCHANGED status
    /\ UNCHANGED <<files, opts, snap, attempt, edits, history>>

(* _handle_logic_failure().  An error of consult_the_judge() propagates.   *)
ConsultTheJudge ==
    /\ pc = "judge"
    /\ \/ Goto("raised") /\ UNCHANGED <<status, verdict>>
       \/ verdict' = "BUG_IN_CODE" /\ End("BUG_IN_CODE")
       \/ verdict' = "UNCLEAR" /\ End("UNCLEAR")
       \/ verdict' = "FIX_TEST" /\ Goto("budget") /\ UNCHANGED status
    /\ UNCHANGED <<files, opts, snap, attempt, edits, history>>

(* _check_heal_budget(), and the count of the attempt that follows; a      *)
(* faulty variant is off by one.                                           *)
CanHealOnceMore == opts.autoHeal /\ attempt <= MaxHeal
CanHeal == opts.autoHeal /\ attempt < MaxHeal
NextAttempt == attempt + 1

CheckHealBudget ==
    /\ pc = "budget"
    /\ \/ /\ CanHeal
          /\ attempt' = NextAttempt
          /\ Goto("heal")
          /\ UNCHANGED status
       \/ /\ ~CanHeal
          /\ End("FAILED")
          /\ UNCHANGED attempt
    /\ UNCHANGED <<files, opts, snap, verdict, edits, history>>

(* _heal_and_save() catches the errors of heal_test() and no others.       *)
Heal == /\ pc = "heal"
        /\ heals' = heals + 1
        /\ \/ End("FAILED")
           \/ Goto("guardHealed") /\ UNCHANGED status
        /\ UNCHANGED <<files, opts, snap, attempt, verdict, edits, runs, stale, disturbed, tested,
                       ended>>

GuardHealed == /\ pc = "guardHealed"
               /\ Goto(IF MayWrite THEN "writeHealed" ELSE "raised")
               /\ UNCHANGED <<files, locals, edits, history>>

-----------------------------------------------------------------------------
(* The ways out. *)

Leave == /\ Goto("idle")
         /\ opts' = Quiet /\ snap' = Missing /\ attempt' = 0
         /\ status' = NoStatus /\ verdict' = NoVerdict
         /\ runs' = 0 /\ heals' = 0 /\ stale' = FALSE /\ disturbed' = FALSE
         /\ UNCHANGED <<source, author, edits, tested>>

(* _finish(): the hash of what was read at the start.                      *)
MarkProcessed == /\ pc = "mark"
                 /\ hash' = snap
                 /\ ended' = ended \union {snap}
                 /\ Leave

Exit == /\ pc \in {"raised", "skipped"}
        /\ Leave
        /\ UNCHANGED <<hash, ended>>

(* A crash, or the CancelledError of JobQueue.stop().                      *)
Cancel == /\ pc # "idle"
          /\ Leave
          /\ UNCHANGED <<hash, ended>>

-----------------------------------------------------------------------------
(* The user, and the rest of the program. *)

Edit == /\ edits < MaxEdits
        /\ edits' = edits + 1
        /\ \/ source' \in (Contents \union {Missing}) \ {source} /\ UNCHANGED author
           \/ author' \in {"nobody", "user"} \ {author} /\ UNCHANGED source
        /\ disturbed' = (pc # "idle")
        /\ UNCHANGED <<hash, pc, locals, runs, heals, stale, tested, ended>>

(* ChangeTracker.remove(), or a hashes.json that cannot be read.           *)
Forget == /\ hash # NoHash
          /\ hash' = NoHash
          /\ UNCHANGED <<source, author, pc, locals, edits, history>>

Step == \/ ReadSource \/ CheckIfChanged \/ EnsureTestFile \/ KeepTest \/ GuardGenerate
        \/ Generate \/ WriteTest \/ Account \/ ExecuteTest \/ ConsultTheJudge
        \/ CheckHealBudget \/ Heal \/ GuardHealed \/ MarkProcessed \/ Exit

Next == Step \/ (\E o \in Options : Start(o)) \/ Cancel \/ Edit \/ Forget

Spec == Init /\ [][Next]_vars

(* The event loop resumes the run; the model and pytest answer or time out.*)
FairSpec == Spec /\ WF_vars(Step)

-----------------------------------------------------------------------------
(* Properties. *)

Steps == {"idle", "read", "changed", "ensure", "keep", "guard", "generate", "write",
          "account", "run", "judge", "budget", "heal", "guardHealed", "writeHealed",
          "mark", "raised", "skipped"}

TypeOK == /\ source \in Contents \union {Missing}
          /\ author \in Authors
          /\ hash \in Contents \union {NoHash}
          /\ pc \in Steps
          /\ opts \in Options
          /\ snap \in Contents \union {Missing}
          /\ attempt \in 0 .. MaxHeal
          /\ status \in {NoStatus, "PASSED", "HEALED", "FAILED", "BUG_IN_CODE", "UNCLEAR"}
          /\ verdict \in {NoVerdict, "BUG_IN_CODE", "UNCLEAR", "FIX_TEST"}
          /\ edits \in 0 .. MaxEdits
          /\ runs \in 0 .. MaxHeal + 1
          /\ heals \in 0 .. MaxHeal
          /\ stale \in BOOLEAN /\ disturbed \in BOOLEAN
          /\ tested \subseteq Contents /\ ended \subseteq Contents

(* "Max healing attempts are strictly respected and shared across healing  *)
(* paths": heal_test() is called at most max_heal_attempts times in a run, *)
(* whichever failures and verdicts alternate, and never without auto_heal. *)
HealBudget == heals <= (IF opts.autoHeal THEN MaxHeal ELSE 0)

(* "The initial test run always executes", and a status is only reported   *)
(* for the test as it is: each heal is followed by another execution, and  *)
(* a passing status counts the executions it took.                         *)
ReportsLastTest ==
    pc = "mark" => /\ runs >= 1 /\ ~stale
                   /\ status = "PASSED" => runs = 1 /\ heals = 0
                   /\ status = "HEALED" => heals >= 1 /\ runs = heals + 1

(* "UNCLEAR judge outcomes always halt execution without modifying the     *)
(* test", and so do BUG_IN_CODE outcomes.                                  *)
VerdictsHalt ==
    verdict \in {"BUG_IN_CODE", "UNCLEAR"} => pc = "mark" /\ status = verdict /\ ~stale

(* So nothing is healed that may not be: neither beyond the budget nor     *)
(* against a verdict.                                                      *)
HealsAreAllowed == HealBudget /\ VerdictsHalt

(* "Never records a new hash until the pipeline has actually completed":   *)
(* a run that was cancelled, crashed or raised does not make a later one   *)
(* skip the same content.                                                  *)
UnfinishedIsRetried == pc = "skipped" => snap \in ended

(* A run is skipped only if a test has been executed against the content.  *)
SkippedWasTested == pc = "skipped" => snap \in tested

(* That is so for what a run records without an edit during the run: the   *)
(* recorded content is one that a test was executed against.               *)
UndisturbedIsTested == pc = "mark" => disturbed \/ snap \in tested

(* "Hand-written tests are never overwritten without explicit force=True." *)
HandwrittenSurvives ==
    [][author = "user" /\ author' \in {"ghost", "unmarked"} => opts.force]_vars

(* They are not if the user does not edit during the run, whatever the     *)
(* other options, and through all rounds of healing.                       *)
UndisturbedSurvives ==
    [][author = "user" /\ author' \in {"ghost", "unmarked"} => opts.force \/ disturbed]_vars

(* A run that nobody disturbs keeps both promises.                         *)
UndisturbedIsRight == []UndisturbedIsTested /\ UndisturbedSurvives

(* Together with TypeOK the invariant that the steps preserve: where the   *)
(* run is fixes how the counters stand to each other.                      *)
Counters ==
    LET Before == {"read", "changed", "ensure", "keep", "guard", "generate", "write", "account"}
    IN  /\ pc \in Before \union {"idle"} => attempt = 0 /\ heals = 0 /\ runs = 0
        /\ pc \in Before \union {"idle", "skipped", "run", "writeHealed"} =>
               verdict \notin {"BUG_IN_CODE", "UNCLEAR"}
        /\ pc \in {"run", "guardHealed", "writeHealed"} => heals = attempt /\ runs = attempt
        /\ pc \in {"judge", "budget"} => heals = attempt /\ runs = attempt + 1
        /\ pc = "heal" => heals = attempt - 1 /\ runs = attempt
        /\ pc \in {"judge", "budget", "heal", "guardHealed", "mark"} => ~stale
        /\ pc # "raised" /\ attempt > 0 => opts.autoHeal
        /\ heals <= attempt

Reading == pc \notin {"idle", "read", "raised"} => snap \in Contents

(* What holds in a run the user does not disturb: the guard that let the   *)
(* run write still holds when it writes, and the source is what was read.  *)
Safe == pc \in {"generate", "write", "writeHealed"} => MayWrite \/ disturbed

SameSource ==
    LET Executed == {"judge", "budget", "heal", "guardHealed", "writeHealed", "mark"}
    IN  /\ pc \notin {"idle", "read", "raised", "skipped"} => disturbed \/ source = snap
        /\ pc \in Executed => disturbed \/ snap \in tested

CoreInv == /\ TypeOK /\ Counters /\ Reading
           /\ HealBudget /\ ReportsLastTest /\ VerdictsHalt /\ UnfinishedIsRetried
           /\ hash \in ended \union {NoHash}

IInv == CoreInv /\ Safe /\ SameSource

(* Every run returns: the loop has no other exit than its statuses.        *)
RunsEnd == pc # "idle" ~> pc = "idle"
=============================================================================
