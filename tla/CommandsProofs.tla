--------------------------- MODULE CommandsProofs ---------------------------
(***************************************************************************)
(* Proofs about Commands, for any project, any settings and any number of  *)
(* commands: what "generate" reports, which tests a command may write, and *)
(* that the key "init" and the user agreed on is the key that is used.     *)
(*                                                                         *)
(* Between its sources "generate" has kept its word for those behind it,   *)
(* and the sources that it is about are those behind it and those before   *)
(* it.  A test stands for sources whose test it is, which is what a        *)
(* rollback relies on.  The agreed key stays where "init" found or put it: *)
(* in the environment, or as the last assignment of its variable in .env.  *)
(***************************************************************************)
EXTENDS Commands, WellFoundedInduction, FiniteSetTheorems, TLAPS

Kinds == {"none", "init", "report", "generate", "rollback"}
Codes == {"ok", "error", "interrupted", "none"}
Statuses == {"passed", "failed", "skipped", "raised"}

Shape == /\ files \subseteq Paths
         /\ DOMAIN tests = Tests
         /\ \A t \in Tests : tests[t].of \subseteq {p \in Paths : resolve_test_path(p) = t}
         /\ history \in [Paths -> SUBSET Nat]
         /\ todo \subseteq Paths
         /\ results \subseteq [source : Paths, status : Statuses]
         /\ last \in [cmd : Kinds, exit : Codes, asked : SUBSET Paths]

Sources == {r.source : r \in results}

(* While "generate" goes on nothing has been raised.                       *)
Running == Generating => /\ last.cmd = "generate" /\ last.exit = "none"
                         /\ last.asked = Sources \union todo
                         /\ \A r \in results : r.status # "raised"

HasItsTest(p) == tests[resolve_test_path(p)].of = {p}
                 /\ tests[resolve_test_path(p)].attempt \in history[p]

(* The sources that have passed have their tests.                          *)
Kept == last.cmd = "generate" /\ last.exit \in {"ok", "none"} =>
            \A r \in results : r.status = "passed" /\ Rivals(last.asked, r.source) = {} =>
                                  HasItsTest(r.source)

IInv == Shape /\ Running /\ Kept /\ ExitTellsTruth

(* A command that is at its end, and a "generate" at its beginning.        *)
Done == /\ todo = {} /\ results = {}
        /\ last \in [cmd : Kinds, exit : Codes \ {"none"}, asked : {{}}] \/ last = NoCommand
Begun == /\ todo # {} /\ todo \subseteq Paths /\ results = {}
         /\ last = [cmd |-> "generate", exit |-> "none", asked |-> todo]

-----------------------------------------------------------------------------
LEMMA TestPath == ASSUME NEW p \in Paths PROVE resolve_test_path(p) \in Tests
  BY CommandsAssumption

LEMMA InitInv == Init => IInv
  <1> SUFFICES ASSUME Init PROVE IInv
    OBVIOUS
  <1>1. files \subseteq Paths
    BY CommandsAssumption DEF Init
  <1>2. Shape
    BY <1>1 DEF Init, Shape, Nothing, NoCommand, Kinds, Codes
  <1>3. Running /\ Kept /\ ExitTellsTruth
    BY DEF Init, Running, Kept, ExitTellsTruth, Generating, NoCommand
  <1> QED
    BY <1>2, <1>3 DEF IInv

(* A new command starts with nothing behind it.                            *)
LEMMA NewCommand ==
    ASSUME files' \subseteq Paths, DOMAIN tests' = Tests,
           \A t \in Tests : tests'[t].of \subseteq {p \in Paths : resolve_test_path(p) = t},
           history' \in [Paths -> SUBSET Nat],
           Done' \/ Begun'
    PROVE  IInv'
  <1>1. CASE Done'
    <2>1. todo' = {} /\ results' = {} /\ last'.asked = {}
          /\ last' \in [cmd : Kinds, exit : Codes, asked : SUBSET Paths]
      BY <1>1 DEF Done, NoCommand, Kinds, Codes
    <2>2. Shape'
      BY <2>1 DEF Shape
    <2>3. Running' /\ Kept' /\ ExitTellsTruth'
      BY <2>1 DEF Running, Kept, ExitTellsTruth, Generating
    <2> QED
      BY <2>2, <2>3 DEF IInv
  <1>2. CASE Begun'
    <2>1. Shape'
      BY <1>2 DEF Begun, Shape, Kinds, Codes
    <2>2. Running' /\ Kept' /\ ExitTellsTruth'
      BY <1>2 DEF Begun, Running, Sources, Kept, ExitTellsTruth, Generating
    <2> QED
      BY <2>1, <2>2 DEF IInv
  <1> QED
    BY <1>1, <1>2

(* The commands that write no test.                                        *)
LEMMA InitDone ==
    ASSUME \/ InitCancelled \/ Watch
           \/ \E p \in Providers, a \in {"use", "type", "skip"}, k \in Typed,
                 saves, aborts \in BOOLEAN : InitProject(p, a, k, saves, aborts)
    PROVE  Done' /\ UNCHANGED <<files, tests, history>> /\ last'.cmd = "init"
  <1>1. CASE InitCancelled
    BY <1>1 DEF InitCancelled, Exit, Forget, Anew, Done, Kinds, Codes, project
  <1>2. CASE Watch
    BY <1>2 DEF Watch, Exit, Forget, Anew, Done, Kinds, Codes, project
  <1>3. ASSUME NEW p \in Providers, NEW a \in {"use", "type", "skip"}, NEW k \in Typed,
               NEW saves \in BOOLEAN, NEW aborts \in BOOLEAN, InitProject(p, a, k, saves, aborts)
        PROVE  Done' /\ UNCHANGED <<files, tests, history>> /\ last'.cmd = "init"
    <2>1. /\ \E code \in {"ok", "interrupted", "error"} : Exit("init", code, {})
          /\ Forget /\ UNCHANGED <<files, tests, history>>
      BY <1>3 DEF InitProject
    <2> QED
      BY <2>1 DEF Exit, Forget, Anew, Done, Kinds, Codes
  <1> QED
    BY <1>1, <1>2, <1>3

LEMMA ReportDone ==
    ASSUME \/ \E p \in Providers : Models(p)
           \/ \E c \in {"config", "providers", "start", "run-tests"} : Report(c)
           \/ \E p \in Targets, l \in Limits : Index(p, l)
    PROVE  Done' /\ UNCHANGED <<files, tests, history>> /\ last'.cmd = "report"
  <1>1. /\ Exit("report", "ok", {}) \/ Exit("report", "error", {})
        /\ Anew /\ UNCHANGED <<files, tests, history>>
    BY DEF Models, Report, Index, Forget, project
  <1> QED
    BY <1>1 DEF Exit, Anew, Done, Kinds, Codes

LEMMA GenerateBegins ==
    ASSUME NEW o \in [force : BOOLEAN, ifChanged : BOOLEAN],
           \/ \E p \in Paths : GenerateOne(p, o)
           \/ \E d \in Dirs : GenerateAll(d, o),
           files \subseteq Paths
    PROVE  (Done' \/ Begun') /\ UNCHANGED <<files, tests, history>> /\ last'.cmd = "generate"
  <1>1. ASSUME NEW sources \in SUBSET Paths, sources # {}, Begins(sources, o)
        PROVE  Begun' /\ UNCHANGED <<files, tests, history>> /\ last'.cmd = "generate"
    BY <1>1 DEF Begins, Begun, Exit, project
  <1>2. ASSUME NEW code \in {"ok", "error", "interrupted"}, Ends(code)
        PROVE  Done' /\ UNCHANGED <<files, tests, history>> /\ last'.cmd = "generate"
    BY <1>2 DEF Ends, Exit, Forget, Anew, Done, Kinds, Codes, project
  <1>3. ASSUME NEW p \in Paths, GenerateOne(p, o)
        PROVE  \/ \E sources \in SUBSET Paths : sources # {} /\ Begins(sources, o)
               \/ \E code \in {"ok", "error", "interrupted"} : Ends(code)
    BY <1>3 DEF GenerateOne, Refused, Cancelled
  <1>4. ASSUME NEW d \in Dirs, GenerateAll(d, o)
        PROVE  \/ \E sources \in SUBSET Paths : sources # {} /\ Begins(sources, o)
               \/ \E code \in {"ok", "error", "interrupted"} : Ends(code)
    <2>1. BatchSources(files, d) \subseteq Paths
      BY DEF BatchSources, get_project_files
    <2> QED
      BY <1>4, <2>1 DEF GenerateAll, Refused
  <1> QED
    BY <1>1, <1>2, <1>3, <1>4

-----------------------------------------------------------------------------
(* The run of a source. *)

(* A run that returns keeps the word given for it and those behind it.     *)
LEMMA ReturnsInv ==
    ASSUME IInv, NEW p \in todo, NEW status \in {"passed", "failed", "skipped"},
           Returns(p, status),
           files' \subseteq Paths, DOMAIN tests' = Tests,
           \A t \in Tests : tests'[t].of \subseteq {q \in Paths : resolve_test_path(q) = t},
           history' \in [Paths -> SUBSET Nat],
           status = "passed" => HasItsTest(p)',
           \A r \in results : r.status = "passed" /\ Rivals(last.asked, r.source) = {} =>
                                 HasItsTest(r.source)'
    PROVE  IInv'
  <1> DEFINE new == [source |-> p, status |-> status]
  <1>1. /\ results' = results \union {new} /\ todo' = todo \ {p}
        /\ last' = IF todo' = {} THEN [last EXCEPT !.exit = ExitCode(results')] ELSE last
    BY DEF Returns
  <1>2. p \in Paths /\ new \in [source : Paths, status : Statuses]
    BY DEF Shape, Statuses, IInv
  <1>3. /\ last.cmd = "generate" /\ last.exit = "none" /\ last.asked = Sources \union todo
        /\ \A r \in results : r.status # "raised"
    BY DEF Running, Generating, IInv
  <1>4. last'.cmd = "generate" /\ last'.asked = last.asked
    BY <1>1, <1>3 DEF Shape, IInv
  <1>5. Sources' = Sources \union {p}
    <2>1. results' = results \union {new} /\ new.source = p
      BY <1>1
    <2> HIDE DEF new
    <2>2. {r.source : r \in results'} = {r.source : r \in results} \union {new.source}
      BY <2>1
    <2> QED
      BY <2>1, <2>2 DEF Sources
  <1>6. last'.asked = Sources' \union todo'
    BY <1>1, <1>3, <1>4, <1>5
  <1>7. \A r \in results' : r.status # "raised"
    BY <1>1, <1>3
  <1>8. ExitCode(results') \in {"ok", "error"}
    BY DEF ExitCode
  <1>9. Shape'
    BY <1>1, <1>2, <1>8 DEF Shape, Codes, IInv
  <1>10. Running'
    BY <1>1, <1>3, <1>4, <1>6, <1>7 DEF Running, Generating
  <1>11. \A r \in results' : r.status = "passed" /\ Rivals(last'.asked, r.source) = {} =>
                               HasItsTest(r.source)'
    BY <1>1, <1>4
  <1>12. Kept'
    BY <1>11 DEF Kept
  <1>13. ASSUME todo' = {} PROVE last'.exit = ExitCode(results')
    BY <1>1, <1>13 DEF Shape, IInv
  <1>14. ASSUME todo' = {}, last'.exit = "ok"
         PROVE  \A r \in results' :
                   \/ r.status = "skipped"
                   \/ /\ r.status = "passed"
                      /\ Rivals(last'.asked, r.source) = {} => HasItsTest(r.source)'
    <2>1. \A r \in results' : r.status # "failed"
      BY <1>13, <1>14 DEF ExitCode
    <2>2. \A r \in results' : r.status \in Statuses
      BY <1>9 DEF Shape
    <2> QED
      BY <2>1, <2>2, <1>7, <1>11 DEF Statuses
  <1>15. ASSUME todo' = {}, last'.exit = "error"
         PROVE  \E r \in results' : r.status \in {"failed", "raised"}
    BY <1>13, <1>15 DEF ExitCode
  <1>16. ExitTellsTruth'
    BY <1>6, <1>14, <1>15 DEF ExitTellsTruth, Generating, HasItsTest, Sources
  <1> QED
    BY <1>9, <1>10, <1>12, <1>16 DEF IInv

(* The test of an attempt is of its source, and no other test changes.     *)
LEMMA WrittenTests ==
    ASSUME Shape, NEW p \in Paths, NEW n \in Attempts, NEW recorded \in n .. n + 1,
           Written(p, n, recorded)
    PROVE  /\ DOMAIN tests' = Tests
           /\ \A t \in Tests : tests'[t].of \subseteq {q \in Paths : resolve_test_path(q) = t}
           /\ history' \in [Paths -> SUBSET Nat]
           /\ tests'[resolve_test_path(p)] = AttemptAt(p, n)
           /\ \A t \in Tests \ {resolve_test_path(p)} : tests'[t] = tests[t]
           /\ history'[p] = history[p] \union 0 .. recorded - 1
           /\ \A q \in Paths \ {p} : history'[q] = history[q]
  <1>1. /\ tests' = [tests EXCEPT ![resolve_test_path(p)] = AttemptAt(p, n)]
        /\ history' = [history EXCEPT ![p] = @ \union 0 .. recorded - 1]
    BY DEF Written
  <1>2. resolve_test_path(p) \in Tests
    BY TestPath
  <1>3. n \in Nat /\ 0 .. recorded - 1 \subseteq Nat
    BY CommandsAssumption
  <1>4. history' \in [Paths -> SUBSET Nat] /\ history'[p] = history[p] \union 0 .. recorded - 1
        /\ \A q \in Paths \ {p} : history'[q] = history[q]
    BY <1>1, <1>3 DEF Shape
  <1>5. DOMAIN tests' = Tests /\ tests'[resolve_test_path(p)] = AttemptAt(p, n)
        /\ \A t \in Tests \ {resolve_test_path(p)} : tests'[t] = tests[t]
    BY <1>1, <1>2 DEF Shape
  <1>6. \A t \in Tests : tests'[t].of \subseteq {q \in Paths : resolve_test_path(q) = t}
    BY <1>5 DEF Shape, AttemptAt
  <1> QED
    BY <1>4, <1>5, <1>6

LEMMA SkipInv == ASSUME IInv, NEW p \in Paths, Skip(p) PROVE IInv'
  <1>1. UNCHANGED <<files, tests, history>> /\ p \in todo /\ Returns(p, "skipped")
    BY DEF Skip, FirstOf, project
  <1>2. /\ files' \subseteq Paths /\ DOMAIN tests' = Tests /\ history' \in [Paths -> SUBSET Nat]
        /\ \A t \in Tests : tests'[t].of \subseteq {q \in Paths : resolve_test_path(q) = t}
    BY <1>1 DEF IInv, Shape
  <1>3. \A r \in results : r.status = "passed" /\ Rivals(last.asked, r.source) = {} =>
                              HasItsTest(r.source)'
    BY <1>1 DEF IInv, Running, Generating, Kept, HasItsTest
  <1> QED
    BY <1>1, <1>2, <1>3, ReturnsInv

LEMMA GenerateInv ==
    ASSUME IInv, NEW p \in Paths, NEW n \in Attempts, NEW status \in {"passed", "failed"},
           Generate(p, n, status)
    PROVE  IInv'
  <1>1. /\ UNCHANGED files /\ p \in todo /\ Returns(p, status) /\ Written(p, n, n + 1)
        /\ n \in Nat /\ n + 1 \in n .. n + 1
    BY CommandsAssumption DEF Generate, FirstOf
  <1>2. /\ DOMAIN tests' = Tests /\ history' \in [Paths -> SUBSET Nat]
        /\ \A t \in Tests : tests'[t].of \subseteq {q \in Paths : resolve_test_path(q) = t}
        /\ tests'[resolve_test_path(p)] = AttemptAt(p, n)
        /\ \A t \in Tests \ {resolve_test_path(p)} : tests'[t] = tests[t]
        /\ history'[p] = history[p] \union 0 .. (n + 1) - 1
        /\ \A q \in Paths \ {p} : history'[q] = history[q]
    BY <1>1, WrittenTests DEF IInv
  <1>3. HasItsTest(p)'
    BY <1>1, <1>2 DEF HasItsTest, AttemptAt
  <1>4. ASSUME NEW r \in results, r.status = "passed", Rivals(last.asked, r.source) = {}
        PROVE  HasItsTest(r.source)'
    <2>1. r.source \in Paths
      BY DEF IInv, Shape
    <2>2. HasItsTest(r.source) /\ p \in last.asked
      BY <1>1, <1>4 DEF IInv, Running, Generating, Kept
    <2>3. r.source = p \/ resolve_test_path(r.source) # resolve_test_path(p)
      BY <1>4, <2>2 DEF Rivals
    <2>4. CASE r.source # p
      BY <1>2, <2>1, <2>2, <2>3, <2>4, TestPath DEF HasItsTest
    <2> QED
      BY <1>3, <2>4
  <1>5. files' \subseteq Paths
    BY <1>1 DEF IInv, Shape
  <1> QED
    BY <1>1, <1>2, <1>3, <1>4, <1>5, ReturnsInv

(* A run that raises ends the command, with an error of its own.           *)
LEMMA GenerateFailsInv == ASSUME IInv, NEW p \in Paths, GenerateFails(p) PROVE IInv'
  <1> DEFINE new == [source |-> p, status |-> "raised"]
  <1>1. /\ UNCHANGED files /\ todo' = {} /\ p \in todo /\ results' = results \union {new}
        /\ \E code \in {"error", "interrupted"} : last' = [last EXCEPT !.exit = code]
    BY DEF GenerateFails, Raises, FirstOf
  <1>2. /\ DOMAIN tests' = Tests /\ history' \in [Paths -> SUBSET Nat]
        /\ \A t \in Tests : tests'[t].of \subseteq {q \in Paths : resolve_test_path(q) = t}
    <2>1. CASE UNCHANGED <<tests, history>>
      BY <2>1 DEF IInv, Shape
    <2>2. CASE \E n \in Attempts : \E recorded \in n .. n + 1 : Written(p, n, recorded)
      BY <2>2, WrittenTests DEF IInv
    <2> QED
      BY <2>1, <2>2 DEF GenerateFails
  <1>3. /\ last \in [cmd : Kinds, exit : Codes, asked : SUBSET Paths]
        /\ results \subseteq [source : Paths, status : Statuses]
        /\ files \subseteq Paths
    BY DEF IInv, Shape
  <1>4. /\ last' \in [cmd : Kinds, exit : Codes, asked : SUBSET Paths]
        /\ last'.exit \in {"error", "interrupted"}
    BY <1>1, <1>3 DEF Codes
  <1>5. new \in [source : Paths, status : Statuses]
    BY DEF Statuses
  <1>6. Shape'
    BY <1>1, <1>2, <1>3, <1>4, <1>5 DEF Shape
  <1>7. Running' /\ Kept'
    BY <1>1, <1>4 DEF Running, Generating, Kept
  <1>8. \E r \in results' : r.status \in {"failed", "raised"}
    <2> new \in results' /\ new.status = "raised"
      BY <1>1
    <2> QED
      OBVIOUS
  <1>9. ExitTellsTruth'
    BY <1>4, <1>8 DEF ExitTellsTruth
  <1> QED
    BY <1>6, <1>7, <1>9 DEF IInv

-----------------------------------------------------------------------------
(* Rollbacks and edits. *)

LEMMA RestoresFrame ==
    ASSUME IInv, NEW p \in Paths, NEW n \in Attempts \union {Unset}, Restores(p, n)
    PROVE  /\ \E code \in {"ok", "error"} : Exit("rollback", code, {})
           /\ DOMAIN tests' = Tests
           /\ \A t \in Tests : tests'[t].of \subseteq {q \in Paths : resolve_test_path(q) = t}
           /\ \A t \in Tests :
                 \/ tests'[t] = tests[t]
                 \/ t = resolve_test_path(p) /\ tests'[t].of = {p} /\ p \in Tracked
  <1> DEFINE attempts == IF n = Unset THEN history[p] ELSE history[p] \intersect {n}
  <1> DEFINE new == AttemptAt(p, Min(attempts))
  <1>0. IF attempts = {}
        THEN Exit("rollback", "error", {}) /\ UNCHANGED tests
        ELSE /\ tests' = [tests EXCEPT ![resolve_test_path(p)] = new]
             /\ Exit("rollback", "ok", {})
    BY DEF Restores
  <1>1. CASE attempts = {}
    <2>1. Exit("rollback", "error", {}) /\ tests' = tests
      BY <1>0, <1>1
    <2>2. \E code \in {"ok", "error"} : Exit("rollback", code, {})
      BY <2>1, Zenon
    <2> QED
      BY <2>1, <2>2 DEF IInv, Shape
  <1>2. CASE attempts # {}
    <2>1. tests' = [tests EXCEPT ![resolve_test_path(p)] = new] /\ Exit("rollback", "ok", {})
      BY <1>0, <1>2
    <2>2. p \in Tracked
      BY <1>2 DEF Tracked
    <2>3. new.of = {p}
      BY DEF AttemptAt
    <2>4. \E code \in {"ok", "error"} : Exit("rollback", code, {})
      BY <2>1, Zenon
    <2> HIDE DEF new
    <2>5. /\ DOMAIN tests' = Tests /\ tests'[resolve_test_path(p)] = new
          /\ \A t \in Tests : t # resolve_test_path(p) => tests'[t] = tests[t]
      BY <2>1, TestPath DEF IInv, Shape
    <2>6. \A t \in Tests : tests'[t].of \subseteq {q \in Paths : resolve_test_path(q) = t}
      BY <2>3, <2>5 DEF IInv, Shape
    <2>7. \A t \in Tests :
                \/ tests'[t] = tests[t]
                \/ t = resolve_test_path(p) /\ tests'[t].of = {p} /\ p \in Tracked
      BY <2>2, <2>3, <2>5
    <2> QED
      BY <2>4, <2>5, <2>6, <2>7
  <1> QED
    BY <1>1, <1>2

LEMMA RollBackFrame ==
    ASSUME IInv, NEW n \in Attempts \union {Unset},
           (\E p \in Paths : RollBack(p, n)) \/ (\E t \in Tests : RollBackTest(t, n))
    PROVE  /\ Done' /\ UNCHANGED <<files, history>> /\ last'.cmd = "rollback"
           /\ DOMAIN tests' = Tests
           /\ \A t \in Tests : tests'[t].of \subseteq {q \in Paths : resolve_test_path(q) = t}
           /\ \A t \in Tests : tests'[t] # tests[t] =>
                 \E p \in Tracked : resolve_test_path(p) = t /\ tests'[t].of = {p}
  <1>1. Forget /\ UNCHANGED <<files, history>>
    BY DEF RollBack, RollBackTest, Frame
  <1>2. \/ Exit("rollback", "error", {}) /\ UNCHANGED tests
        \/ \E p \in Paths : Restores(p, n)
    BY DEF RollBack, RollBackTest, FirstOf, Tracked
  <1>3. /\ \E code \in {"ok", "error"} : Exit("rollback", code, {})
        /\ DOMAIN tests' = Tests
        /\ \A t \in Tests : tests'[t].of \subseteq {q \in Paths : resolve_test_path(q) = t}
        /\ \A t \in Tests : tests'[t] # tests[t] =>
                 \E p \in Tracked : resolve_test_path(p) = t /\ tests'[t].of = {p}
    <2>1. CASE Exit("rollback", "error", {}) /\ UNCHANGED tests
      BY <2>1 DEF IInv, Shape
    <2>2. CASE \E p \in Paths : Restores(p, n)
      BY <2>2, RestoresFrame
    <2> QED
      BY <1>2, <2>1, <2>2
  <1>4. Done' /\ last'.cmd = "rollback"
    BY <1>1, <1>3 DEF Forget, Anew, Exit, Done, Kinds, Codes
  <1> QED
    BY <1>1, <1>3, <1>4

LEMMA EditFrame ==
    ASSUME IInv, (\E p \in Paths : EditSource(p)) \/ (\E t \in Tests : EditTest(t))
    PROVE  /\ Done' /\ UNCHANGED <<files, history>> /\ last'.cmd = "none"
           /\ DOMAIN tests' = Tests
           /\ \A t \in Tests : tests'[t].of \subseteq {q \in Paths : resolve_test_path(q) = t}
  <1>1. Forget /\ last' = NoCommand /\ UNCHANGED <<files, history>>
    BY DEF EditSource, EditTest
  <1>2. Done' /\ last'.cmd = "none"
    BY <1>1 DEF Forget, Anew, Done, NoCommand
  <1>3. /\ DOMAIN tests' = Tests
        /\ \A t \in Tests : tests'[t].of \subseteq {q \in Paths : resolve_test_path(q) = t}
    <2>1. CASE UNCHANGED tests
      BY <2>1 DEF IInv, Shape
    <2>2. ASSUME NEW t \in Tests, EditTest(t)
          PROVE  \E new \in {Nothing, Handwritten} : tests' = [tests EXCEPT ![t] = new]
      BY <2>2 DEF EditTest, IInv, Shape
    <2>3. Nothing.of = {} /\ Handwritten.of = {}
      BY DEF Nothing, Handwritten
    <2>4. ASSUME NEW t \in Tests, NEW new \in {Nothing, Handwritten},
                 tests' = [tests EXCEPT ![t] = new]
          PROVE  /\ DOMAIN tests' = Tests
                 /\ \A u \in Tests : tests'[u].of \subseteq
                                        {q \in Paths : resolve_test_path(q) = u}
      BY <2>3, <2>4 DEF IInv, Shape
    <2> QED
      BY <2>1, <2>2, <2>4 DEF EditSource
  <1> QED
    BY <1>1, <1>2, <1>3

-----------------------------------------------------------------------------
(* All steps. *)

(* The commands that begin and end, or begin, at the shell.                *)
Shell ==
    \/ InitCancelled \/ Watch
    \/ \E p \in Providers, a \in {"use", "type", "skip"}, k \in Typed, saves, aborts \in BOOLEAN :
          InitProject(p, a, k, saves, aborts)
    \/ \E p \in Providers : Models(p)
    \/ \E c \in {"config", "providers", "start", "run-tests"} : Report(c)
    \/ \E p \in Targets, l \in Limits : Index(p, l)
    \/ \E o \in [force : BOOLEAN, ifChanged : BOOLEAN] :
          \/ \E p \in Paths : GenerateOne(p, o)
          \/ \E d \in Dirs : GenerateAll(d, o)

LEMMA ShellFrame ==
    ASSUME IInv, Shell
    PROVE  /\ Done' \/ Begun'
           /\ UNCHANGED <<files, tests, history>>
           /\ last'.cmd \in {"init", "report", "generate"}
  <1> files \subseteq Paths
    BY DEF IInv, Shape
  <1>1. CASE \E o \in [force : BOOLEAN, ifChanged : BOOLEAN] :
                \/ \E p \in Paths : GenerateOne(p, o)
                \/ \E d \in Dirs : GenerateAll(d, o)
    BY <1>1, GenerateBegins
  <1> QED
    BY <1>1, InitDone, ReportDone DEF Shell

LEMMA Steps ==
    ASSUME Next
    PROVE  \/ Shell
           \/ \E p \in Paths : Skip(p) \/ GenerateFails(p)
           \/ \E p \in Paths, n \in Attempts, s \in {"passed", "failed"} : Generate(p, n, s)
           \/ \E n \in Attempts \union {Unset} :
                 (\E p \in Paths : RollBack(p, n)) \/ (\E t \in Tests : RollBackTest(t, n))
           \/ (\E p \in Paths : EditSource(p)) \/ (\E t \in Tests : EditTest(t))
  BY DEF Next, Shell

LEMMA NextInv == IInv /\ [Next]_vars => IInv'
  <1> SUFFICES ASSUME IInv, [Next]_vars PROVE IInv'
    OBVIOUS
  <1>0. /\ files \subseteq Paths /\ DOMAIN tests = Tests /\ history \in [Paths -> SUBSET Nat]
        /\ \A t \in Tests : tests[t].of \subseteq {q \in Paths : resolve_test_path(q) = t}
    BY DEF IInv, Shape
  <1>1. CASE Shell
    BY <1>0, <1>1, ShellFrame, NewCommand
  <1>2. CASE \E p \in Paths : Skip(p) \/ GenerateFails(p)
    BY <1>2, SkipInv, GenerateFailsInv
  <1>3. CASE \E p \in Paths, n \in Attempts, s \in {"passed", "failed"} : Generate(p, n, s)
    BY <1>3, GenerateInv
  <1>4. CASE \E n \in Attempts \union {Unset} :
                (\E p \in Paths : RollBack(p, n)) \/ (\E t \in Tests : RollBackTest(t, n))
    BY <1>0, <1>4, RollBackFrame, NewCommand
  <1>5. CASE (\E p \in Paths : EditSource(p)) \/ (\E t \in Tests : EditTest(t))
    BY <1>0, <1>5, EditFrame, NewCommand
  <1>6. CASE UNCHANGED vars
    BY <1>6 DEF vars, project, generation, IInv, Shape, Running, Generating, Kept, HasItsTest,
                ExitTellsTruth, Sources
  <1> QED
    BY <1>1, <1>2, <1>3, <1>4, <1>5, <1>6, Steps

(* The invariant holds, whatever the commands and the edits.               *)
THEOREM Invariance == Spec => []IInv
  BY InitInv, NextInv, PTL DEF Spec

-----------------------------------------------------------------------------
LEMMA KeepsHandwritten == IInv /\ [Next]_vars => HandwrittenKept
  <1> SUFFICES ASSUME IInv, [Next]_vars, NEW t \in Tests,
                      tests[t] = Handwritten, tests'[t] # Handwritten
               PROVE  opts.force \/ last'.cmd \in {"rollback", "none"}
    BY DEF HandwrittenKept
  <1>1. CASE Shell
    BY <1>1, ShellFrame
  <1>2. ASSUME NEW p \in Paths, NEW n \in Attempts, NEW recorded \in n .. n + 1,
               Written(p, n, recorded), MayWrite(p)
        PROVE  opts.force
    BY <1>2, WrittenTests DEF IInv, MayWrite
  <1>3. ASSUME NEW p \in Paths, Skip(p) \/ GenerateFails(p)
        PROVE  opts.force
    <2>1. CASE UNCHANGED tests
      BY <2>1
    <2>2. CASE Goes(p) /\ \E n \in Attempts : \E recorded \in n .. n + 1 : Written(p, n, recorded)
      BY <1>2, <2>2 DEF Goes
    <2> QED
      BY <1>3, <2>1, <2>2 DEF Skip, GenerateFails, project
  <1>4. ASSUME NEW p \in Paths, NEW n \in Attempts, NEW s \in {"passed", "failed"},
               Generate(p, n, s)
        PROVE  opts.force
    <2> n + 1 \in n .. n + 1
      BY CommandsAssumption
    <2> QED
      BY <1>2, <1>4 DEF Generate, Goes
  <1>5. CASE \E n \in Attempts \union {Unset} :
                (\E p \in Paths : RollBack(p, n)) \/ (\E u \in Tests : RollBackTest(u, n))
    BY <1>5, RollBackFrame
  <1>6. CASE (\E p \in Paths : EditSource(p)) \/ (\E u \in Tests : EditTest(u))
    BY <1>6, EditFrame
  <1>7. CASE UNCHANGED vars
    BY <1>7 DEF vars, project
  <1> QED
    BY <1>1, <1>3, <1>4, <1>5, <1>6, <1>7, Steps

(* A rollback of another source of the same test would make it a rival.    *)
LEMMA RollsBackItsOwn == IInv /\ [Next]_vars => RollbackIsOwn
  <1> SUFFICES ASSUME IInv, [Next]_vars, NEW t \in Tests, last'.cmd = "rollback",
                      tests'[t] # tests[t], NEW p \in tests[t].of, Rivals(Tracked, p) = {}
               PROVE  tests'[t].of = {p}
    BY DEF RollbackIsOwn
  <1>0. p \in Paths /\ resolve_test_path(p) = t
    BY DEF IInv, Shape
  <1>1. CASE Shell
    BY <1>1, ShellFrame
  <1>2. ASSUME NEW q \in Paths,
               \/ Skip(q) \/ GenerateFails(q)
               \/ \E n \in Attempts, s \in {"passed", "failed"} : Generate(q, n, s)
        PROVE  FALSE
    <2>1. todo # {} /\ \/ \E s : Returns(q, s)
                       \/ Raises(q)
      BY <1>2 DEF Skip, GenerateFails, Generate, FirstOf
    <2>2. last.cmd = "generate" /\ last \in [cmd : Kinds, exit : Codes, asked : SUBSET Paths]
      BY <2>1 DEF IInv, Running, Generating, Shape
    <2>3. last'.cmd = last.cmd
      BY <2>1, <2>2 DEF Returns, Raises
    <2> QED
      BY <2>2, <2>3
  <1>3. CASE \E n \in Attempts \union {Unset} :
                (\E q \in Paths : RollBack(q, n)) \/ (\E u \in Tests : RollBackTest(u, n))
    <2>1. PICK q \in Tracked : resolve_test_path(q) = t /\ tests'[t].of = {q}
      BY <1>3, RollBackFrame
    <2>2. q = p
      BY <1>0, <2>1 DEF Rivals
    <2> QED
      BY <2>1, <2>2
  <1>4. CASE (\E q \in Paths : EditSource(q)) \/ (\E u \in Tests : EditTest(u))
    BY <1>4, EditFrame
  <1>5. CASE UNCHANGED vars
    BY <1>5 DEF vars, project
  <1> QED
    BY <1>1, <1>2, <1>3, <1>4, <1>5, Steps

(* Whatever the settings, the files and the commands, "generate" reports   *)
(* what became of its sources, a hand-written test is written over by force*)
(* or a rollback only, and a rollback is to an attempt at its own source.  *)
THEOREM CommandsAreTrue == Spec => CommandsKeepTheirWord
  <1>1. IInv /\ IInv' /\ [Next]_vars => [ExitTellsTruth' /\ HandwrittenKept /\ RollbackIsOwn]_vars
    BY KeepsHandwritten, RollsBackItsOwn DEF IInv
  <1> QED
    BY <1>1, Invariance, PTL DEF Spec, CommandsKeepTheirWord

-----------------------------------------------------------------------------
(* Choices of a least or a greatest number.                                *)

(* A set of numbers that is not empty has a least one.                     *)
LEMMA LeastNumber ==
    ASSUME NEW T, T \subseteq Nat, T # {}
    PROVE  \E x \in T : \A y \in T : x <= y
  <1> DEFINE R == OpToRel(<, Nat)
  <1>1. IsWellFoundedOn(R, Nat)
    BY NatLessThanWellFounded
  <1>2. \A x, y \in Nat : x < y => <<x, y>> \in R
    BY DEF OpToRel
  <1> HIDE DEF R
  <1>3. PICK x \in T : \A y \in T : ~ (<<y, x>> \in R)
    BY <1>1, WFMin
  <1>4. ASSUME NEW y \in T PROVE x <= y
    <2>1. x \in Nat /\ y \in Nat /\ <<y, x>> \notin R
      BY <1>3
    <2>2. ~ (y < x)
      BY <1>2, <2>1
    <2> QED
      BY <2>1, <2>2
  <1> QED
    BY <1>4

LEMMA MinOf ==
    ASSUME NEW T, T \subseteq Nat, T # {}
    PROVE  Min(T) \in T /\ \A y \in T : Min(T) <= y
  BY LeastNumber DEF Min

(* The greatest is the least that is not less than any.                    *)
LEMMA MaxOf ==
    ASSUME NEW n \in Nat, NEW T, T \subseteq 1 .. n, T # {}
    PROVE  Max(T) \in T /\ \A y \in T : y <= Max(T)
  <1> DEFINE above == {m \in Nat : \A y \in T : y <= m}
  <1>1. n \in above
    OBVIOUS
  <1>2. PICK m \in above : \A x \in above : m <= x
    <2> above \subseteq Nat /\ above # {}
      BY <1>1
    <2> HIDE DEF above
    <2> QED
      BY LeastNumber
  <1>3. m \in T
    <2> SUFFICES ASSUME m \notin T PROVE FALSE
      OBVIOUS
    <2>1. PICK x \in T : TRUE
      OBVIOUS
    <2>2. m - 1 \in Nat /\ \A y \in T : y <= m - 1
      BY <2>1
    <2> QED
      BY <1>2, <2>2
  <1>4. \E x \in T : \A y \in T : x >= y
    BY <1>3
  <1> QED
    BY <1>4 DEF Max

-----------------------------------------------------------------------------
(* The first value that is not blank, if there is one.                     *)
LEMMA FirstNonblankOf ==
    ASSUME NEW names \in Seq(STRING), NEW given
    PROVE  /\ \/ FirstNonblank(names, given) = Unset
              \/ /\ Nonblank(FirstNonblank(names, given))
                 /\ \E i \in 1 .. Len(names) : FirstNonblank(names, given) = given[names[i]]
           /\ names # <<>> /\ Nonblank(given[Head(names)]) =>
                 FirstNonblank(names, given) = given[Head(names)]
  <1> DEFINE T == {i \in 1 .. Len(names) : Nonblank(given[names[i]])}
  <1>0. T \subseteq Nat
    OBVIOUS
  <1>1. FirstNonblank(names, given) = IF T = {} THEN Unset ELSE given[names[Min(T)]]
    <2>1. CASE T = {}
      BY <2>1 DEF FirstNonblank, SelectInSeq
    <2>2. CASE T # {}
      <3>1. Min(T) \in T
        <4> HIDE DEF T
        <4> QED
          BY <1>0, <2>2, MinOf
      <3>2. Min(T) # 0
        BY <3>1
      <3> QED
        BY <2>2, <3>2 DEF FirstNonblank, SelectInSeq
    <2> QED
      BY <2>1, <2>2
  <1>2. T # {} => Min(T) \in T /\ \A j \in T : Min(T) <= j
    <2> HIDE DEF T
    <2> QED
      BY <1>0, MinOf
  <1>3. ASSUME names # <<>>, Nonblank(given[Head(names)]) PROVE T # {} /\ Min(T) = 1
    <2>1. 1 \in T
      BY <1>3
    <2>2. \A j \in T : j \in Nat /\ 1 <= j
      OBVIOUS
    <2> HIDE DEF T
    <2> QED
      BY <1>2, <2>1, <2>2
  <1>4. T # {} => Min(T) \in 1 .. Len(names) /\ Nonblank(given[names[Min(T)]])
    BY <1>2
  <1> HIDE DEF T
  <1> QED
    BY <1>1, <1>3, <1>4

-----------------------------------------------------------------------------
(* The assignment that counts is the last one.                             *)
Assigning(file, v) ==
    {i \in 1 .. Len(file.lines) : file.lines[i].var = v /\ file.lines[i].form # "comment"}

LEMMA LastOf ==
    ASSUME NEW file \in EnvFile, NEW v
    PROVE  IF Assigning(file, v) = {} THEN LastAssignment(file, v) = 0
           ELSE /\ LastAssignment(file, v) \in Assigning(file, v)
                /\ \A j \in Assigning(file, v) : j <= LastAssignment(file, v)
  <1>1. Len(file.lines) \in Nat /\ Assigning(file, v) \subseteq 1 .. Len(file.lines)
    BY DEF EnvFile, Assigning
  <1>2. LastAssignment(file, v) = IF Assigning(file, v) # {} THEN Max(Assigning(file, v)) ELSE 0
    BY DEF LastAssignment, SelectLastInSeq, Assigning
  <1> QED
    BY <1>1, <1>2, MaxOf

LEMMA LineOf ==
    ASSUME NEW file \in EnvFile, NEW i \in 1 .. Len(file.lines)
    PROVE  file.lines[i] \in Line
  BY DEF EnvFile

(* One line counts if no later one does.                                   *)
LEMMA ValueOf ==
    ASSUME NEW file \in EnvFile, NEW v \in Vars, NEW i \in Assigning(file, v),
           \A j \in Assigning(file, v) : j <= i
    PROVE  dotenv_values(file)[v] = file.lines[i].value
  <1>1. LastAssignment(file, v) = i
    <2>1. Assigning(file, v) \subseteq Nat
      BY DEF Assigning
    <2>2. /\ LastAssignment(file, v) \in Assigning(file, v)
          /\ \A j \in Assigning(file, v) : j <= LastAssignment(file, v)
      BY LastOf
    <2> QED
      BY <2>1, <2>2
  <1>2. i # 0
    BY DEF Assigning
  <1> QED
    BY <1>1, <1>2 DEF dotenv_values

LEMMA AssignmentIsLine ==
    ASSUME NEW v \in Vars, NEW key \in Values
    PROVE  /\ Assignment(v, key) \in Line /\ Assignment(v, key).var = v
           /\ Assignment(v, key).form = "plain" /\ Assignment(v, key).value = key
  BY DEF Line, Assignment

LEMMA ExtendedIsLine ==
    ASSUME NEW l \in Line, NEW v \in Vars
    PROVE  Extended(l, v) \in Line
  <1>1. Bad \in Values
    BY DEF Values
  <1> QED
    BY <1>1 DEF Line, Extended

(* What saving does to the lines of .env.                                  *)
LEMMA ReplacedLines ==
    ASSUME NEW file \in EnvFile, NEW v \in Vars, NEW key \in Values
    PROVE  /\ Replaced(file, v, key) \in EnvFile
           /\ Len(Replaced(file, v, key).lines) = Len(file.lines)
           /\ \A i \in 1 .. Len(file.lines) :
                 Replaced(file, v, key).lines[i] =
                    IF file.lines[i].var = v /\ file.lines[i].form = "plain"
                    THEN Assignment(v, key) ELSE file.lines[i]
  <1> DEFINE line(i) == IF file.lines[i].var = v /\ file.lines[i].form = "plain"
                        THEN Assignment(v, key) ELSE file.lines[i]
             new == [i \in DOMAIN file.lines |-> line(i)]
  <1>1. /\ file.lines \in Seq(Line) /\ file.ragged \in BOOLEAN
        /\ file.ragged => file.lines # <<>>
        /\ file = [lines |-> file.lines, ragged |-> file.ragged]
    BY DEF EnvFile
  <1>2. Replaced(file, v, key) = [lines |-> new, ragged |-> file.ragged]
    <2>1. Replaced(file, v, key) = [file EXCEPT !.lines = new]
      BY DEF Replaced
    <2> HIDE DEF new
    <2> QED
      BY <1>1, <2>1
  <1>3. \A i \in 1 .. Len(file.lines) : line(i) \in Line
    BY LineOf, AssignmentIsLine
  <1> HIDE DEF line
  <1>4. /\ new \in Seq(Line) /\ Len(new) = Len(file.lines)
        /\ file.lines # <<>> => new # <<>>
    <2> DEFINE end == Len(file.lines)
    <2>1. DOMAIN file.lines = 1 .. end /\ end \in Nat /\ (file.lines # <<>> => end # 0)
      BY <1>1
    <2>2. new \in [1 .. end -> Line]
      BY <1>3, <2>1
    <2> HIDE DEF new, end
    <2>3. new \in Seq(Line) /\ Len(new) = end
      BY <2>1, <2>2
    <2> QED
      BY <2>1, <2>3 DEF end
  <1>5. \A i \in 1 .. Len(file.lines) : new[i] = line(i)
    BY <1>1
  <1> HIDE DEF new
  <1> QED
    BY <1>1, <1>2, <1>4, <1>5 DEF EnvFile, line

LEMMA AppendedLines ==
    ASSUME NEW file \in EnvFile, NEW v \in Vars, NEW key \in Values
    PROVE  /\ Appended(file, v, key) \in EnvFile
           /\ ~file.ragged =>
                 Appended(file, v, key).lines = Append(file.lines, Assignment(v, key))
  <1> DEFINE old == file.lines
             end == Len(old)
             cut == [old EXCEPT ![end] = Extended(old[end], v)]
             more == Append(old, Assignment(v, key))
  <1>1. old \in Seq(Line) /\ file.ragged \in BOOLEAN /\ (file.ragged => old # <<>>)
    BY DEF EnvFile
  <1>2. more \in Seq(Line)
    BY <1>1, AssignmentIsLine
  <1>3. ASSUME file.ragged PROVE cut \in Seq(Line)
    <2>1. /\ DOMAIN old = 1 .. end /\ end \in Nat /\ end # 0
          /\ \A i \in 1 .. end : old[i] \in Line
      BY <1>1, <1>3
    <2>2. old[end] \in Line
      BY <2>1
    <2>3. Extended(old[end], v) \in Line
      BY <2>2, ExtendedIsLine
    <2> HIDE DEF old, end
    <2>4. cut \in [1 .. end -> Line]
      BY <2>1, <2>3
    <2> HIDE DEF cut
    <2> QED
      BY <2>1, <2>4
  <1>4. Appended(file, v, key) = [lines |-> IF file.ragged THEN cut ELSE more, ragged |-> FALSE]
    BY DEF Appended
  <1> HIDE DEF cut, more
  <1> QED
    BY <1>1, <1>2, <1>3, <1>4 DEF EnvFile, more

LEMMA SavedType ==
    ASSUME NEW file \in EnvFile, NEW v \in Vars, NEW key \in Values
    PROVE  Saved(file, v, key) \in EnvFile
  BY ReplacedLines, AppendedLines DEF Saved

(* A key that could be saved is what .env gives.                           *)
LEMMA SavedCounts ==
    ASSUME NEW file \in EnvFile, NEW v \in Vars, NEW key \in Values, Savable(file, v)
    PROVE  dotenv_values(Saved(file, v, key))[v] = key
  <1>1. CASE Mentions(file, v)
    <2> DEFINE new == Replaced(file, v, key)
               i == LastAssignment(file, v)
    <2>1. Saved(file, v, key) = new /\ new \in EnvFile
      BY <1>1, ReplacedLines DEF Saved
    <2>2. i # 0 /\ file.lines[i].form = "plain"
      BY <1>1 DEF Savable
    <2>3. i \in Assigning(file, v) /\ \A j \in Assigning(file, v) : j <= i
      BY <2>2, LastOf
    <2>4. i \in 1 .. Len(file.lines) /\ file.lines[i].var = v /\ file.lines[i] \in Line
      BY <2>3, LineOf DEF Assigning
    <2> HIDE DEF i, new
    <2>5. ASSUME NEW j \in 1 .. Len(file.lines)
          PROVE  /\ new.lines[j].var = file.lines[j].var
                 /\ new.lines[j].form = file.lines[j].form
                 /\ file.lines[j].var = v /\ file.lines[j].form = "plain" =>
                       new.lines[j].value = key
      <3> DEFINE l == file.lines[j]
      <3>1. l \in Line
        BY LineOf
      <3>2. new.lines[j] = IF l.var = v /\ l.form = "plain" THEN Assignment(v, key) ELSE l
        BY ReplacedLines DEF new
      <3> HIDE DEF l
      <3>3. /\ new.lines[j].var = l.var /\ new.lines[j].form = l.form
            /\ l.var = v /\ l.form = "plain" => new.lines[j].value = key
        BY <3>1, <3>2, AssignmentIsLine
      <3> QED
        BY <3>3 DEF l
    <2>6. new.lines[i].value = key /\ Len(new.lines) = Len(file.lines)
      BY <2>2, <2>4, <2>5, ReplacedLines DEF new
    <2>7. Assigning(new, v) = Assigning(file, v)
      BY <2>5, <2>6 DEF Assigning
    <2> QED
      BY <2>1, <2>3, <2>6, <2>7, ValueOf
  <1>2. CASE ~Mentions(file, v)
    <2> DEFINE new == Appended(file, v, key)
               line == Assignment(v, key)
               end == Len(file.lines) + 1
    <2>1. Saved(file, v, key) = new /\ new \in EnvFile /\ new.lines = Append(file.lines, line)
      BY <1>2, AppendedLines DEF Saved, Savable
    <2>2. file.lines \in Seq(Line) /\ line \in Line
      BY AssignmentIsLine DEF EnvFile
    <2> HIDE DEF new, line
    <2>3. /\ new.lines[end] = line /\ Len(new.lines) = end /\ end \in 1 .. end
      BY <2>1, <2>2
    <2>4. end \in Assigning(new, v) /\ \A j \in Assigning(new, v) : j <= end
      BY <2>3, AssignmentIsLine DEF Assigning, line
    <2>5. dotenv_values(new)[v] = new.lines[end].value
      <3> HIDE DEF end
      <3> QED
        BY <2>1, <2>4, ValueOf
    <2> QED
      BY <2>1, <2>3, <2>5, AssignmentIsLine DEF line
  <1> QED
    BY <1>1, <1>2
-----------------------------------------------------------------------------
(* The key that "init" and the user agreed on.                             *)

LEMMA FirstVar ==
    ASSUME NEW p \in Providers
    PROVE  Head(KeyVars[p]) \in Vars /\ KeyVars[p] \in Seq(STRING) /\ KeyVars[p] # <<>>
  <1>1. KeyVars[p] \in Seq(STRING) /\ KeyVars[p] # <<>>
    BY SettingsAssumption
  <1>2. Head(KeyVars[p]) \in Range(KeyVars[p])
    <2> DEFINE s == KeyVars[p]
    <2>1. s \in Seq(STRING) /\ s # <<>>
      BY <1>1
    <2> HIDE DEF s
    <2>2. Head(s) = s[1] /\ 1 \in DOMAIN s
      BY <2>1
    <2>3. Head(s) \in Range(s)
      BY <2>2 DEF Range
    <2> QED
      BY <2>3 DEF s
  <1> QED
    BY <1>1, <1>2 DEF Vars

LEMMA KeyType ==
    ASSUME NEW k \in Keys
    PROVE  k \in Values /\ Nonblank(k)
  BY SettingsAssumption DEF Values, Nonblank

(* Without a key in ghost.toml, that of the environment and then .env's.   *)
LEMMA Resolves ==
    ASSUME NEW s, ~Truthy(Config(s).api_key)
    PROVE  LET p == Config(s).provider
           IN  resolve_api_key(s) = IF get_api_key(p, s.env) # Unset THEN get_api_key(p, s.env)
                                    ELSE FirstNonblank(KeyVars[p], EnvValues(s))
  <1> DEFINE p == Config(s).provider
             e == get_api_key(p, s.env)
             d == FirstNonblank(KeyVars[p], EnvValues(s))
             c == <<IF Truthy(Config(s).api_key) THEN Config(s).api_key ELSE Unset, e, d>>
             T == {i \in 1 .. Len(c) : c[i] # Unset}
             first == IF T # {} THEN Min(T) ELSE 0
  <1>1. resolve_api_key(s) = IF first = 0 THEN Unset ELSE c[first]
    BY DEF resolve_api_key, SelectInSeq
  <1>2. Len(c) = 3 /\ c[1] = Unset /\ c[2] = e /\ c[3] = d
    OBVIOUS
  <1> HIDE DEF c, d, e
  <1>3. \A i : i \in T <=> (i = 2 /\ e # Unset) \/ (i = 3 /\ d # Unset)
    <2>1. \A i : i \in 1 .. 3 <=> i = 1 \/ i = 2 \/ i = 3
      OBVIOUS
    <2> QED
      BY <1>2, <2>1
  <1>4. T \subseteq Nat
    OBVIOUS
  <1> HIDE DEF T
  <1>5. T # {} => Min(T) \in T /\ \A y \in T : Min(T) <= y
    BY <1>4, MinOf
  <1>6. resolve_api_key(s) = IF e # Unset THEN e ELSE d
    <2>1. CASE e # Unset
      <3>1. first = 2
        BY <1>3, <1>5, <2>1
      <3> QED
        BY <1>1, <1>2, <2>1, <3>1
    <2>2. CASE e = Unset /\ d # Unset
      <3>1. first = 3
        BY <1>3, <1>5, <2>2
      <3> QED
        BY <1>1, <1>2, <2>2, <3>1
    <2>3. CASE e = Unset /\ d = Unset
      <3>1. first = 0
        BY <1>3, <2>3
      <3> QED
        BY <1>1, <2>3, <3>1
    <2> QED
      BY <2>1, <2>2, <2>3
  <1> QED
    BY <1>6 DEF d, e

SettingsTyped == /\ env \in [Vars -> Values \union {Unset}]
                 /\ dotenv \in EnvFile /\ toml \in Toml
                 /\ agreed.key \in Values \union {Unset}

(* What "init" has found in the environment, or written to .env, is there. *)
Promise ==
    agreed # NoKey =>
        /\ agreed.provider \in Providers /\ toml # Unset
        /\ ~agreed.typed => /\ agreed.key = get_api_key(agreed.provider, env)
                            /\ agreed.key # Unset
        /\ agreed.typed => agreed.key \in Keys
        /\ agreed.typed /\ agreed.savable =>
              dotenv_values(dotenv)[Head(KeyVars[agreed.provider])] = agreed.key

LEMMA LayerTypes ==
    /\ \A p \in Providers : Template(p) \in Layer /\ Template(p) # Unset
    /\ Defaults \in Layer /\ Defaults # Unset
  <1>1. ASSUME NEW p \in Providers PROVE Template(p) \in Layer
    BY DEF Template, NoLayer, Layer, Values
  <1>2. Unset \notin Layer /\ "groq" \in Providers
    BY SettingsAssumption
  <1> QED
    BY <1>1, <1>2 DEF Defaults

LEMMA KeyOfEnvironment ==
    ASSUME NEW p \in Providers, NEW given \in [Vars -> Values \union {Unset}]
    PROVE  /\ get_api_key(p, given) \in Values \union {Unset}
           /\ get_api_key(p, given) # Unset => Nonblank(get_api_key(p, given))
  <1> DEFINE names == KeyVars[p]
  <1>1. names \in Seq(STRING)
    BY FirstVar
  <1>2. \A i \in 1 .. Len(names) : names[i] \in Vars
    <2> HIDE DEF names
    <2>1. \A i \in 1 .. Len(names) : names[i] \in Range(names)
      BY <1>1 DEF Range
    <2> QED
      BY <2>1 DEF Vars, names
  <1>3. \/ FirstNonblank(names, given) = Unset
        \/ /\ Nonblank(FirstNonblank(names, given))
           /\ \E i \in 1 .. Len(names) : FirstNonblank(names, given) = given[names[i]]
    <2> HIDE DEF names
    <2> QED
      BY <1>1, FirstNonblankOf
  <1>4. get_api_key(p, given) = FirstNonblank(names, given)
    BY DEF get_api_key
  <1> HIDE DEF names
  <1> QED
    BY <1>2, <1>3, <1>4

LEMMA InitPromise == Init => SettingsTyped /\ Promise
  <1> SUFFICES ASSUME Init PROVE SettingsTyped /\ Promise
    OBVIOUS
  <1>1. env \in [Vars -> Values \union {Unset}] /\ dotenv \in EnvFile /\ toml \in Toml
    <2>1. PICK b \in Beginnings : env = b.env /\ dotenv = b.dotenv /\ toml = b.toml
      BY DEF Init
    <2>2. b \in [env : [Vars -> Values \union {Unset}], dotenv : EnvFile, toml : Toml,
                 files : SUBSET Paths]
      BY CommandsAssumption
    <2> QED
      BY <2>1, <2>2
  <1>2. agreed = NoKey /\ NoKey.key = Unset
    BY DEF Init, NoKey
  <1> QED
    BY <1>1, <1>2 DEF SettingsTyped, Promise

(* The wizard says what it does, whatever was there before.                *)
LEMMA InitProjectPromise ==
    ASSUME SettingsTyped, NEW p \in Providers, NEW a \in {"use", "type", "skip"}, NEW k \in Typed,
           NEW saves \in BOOLEAN, NEW aborts \in BOOLEAN, InitProject(p, a, k, saves, aborts)
    PROVE  SettingsTyped' /\ Promise'
  <1> DEFINE v == Head(KeyVars[p])
             typed == a = "type" /\ saves
             e == get_api_key(p, env)
             new == [provider |-> p, typed |-> typed, key |-> IF typed THEN k ELSE e,
                     savable |-> Savable(dotenv, v)]
  <1>1. /\ env' = env /\ a \in KeyAnswers(p, env)
        /\ dotenv' = IF typed THEN Saved(dotenv, v, k) ELSE dotenv
        /\ toml' = IF aborts THEN toml ELSE Template(p)
        /\ agreed' = IF aborts \/ ~(typed \/ a = "use") THEN NoKey ELSE new
    BY DEF InitProject
  <1>2. v \in Vars /\ k \in Keys /\ k \in Values
    BY FirstVar, KeyType, CommandsAssumption
  <1>3. e \in Values \union {Unset} /\ (a = "use" => e # Unset)
    <2>1. a = "use" => e # Unset
      BY <1>1 DEF KeyAnswers
    <2> QED
      BY <2>1, KeyOfEnvironment DEF SettingsTyped
  <1> HIDE DEF v, e
  <1>4. dotenv' \in EnvFile /\ toml' \in Toml
    BY <1>1, <1>2, SavedType, LayerTypes DEF SettingsTyped, Toml
  <1>5. agreed'.key \in Values \union {Unset}
    BY <1>1, <1>2, <1>3 DEF NoKey
  <1>6. Promise'
    <2> SUFFICES ASSUME agreed' # NoKey PROVE Promise'
      BY DEF Promise
    <2>1. agreed' = new /\ ~aborts /\ (typed \/ a = "use")
      BY <1>1
    <2>2. toml' # Unset
      BY <1>1, <2>1, LayerTypes
    <2>3. agreed'.provider = p /\ agreed'.typed = typed /\ agreed'.savable = Savable(dotenv, v)
          /\ agreed'.key = IF typed THEN k ELSE e
      BY <2>1
    <2>4. ~typed => e = get_api_key(p, env') /\ e # Unset
      BY <1>1, <1>3, <2>1 DEF e
    <2>5. typed /\ Savable(dotenv, v) => dotenv_values(dotenv')[v] = k
      BY <1>1, <1>2, SavedCounts DEF SettingsTyped
    <2> HIDE DEF typed, new
    <2> QED
      BY <1>2, <2>2, <2>3, <2>4, <2>5 DEF Promise, v
  <1> QED
    BY <1>1, <1>4, <1>5, <1>6 DEF SettingsTyped

LEMMA NextPromise == SettingsTyped /\ Promise /\ [Next]_vars => SettingsTyped' /\ Promise'
  <1> SUFFICES ASSUME SettingsTyped, Promise, [Next]_vars PROVE SettingsTyped' /\ Promise'
    OBVIOUS
  <1>1. CASE Watch
    <2>1. UNCHANGED <<env, dotenv, agreed>> /\ toml' = IF toml = Unset THEN Defaults ELSE toml
      BY <1>1 DEF Watch
    <2> QED
      BY <2>1, LayerTypes DEF SettingsTyped, Promise, Toml
  <1>2. CASE UNCHANGED <<env, dotenv, toml, agreed>>
    BY <1>2 DEF SettingsTyped, Promise
  <1>3. CASE \E p \in Providers, a \in {"use", "type", "skip"}, k \in Typed,
                saves, aborts \in BOOLEAN : InitProject(p, a, k, saves, aborts)
    BY <1>3, InitProjectPromise
  <1>4. CASE InitCancelled \/ (\E p \in Providers : Models(p))
             \/ (\E c \in {"config", "providers", "start", "run-tests"} : Report(c))
             \/ \E p \in Targets, l \in Limits : Index(p, l)
    BY <1>2, <1>4 DEF InitCancelled, Models, Report, Index, settings
  <1>5. CASE \E o \in [force : BOOLEAN, ifChanged : BOOLEAN] :
                (\E p \in Paths : GenerateOne(p, o)) \/ (\E d \in Dirs : GenerateAll(d, o))
    BY <1>2, <1>5 DEF GenerateOne, GenerateAll, Begins, Cancelled, Refused, Ends, settings
  <1>6. CASE \/ \E p \in Paths : Skip(p) \/ GenerateFails(p)
             \/ \E p \in Paths, n \in Attempts, s \in {"passed", "failed"} : Generate(p, n, s)
    BY <1>2, <1>6 DEF Skip, GenerateFails, Generate, settings
  <1>7. CASE \/ \E n \in Attempts \union {Unset} :
                  (\E p \in Paths : RollBack(p, n)) \/ (\E t \in Tests : RollBackTest(t, n))
             \/ (\E p \in Paths : EditSource(p)) \/ (\E t \in Tests : EditTest(t))
    BY <1>2, <1>7 DEF RollBack, RollBackTest, EditSource, EditTest, Frame, settings
  <1> QED
    BY <1>1, <1>2, <1>3, <1>4, <1>5, <1>6, <1>7 DEF Next, vars, settings

LEMMA PromiseIsKept == SettingsTyped /\ Promise => AgreedKeyIsUsed
  <1> DEFINE p == agreed.provider
             c == Config(Here)
             r == resolve_api_key(Here)
  <1> SUFFICES ASSUME SettingsTyped, Promise, agreed # NoKey, c.provider = p,
                      ~Truthy(c.api_key),
                      agreed.typed => agreed.savable /\ get_api_key(p, env) = Unset
               PROVE  r = agreed.key /\ (p # "custom" => Nonblank(r))
    BY DEF AgreedKeyIsUsed, get_provider, is_available
  <1>1. /\ p \in Providers /\ toml # Unset
        /\ ~agreed.typed => agreed.key = get_api_key(p, env) /\ agreed.key # Unset
        /\ agreed.typed => /\ agreed.key \in Keys
                           /\ dotenv_values(dotenv)[Head(KeyVars[p])] = agreed.key
    BY DEF Promise
  <1>2. r = IF get_api_key(p, env) # Unset THEN get_api_key(p, env)
            ELSE FirstNonblank(KeyVars[p], dotenv_values(dotenv))
    <2>1. Here.env = env /\ EnvValues(Here) = dotenv_values(dotenv)
      BY <1>1 DEF Here, EnvValues
    <2> QED
      BY <2>1, Resolves
  <1> HIDE DEF r, c
  <1>3. CASE ~agreed.typed
    BY <1>1, <1>2, <1>3, KeyOfEnvironment DEF SettingsTyped
  <1>4. CASE agreed.typed
    <2>1. Nonblank(agreed.key)
      BY <1>1, <1>4, KeyType
    <2>2. FirstNonblank(KeyVars[p], dotenv_values(dotenv)) = agreed.key
      <3> DEFINE names == KeyVars[p]
                 given == dotenv_values(dotenv)
      <3>1. names \in Seq(STRING) /\ names # <<>> /\ given[Head(names)] = agreed.key
        BY <1>1, <1>4, FirstVar
      <3> HIDE DEF names, given
      <3>2. FirstNonblank(names, given) = agreed.key
        BY <2>1, <3>1, FirstNonblankOf
      <3> QED
        BY <3>2 DEF names, given
    <2> QED
      BY <1>2, <1>4, <2>1, <2>2
  <1> QED
    BY <1>3, <1>4

(* Whatever the environment and .env hold, and whatever the commands: the  *)
(* key that "init" found or was given is the one that requests are made    *)
(* with, wherever it could be saved and nothing goes before it.            *)
THEOREM AgreedKeyIsTheKey == Spec => []AgreedKeyIsUsed
  BY InitPromise, NextPromise, PromiseIsKept, PTL DEF Spec

-----------------------------------------------------------------------------
(* Types.                                                                  *)

ProjectTyped == /\ files \subseteq Paths /\ fresh \subseteq Paths /\ context \subseteq Paths
                /\ tests \in [Tests -> Authored]
                /\ history \in [Paths -> SUBSET Attempts]

CommandTyped == /\ todo \subseteq Paths
                /\ opts \in [force : BOOLEAN, ifChanged : BOOLEAN]
                /\ last.exit = "none" => Generating
                /\ shown.index \subseteq Paths
                /\ commands \in 0 .. MaxCommands

LEMMA InitTypes == Init => ProjectTyped /\ CommandTyped
  <1> SUFFICES ASSUME Init PROVE ProjectTyped /\ CommandTyped
    OBVIOUS
  <1>1. files \subseteq Paths
    BY CommandsAssumption DEF Init
  <1>2. ProjectTyped
    BY <1>1 DEF Init, ProjectTyped, Authored
  <1>3. CommandTyped
    BY CommandsAssumption DEF Init, CommandTyped, Plain, NoCommand, NoContext
  <1> QED
    BY <1>2, <1>3

LEMMA IndexedType == ASSUME files \subseteq Paths PROVE Indexed \subseteq Paths
  BY DEF Indexed, get_project_files

LEMMA CountType ==
    ASSUME commands \in 0 .. MaxCommands, Count PROVE commands' \in 0 .. MaxCommands
  BY CommandsAssumption DEF Count

(* A command that ends, or begins to generate.                             *)
ShellChange == /\ UNCHANGED <<files, tests, history, fresh>> /\ context' \in {context, Indexed}
               /\ opts' \in [force : BOOLEAN, ifChanged : BOOLEAN]
               /\ shown'.index \in {{}, Indexed} /\ Count

LEMMA ShellTypes ==
    ASSUME IInv, ProjectTyped, CommandTyped, Shell PROVE ProjectTyped' /\ CommandTyped'
  <1>1. Done' \/ Begun'
    BY ShellFrame
  <1>2. todo' \subseteq Paths /\ (last'.exit = "none" => Generating')
    BY <1>1 DEF Done, Begun, NoCommand, Generating
  <1>3. ShellChange
    <2>0. ASSUME Forget, Count, UNCHANGED project PROVE ShellChange
      <3> Plain \in [force : BOOLEAN, ifChanged : BOOLEAN] /\ NoContext.index = {}
        BY DEF Plain, NoContext
      <3> QED
        BY <2>0 DEF ShellChange, Forget, Anew, project
    <2>1. CASE InitCancelled \/ Watch \/ (\E p \in Providers : Models(p))
               \/ \E c \in {"config", "providers", "start", "run-tests"} : Report(c)
      BY <2>0, <2>1 DEF InitCancelled, Watch, Models, Report, AtShell
    <2>2. ASSUME NEW p \in Providers, NEW a \in {"use", "type", "skip"}, NEW k \in Typed,
                 NEW saves \in BOOLEAN, NEW aborts \in BOOLEAN,
                 InitProject(p, a, k, saves, aborts)
          PROVE  ShellChange
      BY <2>2 DEF ShellChange, InitProject, AtShell, Forget, Anew, Plain, NoContext
    <2>3. ASSUME NEW p \in Targets, NEW l \in Limits, Index(p, l) PROVE ShellChange
      BY <2>3 DEF ShellChange, Index, AtShell, Anew, Plain, NoContext, Showing
    <2>4. ASSUME NEW o \in [force : BOOLEAN, ifChanged : BOOLEAN],
                 (\E p \in Paths : GenerateOne(p, o)) \/ (\E d \in Dirs : GenerateAll(d, o))
          PROVE  ShellChange
      <3>1. ASSUME NEW sources, Begins(sources, o), Count PROVE ShellChange
        BY <3>1 DEF ShellChange, Begins, NoContext, project
      <3>2. /\ Count
            /\ (\E sources : Begins(sources, o)) \/ (Forget /\ UNCHANGED project)
        BY <2>4 DEF GenerateOne, GenerateAll, Cancelled, Refused, Ends, AtShell
      <3> QED
        BY <2>0, <3>1, <3>2
    <2> QED
      BY <2>1, <2>2, <2>3, <2>4 DEF Shell
  <1> QED
    BY <1>2, <1>3, IndexedType, CountType DEF ShellChange, ProjectTyped, CommandTyped

LEMMA AttemptType ==
    ASSUME NEW p \in Paths, NEW n \in Attempts PROVE AttemptAt(p, n) \in Authored
  BY DEF Authored

(* A run writes the test of its source, and its history up to there.       *)
LEMMA WrittenTypes ==
    ASSUME ProjectTyped, NEW p \in Paths, NEW n \in Attempts, NEW recorded \in n .. n + 1,
           Written(p, n, recorded)
    PROVE  /\ tests' \in [Tests -> Authored] /\ history' \in [Paths -> SUBSET Attempts]
           /\ context' \subseteq Paths /\ shown'.index \subseteq Paths
  <1>1. n \in Nat /\ 0 .. n \subseteq Attempts
    BY CommandsAssumption
  <1>2. 0 .. recorded - 1 \subseteq Attempts
    BY <1>1
  <1>3. tests' \in [Tests -> Authored]
    BY AttemptType DEF Written, ProjectTyped
  <1>4. history' \in [Paths -> SUBSET Attempts]
    BY <1>2 DEF Written, ProjectTyped
  <1> QED
    BY <1>3, <1>4, IndexedType DEF Written, Prompted, Showing, ProjectTyped

LEMMA GenerationTypes ==
    ASSUME IInv, ProjectTyped, CommandTyped, NEW p \in Paths,
           \/ Skip(p) \/ GenerateFails(p)
           \/ \E n \in Attempts, s \in {"passed", "failed"} : Generate(p, n, s)
    PROVE  ProjectTyped' /\ CommandTyped'
  <1>1. /\ UNCHANGED <<files, commands>> /\ fresh' \in {fresh, fresh \union {p}}
        /\ (\E s : Returns(p, s)) \/ Raises(p)
        /\ \/ UNCHANGED <<tests, history, context, shown>>
           \/ UNCHANGED <<tests, history>> /\ Prompted(p)
           \/ \E n \in Attempts : \E recorded \in n .. n + 1 : Written(p, n, recorded)
    <2> \A n \in Attempts : n + 1 \in n .. n + 1
      BY CommandsAssumption
    <2>1. CASE Skip(p)
      BY <2>1 DEF Skip, project
    <2>2. CASE GenerateFails(p)
      BY <2>2 DEF GenerateFails
    <2>3. CASE \E n \in Attempts, s \in {"passed", "failed"} : Generate(p, n, s)
      BY <2>3 DEF Generate
    <2> QED
      BY <2>1, <2>2, <2>3
  <1>2. /\ tests' \in [Tests -> Authored] /\ history' \in [Paths -> SUBSET Attempts]
        /\ context' \subseteq Paths /\ shown'.index \subseteq Paths
    BY <1>1, WrittenTypes, IndexedType DEF ProjectTyped, CommandTyped, Prompted, Showing
  <1>3. todo' \subseteq Paths /\ opts' = opts
    BY <1>1 DEF Returns, Raises, CommandTyped
  <1>4. last'.exit = "none" => Generating'
    <2> last \in [cmd : Kinds, exit : Codes, asked : SUBSET Paths]
      BY DEF IInv, Shape
    <2>1. CASE \E s : Returns(p, s)
      BY <2>1 DEF Returns, Generating, ExitCode
    <2>2. CASE Raises(p)
      BY <2>2 DEF Raises
    <2> QED
      BY <1>1, <2>1, <2>2
  <1> QED
    BY <1>1, <1>2, <1>3, <1>4 DEF ProjectTyped, CommandTyped

(* What is restored is an attempt of the history.                          *)
LEMMA RestoresTypes ==
    ASSUME ProjectTyped, NEW p \in Paths, NEW n \in Attempts \union {Unset}, Restores(p, n)
    PROVE  tests' \in [Tests -> Authored]
  <1> DEFINE attempts == IF n = Unset THEN history[p] ELSE history[p] \intersect {n}
  <1>1. \/ UNCHANGED tests
        \/ /\ attempts # {}
           /\ tests' = [tests EXCEPT ![resolve_test_path(p)] = AttemptAt(p, Min(attempts))]
    BY DEF Restores
  <1>2. attempts \subseteq Attempts /\ attempts \subseteq Nat
    BY CommandsAssumption DEF ProjectTyped
  <1> HIDE DEF attempts
  <1>3. attempts # {} => AttemptAt(p, Min(attempts)) \in Authored
    BY <1>2, MinOf, AttemptType
  <1> QED
    BY <1>1, <1>3 DEF ProjectTyped

LEMMA RollBackTypes ==
    ASSUME IInv, ProjectTyped, CommandTyped, NEW n \in Attempts \union {Unset},
           (\E p \in Paths : RollBack(p, n)) \/ (\E t \in Tests : RollBackTest(t, n))
    PROVE  ProjectTyped' /\ CommandTyped'
  <1>1. Frame /\ Count
    BY DEF RollBack, RollBackTest, AtShell
  <1>2. Done'
    BY RollBackFrame
  <1>3. tests' \in [Tests -> Authored]
    <2>1. UNCHANGED tests \/ \E p \in Paths : Restores(p, n)
      BY DEF RollBack, RollBackTest, FirstOf, Tracked
    <2> QED
      BY <2>1, RestoresTypes DEF ProjectTyped
  <1> QED
    BY <1>1, <1>2, <1>3, CountType
    DEF ProjectTyped, CommandTyped, Frame, Forget, Anew, Plain, NoContext, Done, NoCommand

LEMMA EditTypes ==
    ASSUME IInv, ProjectTyped, CommandTyped,
           (\E p \in Paths : EditSource(p)) \/ (\E t \in Tests : EditTest(t))
    PROVE  ProjectTyped' /\ CommandTyped'
  <1>1. /\ Forget /\ Count /\ last' = NoCommand
        /\ UNCHANGED <<files, history, context>> /\ fresh' \subseteq fresh
    BY DEF EditSource, EditTest, AtShell
  <1>2. tests' \in [Tests -> Authored]
    <2>1. UNCHANGED tests \/ \E t \in Tests : EditTest(t)
      BY DEF EditSource
    <2>2. ASSUME NEW t \in Tests, EditTest(t) PROVE tests' \in [Tests -> Authored]
      BY <2>2 DEF EditTest, ProjectTyped, Authored
    <2> QED
      BY <2>1, <2>2 DEF ProjectTyped
  <1> QED
    BY <1>1, <1>2, CountType
    DEF ProjectTyped, CommandTyped, Forget, Anew, Plain, NoContext, NoCommand

LEMMA NextTypes ==
    IInv /\ ProjectTyped /\ CommandTyped /\ [Next]_vars => ProjectTyped' /\ CommandTyped'
  <1> SUFFICES ASSUME IInv, ProjectTyped, CommandTyped, [Next]_vars
               PROVE  ProjectTyped' /\ CommandTyped'
    OBVIOUS
  <1>1. CASE UNCHANGED vars
    BY <1>1 DEF vars, project, generation, ProjectTyped, CommandTyped, Generating
  <1> QED
    BY <1>1, ShellTypes, GenerationTypes, RollBackTypes, EditTypes, Steps

(* Settings, files, tests and histories keep their formats, and "generate" *)
(* has a result when it is over.                                           *)
THEOREM TypeCorrect == Spec => []TypeOK
  <1>1. IInv /\ SettingsTyped /\ ProjectTyped /\ CommandTyped => TypeOK
    BY DEF IInv, Shape, Running, Codes, Statuses, Generating, SettingsTyped, ProjectTyped,
           CommandTyped, TypeOK
  <1> QED
    BY <1>1, Invariance, InitPromise, NextPromise, InitTypes, NextTypes, PTL DEF Spec

-----------------------------------------------------------------------------
(* An order by descending score, and by place within a score.              *)
Leads(score, place, p, q) == \/ score[p] > score[q]
                             \/ score[p] = score[q] /\ place[p] < place[q]

(* It is strict and total if no two have one place.                        *)
LEMMA LeadsOrders ==
    ASSUME NEW S, NEW score \in [S -> Nat], NEW place \in [S -> Nat],
           \A p, q \in S : place[p] = place[q] => p = q
    PROVE  /\ \A p, q \in S : p = q \/ Leads(score, place, p, q) \/ Leads(score, place, q, p)
           /\ \A p, q \in S : /\ ~(Leads(score, place, p, q) /\ Leads(score, place, q, p))
                              /\ ~Leads(score, place, p, p)
           /\ \A p, q, r \in S : Leads(score, place, p, q) /\ Leads(score, place, q, r)
                                   => Leads(score, place, p, r)
  BY DEF Leads

(* Some of what has a score up to m and a place up to n come first, and    *)
(* some come last.                                                         *)
LEMMA LeadsEnds ==
    ASSUME NEW m \in Nat, NEW n \in Nat, NEW T, T # {},
           NEW score, NEW place,
           \A p \in T : score[p] \in Nat /\ score[p] <= m,
           \A p \in T : place[p] \in Nat /\ place[p] <= n,
           \A p, q \in T : place[p] = place[q] => p = q
    PROVE  /\ \E p \in T : \A q \in T \ {p} : Leads(score, place, p, q)
           /\ \E p \in T : \A q \in T \ {p} : Leads(score, place, q, p)
  <1>1. \E p \in T : \A q \in T \ {p} : Leads(score, place, p, q)
    <2> DEFINE below == {m - score[p] : p \in T}
    <2>1. below # {} /\ below \subseteq Nat
      OBVIOUS
    <2>2. PICK b \in below : \A c \in below : b <= c
      <3> HIDE DEF below
      <3> QED
        BY <2>1, LeastNumber
    <2>3. PICK p0 \in T : b = m - score[p0]
      OBVIOUS
    <2>4. \A p \in T : score[p] <= score[p0]
      <3> SUFFICES ASSUME NEW p \in T PROVE score[p] <= score[p0]
        OBVIOUS
      <3>1. m - score[p] \in below
        OBVIOUS
      <3>2. m - score[p0] <= m - score[p]
        BY <2>2, <2>3, <3>1
      <3> QED
        BY <3>2
    <2> HIDE DEF below
    <2> DEFINE places == {place[p] : p \in {q \in T : score[q] = score[p0]}}
    <2>5. places # {} /\ places \subseteq Nat
      OBVIOUS
    <2>6. PICK i \in places : \A j \in places : i <= j
      <3> HIDE DEF places
      <3> QED
        BY <2>5, LeastNumber
    <2>7. PICK p \in T : score[p] = score[p0] /\ i = place[p]
      OBVIOUS
    <2>8. ASSUME NEW q \in T \ {p} PROVE Leads(score, place, p, q)
      <3>1. CASE score[q] = score[p]
        <4>1. place[q] \in places /\ place[q] # place[p]
          BY <2>7, <3>1
        <4>2. place[p] <= place[q] /\ place[p] # place[q]
          BY <2>6, <2>7, <4>1
        <4> QED
          BY <3>1, <4>2 DEF Leads
      <3>2. CASE score[q] # score[p]
        BY <2>4, <2>7, <3>2 DEF Leads
      <3> QED
        BY <3>1, <3>2
    <2> QED
      BY <2>8
  <1>2. \E p \in T : \A q \in T \ {p} : Leads(score, place, q, p)
    <2> DEFINE scores == {score[p] : p \in T}
    <2>1. scores # {} /\ scores \subseteq Nat
      OBVIOUS
    <2>2. PICK b \in scores : \A c \in scores : b <= c
      <3> HIDE DEF scores
      <3> QED
        BY <2>1, LeastNumber
    <2>3. PICK p0 \in T : b = score[p0]
      OBVIOUS
    <2>4. \A p \in T : score[p0] <= score[p]
      BY <2>2, <2>3
    <2> HIDE DEF scores
    <2> DEFINE above == {n - place[p] : p \in {q \in T : score[q] = score[p0]}}
    <2>5. above # {} /\ above \subseteq Nat
      OBVIOUS
    <2>6. PICK i \in above : \A j \in above : i <= j
      <3> HIDE DEF above
      <3> QED
        BY <2>5, LeastNumber
    <2>7. PICK p \in T : score[p] = score[p0] /\ i = n - place[p]
      OBVIOUS
    <2>8. ASSUME NEW q \in T \ {p} PROVE Leads(score, place, q, p)
      <3>1. CASE score[q] = score[p]
        <4>1. n - place[q] \in above /\ place[q] # place[p]
          BY <2>7, <3>1
        <4>2. n - place[p] <= n - place[q]
          BY <2>6, <2>7, <4>1
        <4>3. place[q] < place[p]
          BY <4>1, <4>2
        <4> QED
          BY <3>1, <4>3 DEF Leads
      <3>2. CASE score[q] # score[p]
        BY <2>4, <2>7, <3>2 DEF Leads
      <3> QED
        BY <3>1, <3>2
    <2> QED
      BY <2>8
  <1> QED
    BY <1>1, <1>2

-----------------------------------------------------------------------------
(* What is shown of a project.  Before() orders the files whatever the tree*)
(* is, so a budgeted context is what comes up to its last file, and the    *)
(* first file left out is the one that did not fit.  That the order goes by*)
(* the priorities of the documentation takes an index whose directories    *)
(* have few levels in common with the target's (Shallow): one level counts *)
(* 10, the same directory 50, and an import 100.                           *)

Near(target, p) == p.dirs # target.dirs => CommonLevels(p.dirs, target.dirs) <= 4

LEMMA PathOf ==
    ASSUME NEW p \in Paths
    PROVE  p \in Path /\ p.dirs \in Seq(STRING) /\ p.name \in Seq(STRING) /\ p.name # <<>>
  <1>1. p \in Path
    BY SelectionAssumption DEF Paths, Range
  <1> QED
    BY <1>1 DEF Path

(* sorted() puts each path at a place of its own.                          *)
LEMMA PositionOf ==
    ASSUME NEW p \in Paths
    PROVE  /\ Position(p) \in 1 .. Len(PathOrder) /\ Len(PathOrder) \in Nat
           /\ PathOrder[Position(p)] = p
  <1> DEFINE places == {i \in 1 .. Len(PathOrder) : PathOrder[i] = p}
  <1>1. Len(PathOrder) \in Nat /\ DOMAIN PathOrder = 1 .. Len(PathOrder)
    BY SelectionAssumption
  <1>2. places # {} /\ places \subseteq Nat
    BY <1>1 DEF Paths, Range
  <1>3. Position(p) = IF places # {} THEN Min(places) ELSE 0
    BY DEF Position, SelectInSeq
  <1>4. Position(p) \in places
    BY <1>2, <1>3, MinOf
  <1> QED
    BY <1>1, <1>4

LEMMA NoPathIsNone == NoPath \notin Paths
  BY PathOf DEF NoPath

(* The levels in common are no more than the target's.                     *)
LEMMA NearnessOf ==
    ASSUME NEW target \in Paths, NEW p \in Paths
    PROVE  /\ Nearness(target, p) \in Nat
           /\ Nearness(target, p) <= 50 + 10 * Len(target.dirs)
           /\ p.dirs = target.dirs => Nearness(target, p) = 50
           /\ p.dirs # target.dirs /\ Near(target, p) => Nearness(target, p) <= 40
  <1> DEFINE levels == {k \in DOMAIN p.dirs : IsPrefix(SubSeq(p.dirs, 1, k), target.dirs)}
             common == CommonLevels(p.dirs, target.dirs)
             most == Len(target.dirs)
  <1>1. p.dirs # target.dirs /\ Near(target, p) => common <= 4
    BY DEF Near
  <1>2. common \in Nat /\ most \in Nat /\ common <= most
    <2>1. /\ p.dirs \in Seq(STRING) /\ target.dirs \in Seq(STRING)
          /\ Len(p.dirs) \in Nat /\ DOMAIN p.dirs = 1 .. Len(p.dirs) /\ most \in Nat
      BY PathOf
    <2>2. IsFiniteSet(1 .. most) /\ Cardinality(1 .. most) = most
      <3>1. 1 \in Int /\ most \in Int /\ (IF 1 > most THEN 0 ELSE most - 1 + 1) = most
        BY <2>1
      <3> HIDE DEF most
      <3> QED
        BY <3>1, FS_Interval
    <2>3. ASSUME NEW k \in levels PROVE k \in 1 .. most
      <3>1. k \in 1 .. Len(p.dirs) /\ IsPrefix(SubSeq(p.dirs, 1, k), target.dirs)
        BY <2>1
      <3>2. Len(SubSeq(p.dirs, 1, k)) = k
        BY <2>1, <3>1
      <3>3. k <= most
        BY <3>1, <3>2 DEF IsPrefix
      <3> QED
        BY <2>1, <3>1, <3>3
    <2>4. levels \subseteq 1 .. most
      BY <2>3
    <2> HIDE DEF levels, most
    <2>5. Cardinality(levels) \in Nat /\ Cardinality(levels) <= most
      BY <2>2, <2>4, FS_Subset, FS_CardinalityType
    <2> QED
      BY <2>1, <2>5 DEF levels, CommonLevels
  <1>3. Nearness(target, p) = IF p.dirs = target.dirs THEN 50 ELSE 10 * common
    BY DEF Nearness
  <1> HIDE DEF common, most
  <1>4. /\ Nearness(target, p) \in Nat /\ Nearness(target, p) <= 50 + 10 * most
        /\ p.dirs = target.dirs => Nearness(target, p) = 50
        /\ p.dirs # target.dirs /\ Near(target, p) => Nearness(target, p) <= 40
    BY <1>1, <1>2, <1>3
  <1> QED
    BY <1>4 DEF most

(* What a file scores at most, and what the classes score.                 *)
ScoreLimit(target) == 200 + 10 * Len(target.dirs)

LEMMA ScoreOf ==
    ASSUME NEW target \in Paths \union {NoPath}, NEW p \in Paths
    PROVE  LET s == _score_file_relevance(target, p) c == Class(target, p) IN
           /\ s \in Nat /\ ScoreLimit(target) \in Nat /\ s <= ScoreLimit(target)
           /\ c \in 0 .. 3
           /\ target = NoPath => c = 0
           /\ target # NoPath /\ Near(target, p) =>
                 \/ c = 0 /\ p = target /\ s = 200
                 \/ c = 1 /\ p # target /\ s \in 100 .. 150
                 \/ c = 2 /\ p # target /\ s = 50
                 \/ c = 3 /\ p # target /\ s \in 0 .. 40
  <1> DEFINE s == _score_file_relevance(target, p) c == Class(target, p)
             most == Len(target.dirs)
  <1>1. most \in Nat
    BY PathOf DEF NoPath
  <1>2. ScoreLimit(target) = 200 + 10 * most
    BY DEF ScoreLimit
  <1>3. CASE target = NoPath
    <2>1. s = 0 /\ c = 0
      BY <1>3, NoPathIsNone DEF _score_file_relevance, Class
    <2> HIDE DEF most
    <2> QED
      BY <1>1, <1>2, <1>3, <2>1
  <1>4. CASE target # NoPath /\ p = target
    <2>1. s = 200 /\ c = 0
      BY <1>4 DEF _score_file_relevance, Class
    <2> HIDE DEF most, s, c
    <2>2. s \in Nat /\ ScoreLimit(target) \in Nat /\ s <= ScoreLimit(target)
      BY <1>1, <1>2, <2>1
    <2> QED
      BY <1>4, <2>1, <2>2 DEF s, c
  <1>5. CASE target # NoPath /\ p # target
    <2>1. target \in Paths \ {p}
      BY <1>5
    <2> DEFINE n == Nearness(target, p)
    <2>2. /\ n \in Nat /\ n <= 50 + 10 * most
          /\ p.dirs = target.dirs => n = 50
          /\ p.dirs # target.dirs /\ Near(target, p) => n <= 40
      BY <2>1, NearnessOf
    <2>3. s = (IF Imported(target, p) THEN 100 ELSE 0) + n
      BY <1>5 DEF _score_file_relevance
    <2>4. c = IF Imported(target, p) THEN 1 ELSE IF p.dirs = target.dirs THEN 2 ELSE 3
      BY <1>5, <2>1 DEF Class
    <2> HIDE DEF n, s, c, most
    <2>5. /\ s \in Nat /\ ScoreLimit(target) \in Nat /\ s <= ScoreLimit(target)
          /\ c \in 0 .. 3
      BY <1>1, <1>2, <2>2, <2>3, <2>4
    <2>6. Near(target, p) => \/ c = 1 /\ s \in 100 .. 150
                             \/ c = 2 /\ s = 50
                             \/ c = 3 /\ s \in 0 .. 40
      BY <2>2, <2>3, <2>4
    <2> QED
      BY <1>5, <2>5, <2>6 DEF s, c
  <1> QED
    BY <1>3, <1>4, <1>5

(* Of near files the one of higher priority has the higher score.          *)
LEMMA ScoresGoByClass ==
    ASSUME NEW target \in Paths \union {NoPath}, NEW p \in Paths, NEW q \in Paths,
           Near(target, p), Near(target, q), Class(target, p) > Class(target, q)
    PROVE  _score_file_relevance(target, p) < _score_file_relevance(target, q)
  <1> DEFINE c == Class(target, p) s == _score_file_relevance(target, p)
             d == Class(target, q) t == _score_file_relevance(target, q)
  <1>1. target # NoPath
    <2> SUFFICES ASSUME target = NoPath PROVE FALSE
      OBVIOUS
    <2>1. c = 0 /\ d = 0
      BY ScoreOf
    <2> QED
      BY <2>1
  <1>2. \/ c = 0 /\ s = 200
        \/ c = 1 /\ s \in 100 .. 150
        \/ c = 2 /\ s = 50
        \/ c = 3 /\ s \in 0 .. 40
    BY <1>1, ScoreOf
  <1>3. \/ d = 0 /\ t = 200
        \/ d = 1 /\ t \in 100 .. 150
        \/ d = 2 /\ t = 50
        \/ d = 3 /\ t \in 0 .. 40
    BY <1>1, ScoreOf
  <1>4. c > d
    OBVIOUS
  <1> HIDE DEF c, s, d, t
  <1>5. s < t
    BY <1>2, <1>3, <1>4
  <1> QED
    BY <1>5 DEF s, t

LEMMA TargetScoresBest ==
    ASSUME NEW target \in Paths, NEW p \in Paths \ {target}, Near(target, p)
    PROVE  _score_file_relevance(target, p) < 200
  <1> DEFINE s == _score_file_relevance(target, p)
  <1>1. target # NoPath
    BY NoPathIsNone
  <1>2. s \in 100 .. 150 \/ s = 50 \/ s \in 0 .. 40
    BY <1>1, ScoreOf
  <1> HIDE DEF s
  <1>3. s < 200
    BY <1>2
  <1> QED
    BY <1>3 DEF s

(* Before() is Leads() of the scores and the places.                       *)
LEMMA BeforeLeads ==
    ASSUME NEW target \in Paths \union {NoPath}
    PROVE  \E score \in [Paths -> Nat], place \in [Paths -> Nat] :
              /\ \A p \in Paths : /\ score[p] = _score_file_relevance(target, p)
                                  /\ score[p] <= ScoreLimit(target)
                                  /\ place[p] <= Len(PathOrder)
              /\ \A p, q \in Paths : place[p] = place[q] => p = q
              /\ \A p, q \in Paths : Before(target, p, q) <=> Leads(score, place, p, q)
  <1> DEFINE score == [p \in Paths |-> _score_file_relevance(target, p)]
             place == [p \in Paths |-> Position(p)]
  <1>1. \A p \in Paths : score[p] = _score_file_relevance(target, p) /\ place[p] = Position(p)
    OBVIOUS
  <1>2. score \in [Paths -> Nat] /\ \A p \in Paths : score[p] <= ScoreLimit(target)
    BY ScoreOf
  <1>3. /\ place \in [Paths -> Nat]
        /\ \A p \in Paths : place[p] <= Len(PathOrder)
        /\ \A p, q \in Paths : place[p] = place[q] => p = q
    BY PositionOf
  <1> HIDE DEF score, place
  <1>4. \A p, q \in Paths : Before(target, p, q) <=> Leads(score, place, p, q)
    BY <1>1 DEF Before, Leads
  <1> QED
    BY <1>1, <1>2, <1>3, <1>4

(* So it is a strict total order, which goes by the classes of near files. *)
LEMMA Ordered ==
    ASSUME NEW target \in Paths \union {NoPath}
    PROVE  /\ \A p, q \in Paths : p = q \/ Before(target, p, q) \/ Before(target, q, p)
           /\ \A p, q \in Paths : /\ ~(Before(target, p, q) /\ Before(target, q, p))
                                  /\ ~Before(target, p, p)
           /\ \A p, q, r \in Paths :
                 Before(target, p, q) /\ Before(target, q, r) => Before(target, p, r)
           /\ \A p, q \in Paths : Near(target, p) /\ Near(target, q) /\ Before(target, p, q)
                                    => Class(target, p) <= Class(target, q)
           /\ target # NoPath => \A q \in Paths : Near(target, q) => ~Before(target, q, target)
  <1> PICK score \in [Paths -> Nat], place \in [Paths -> Nat] :
              /\ \A p \in Paths : /\ score[p] = _score_file_relevance(target, p)
                                  /\ score[p] <= ScoreLimit(target)
                                  /\ place[p] <= Len(PathOrder)
              /\ \A p, q \in Paths : place[p] = place[q] => p = q
              /\ \A p, q \in Paths : Before(target, p, q) <=> Leads(score, place, p, q)
    BY BeforeLeads
  <1>1. /\ \A p, q \in Paths : p = q \/ Leads(score, place, p, q) \/ Leads(score, place, q, p)
        /\ \A p, q \in Paths : /\ ~(Leads(score, place, p, q) /\ Leads(score, place, q, p))
                               /\ ~Leads(score, place, p, p)
        /\ \A p, q, r \in Paths : Leads(score, place, p, q) /\ Leads(score, place, q, r)
                                  => Leads(score, place, p, r)
    BY LeadsOrders
  <1>2. ASSUME NEW p \in Paths, NEW q \in Paths, Near(target, p), Near(target, q),
               Before(target, p, q)
        PROVE  Class(target, p) <= Class(target, q)
    <2>1. Class(target, p) \in 0 .. 3 /\ Class(target, q) \in 0 .. 3
      BY ScoreOf
    <2>2. ~(score[p] < score[q])
      BY <1>2 DEF Leads
    <2>3. ~(Class(target, p) > Class(target, q))
      BY <1>2, <2>2, ScoresGoByClass
    <2> QED
      BY <2>1, <2>3
  <1>3. ASSUME target # NoPath, NEW q \in Paths, Near(target, q)
        PROVE  ~Before(target, q, target)
    <2>1. target \in Paths /\ score[target] = 200
      BY <1>3 DEF _score_file_relevance
    <2>2. q = target \/ score[q] < 200
      BY <1>3, TargetScoresBest
    <2> QED
      BY <1>1, <2>1, <2>2 DEF Leads
  <1> QED
    BY <1>1, <1>2, <1>3

(* Some files have a first and a last one.                                 *)
LEMMA FirstAndLast ==
    ASSUME NEW target \in Paths \union {NoPath}, NEW T \in SUBSET Paths, T # {}
    PROVE  /\ \E p \in T : \A q \in T \ {p} : Before(target, p, q)
           /\ \E p \in T : \A q \in T \ {p} : Before(target, q, p)
  <1>1. PICK score \in [Paths -> Nat], place \in [Paths -> Nat] :
              /\ \A p \in Paths : /\ score[p] = _score_file_relevance(target, p)
                                  /\ score[p] <= ScoreLimit(target)
                                  /\ place[p] <= Len(PathOrder)
              /\ \A p, q \in Paths : place[p] = place[q] => p = q
              /\ \A p, q \in Paths : Before(target, p, q) <=> Leads(score, place, p, q)
    BY BeforeLeads
  <1>2. Len(PathOrder) \in Nat
    BY SelectionAssumption
  <1> PICK m \in Nat : m = ScoreLimit(target)
    <2>1. T \subseteq Paths
      OBVIOUS
    <2> QED
      BY <2>1, ScoreOf
  <1>3. /\ \A p \in T : score[p] \in Nat /\ score[p] <= m
        /\ \A p \in T : place[p] \in Nat /\ place[p] <= Len(PathOrder)
        /\ \A p, q \in T : place[p] = place[q] => p = q
    BY <1>1
  <1>4. /\ \E p \in T : \A q \in T \ {p} : Leads(score, place, p, q)
        /\ \E p \in T : \A q \in T \ {p} : Leads(score, place, q, p)
    BY <1>2, <1>3, LeadsEnds, Zenon
  <1> QED
    BY <1>1, <1>4

(* Nothing has no size: the fold over the empty set has no step to take.   *)
LEMMA EmptyFits == ASSUME NEW limit \in Nat PROVE Fits({}, limit)
  <1> DEFINE Sums(f) ==
                 f = [s \in SUBSET {} |->
                        IF s = {} THEN 0
                        ELSE Weight[CHOOSE x \in s : TRUE] + f[s \ {CHOOSE x \in s : TRUE}]]
  <1>1. Size({}) = (CHOOSE f : Sums(f))[{}]
    BY DEF Size, MapThenSumSet, MapThenFoldSet
  <1>2. Sums([s \in SUBSET {} |-> 0])
    OBVIOUS
  <1>3. Sums(CHOOSE f : Sums(f))
    BY <1>2
  <1>4. \A f : Sums(f) => f[{}] = 0
    OBVIOUS
  <1>5. Size({}) = 0
    BY <1>1, <1>3, <1>4
  <1> QED
    BY <1>5 DEF Fits

(* budget_context() is right for every index, target and limit.            *)
LEMMA BudgetedContextIsRight ==
    ASSUME NEW index \in SUBSET Paths, NEW target \in Paths \union {NoPath},
           NEW limit \in Nat
    PROVE  ContextIsRight(budget_context(index, target, limit), index, target, limit)
  <1> DEFINE up == [p \in index |-> UpTo(index, target, p)]
             Takes(p) == up[p] = {p} \/ Fits(up[p], limit)
             cut == {p \in index : \A q \in up[p] : Takes(q)}
  <1>1. CASE Fits(index, limit)
    BY <1>1 DEF budget_context, ContextIsRight, KeepsBudget, Best
  <1>2. CASE ~Fits(index, limit)
    <2>1. budget_context(index, target, limit) = cut
      BY <1>2 DEF budget_context
    <2>2. \A p \in index : \A q : q \in up[p] <=> q \in index /\ (q = p \/ Before(target, q, p))
      BY DEF UpTo
    <2>3. \A p, q \in index : p = q \/ Before(target, p, q) \/ Before(target, q, p)
      BY Ordered
    <2>4. \A p, q \in index : ~(Before(target, p, q) /\ Before(target, q, p))
                              /\ ~Before(target, p, p)
      BY Ordered
    <2>5. \A p, q, r \in index : Before(target, p, q) /\ Before(target, q, r)
                                   => Before(target, p, r)
      BY Ordered
    <2>6. Shallow(index, target) =>
             \A p, q \in index : Before(target, p, q) => Class(target, p) <= Class(target, q)
      BY Ordered DEF Shallow, Near
    <2> HIDE DEF up, Takes
    <2>7. \A p \in cut, q \in index : Before(target, q, p) => q \in cut
      BY <2>2, <2>5
    <2>8. index # {}
      BY <1>2, EmptyFits
    <2>9. \A p \in cut : Takes(p)
      BY <2>2
    <2>10. \A p \in index : up[p] = {p} => p \in cut
      BY DEF Takes
    <2>11. cut # {}
      <3>1. PICK p \in index : \A q \in index \ {p} : Before(target, p, q)
        BY <2>8, FirstAndLast
      <3>2. up[p] = {p}
        BY <2>2, <2>4, <3>1
      <3> QED
        BY <2>10, <3>2
    <2>12. \A p, q \in index : q = p => Class(target, q) <= Class(target, p)
      <3>1. \A p \in index : Class(target, p) \in 0 .. 3
        BY ScoreOf
      <3> QED
        BY <3>1
    <2>13. Fits(cut, limit) \/ \E p \in index : cut = {p}
      <3>1. PICK p \in cut : \A q \in cut \ {p} : Before(target, q, p)
        <4> cut \in SUBSET Paths
          OBVIOUS
        <4> HIDE DEF cut
        <4> QED
          BY <2>11, FirstAndLast
      <3>2. up[p] = cut
        BY <2>2, <2>7, <3>1
      <3>3. cut = {p} \/ Fits(cut, limit)
        BY <2>9, <3>1, <3>2 DEF Takes
      <3> QED
        BY <3>1, <3>3
    <2>14. Shallow(index, target) => (target \in index => target \in cut)
      <3> SUFFICES ASSUME Shallow(index, target), target \in index PROVE target \in cut
        OBVIOUS
      <3>1. target # NoPath
        BY PathOf DEF NoPath
      <3>2. \A q \in index : ~Before(target, q, target)
        BY <3>1, Ordered DEF Shallow, Near
      <3>3. up[target] = {target}
        BY <2>2, <3>2
      <3> QED
        BY <2>10, <3>3
    <2>15. Shallow(index, target) =>
              \A p \in cut, q \in index \ cut : Class(target, p) <= Class(target, q)
      BY <2>3, <2>6, <2>7
    <2>16. cut # index =>
              \E q \in index \ cut :
                 /\ ~Fits(cut \union {q}, limit)
                 /\ Shallow(index, target) => Best(index \ cut, target, q)
      <3> SUFFICES ASSUME cut # index
                   PROVE  \E q \in index \ cut :
                             /\ ~Fits(cut \union {q}, limit)
                             /\ Shallow(index, target) => Best(index \ cut, target, q)
        OBVIOUS
      <3>1. PICK q \in index \ cut : \A r \in (index \ cut) \ {q} : Before(target, q, r)
        <4> index \ cut \in SUBSET Paths /\ index \ cut # {}
          OBVIOUS
        <4> HIDE DEF cut
        <4> QED
          BY FirstAndLast
      <3>2. up[q] = cut \union {q}
        <4>1. \A r \in up[q] : r \in cut \union {q}
          BY <2>2, <2>4, <3>1
        <4>2. \A r \in cut : r \in up[q]
          BY <2>2, <2>3, <2>7, <3>1
        <4>3. q \in up[q]
          BY <2>2
        <4> QED
          BY <4>1, <4>2, <4>3
      <3>3. ~Takes(q)
        <4>1. PICK x \in up[q] : ~Takes(x)
          OBVIOUS
        <4> QED
          BY <2>9, <3>2, <4>1
      <3>4. ~Fits(cut \union {q}, limit)
        BY <3>2, <3>3 DEF Takes
      <3>5. Shallow(index, target) => Best(index \ cut, target, q)
        BY <2>6, <2>12, <3>1 DEF Best
      <3> QED
        BY <3>4, <3>5
    <2> HIDE DEF cut
    <2>17. cut \subseteq index
      BY DEF cut
    <2> QED
      BY <2>1, <2>13, <2>14, <2>15, <2>16, <2>17
         DEF ContextIsRight, KeepsBudget, Best
  <1> QED
    BY <1>1, <1>2

(* Ghost does not watch the tests it writes, and watcher and batch agree on*)
(* what a source is, whatever the files and the filters.                   *)
LEMMA FiltersAlwaysAgree == ASSUME NEW S \in SUBSET Paths PROVE FiltersAgree(S)
  <1>1. ASSUME NEW p \in Paths PROVE ~should_watch_path(resolve_test_path(p))
    <2>1. p.name \in Seq(STRING)
      BY PathOf
    <2>2. Head(<<"test_">> \o p.name) = "test_"
      BY <2>1
    <2> QED
      BY <2>2 DEF resolve_test_path, should_watch_path, is_test_file
  <1>2. ASSUME NEW p \in Paths PROVE IsPrefix(<<>>, p.dirs) /\ From(<<>>, p) = p
    <2>1. p \in Path
      BY PathOf
    <2>2. p.dirs \in Seq(STRING) /\ Len(p.dirs) \in Nat
      BY PathOf
    <2>3. IsPrefix(<<>>, p.dirs)
      BY <2>2 DEF IsPrefix
    <2>4. SubSeq(p.dirs, 1, Len(p.dirs)) = p.dirs
      BY <2>2
    <2>5. From(<<>>, p) = [p EXCEPT !.dirs = p.dirs]
      BY <2>4, Len(<<>>) = 0 DEF From
    <2> QED
      BY <2>1, <2>3, <2>5 DEF Path
  <1>3. ASSUME NEW p \in S, IsPython(p), ~is_temporary_file(p)
        PROVE  should_watch_path(p) <=> p \in BatchSources(S, <<>>)
    <2>1. p \in BatchSources(S, <<>>) <=> ~should_ignore_path(p) /\ ~is_test_file(p)
      BY <1>2, <1>3 DEF BatchSources, get_project_files
    <2> QED
      BY <1>3, <2>1 DEF should_watch_path, IsPython
  <1> QED
    BY <1>1, <1>3 DEF FiltersAgree

(* What is shown is of the project as it is indexed then.                  *)
LEMMA ShownSteps ==
    ASSUME [Next]_vars
    PROVE  \/ shown' \in {shown, NoContext}
           \/ \E target \in Paths \union {NoPath}, limit \in Nat : shown' = Showing(target, limit)
  <1>1. ASSUME Forget \/ \E sources, o : Begins(sources, o) PROVE shown' = NoContext
    BY <1>1 DEF Forget, Begins
  <1>2. CASE InitCancelled \/ Watch \/ (\E p \in Providers : Models(p))
             \/ \E c \in {"config", "providers", "start", "run-tests"} : Report(c)
    BY <1>1, <1>2 DEF InitCancelled, Watch, Models, Report
  <1>3. CASE \E p \in Providers, a \in {"use", "type", "skip"}, k \in Typed,
                saves, aborts \in BOOLEAN : InitProject(p, a, k, saves, aborts)
    BY <1>1, <1>3 DEF InitProject
  <1>4. ASSUME NEW p \in Targets, NEW l \in Limits, Index(p, l)
        PROVE  shown' = NoContext \/ shown' = Showing(p, l)
    BY <1>4 DEF Index
  <1>5. CASE \E o \in [force : BOOLEAN, ifChanged : BOOLEAN] :
                \/ \E p \in Paths : GenerateOne(p, o)
                \/ \E d \in Dirs : GenerateAll(d, o)
    BY <1>1, <1>5 DEF GenerateOne, GenerateAll, Cancelled, Refused, Ends
  <1>6. CASE Shell
    BY <1>2, <1>3, <1>4, <1>5, <1>6, CommandsAssumption DEF Shell
  <1>7. ASSUME NEW p \in Paths,
               \/ Skip(p) \/ GenerateFails(p)
               \/ \E n \in Attempts, s \in {"passed", "failed"} : Generate(p, n, s)
        PROVE  shown' = shown \/ shown' = Showing(p, DefaultLimit)
    BY <1>7 DEF Skip, GenerateFails, Generate, Written, Prompted
  <1>8. CASE \E n \in Attempts \union {Unset} :
                (\E p \in Paths : RollBack(p, n)) \/ (\E t \in Tests : RollBackTest(t, n))
    BY <1>1, <1>8 DEF RollBack, RollBackTest, Frame
  <1>9. CASE (\E p \in Paths : EditSource(p)) \/ (\E t \in Tests : EditTest(t))
    BY <1>1, <1>9 DEF EditSource, EditTest
  <1>10. CASE UNCHANGED vars
    BY <1>10 DEF vars
  <1> QED
    BY <1>6, <1>7, <1>8, <1>9, <1>10, Steps, CommandsAssumption

ShownRight == shown = NoContext
              \/ ContextIsRight(shown.files, shown.index, shown.target, shown.limit)

LEMMA NextShown ==
    ASSUME IInv, ShownRight, [Next]_vars PROVE ShownRight'
  <1>1. ASSUME NEW target \in Paths \union {NoPath}, NEW limit \in Nat,
               shown' = Showing(target, limit)
        PROVE  ShownRight'
    <2>1. Indexed \in SUBSET Paths
      BY IndexedType DEF IInv, Shape
    <2>2. ContextIsRight(budget_context(Indexed, target, limit), Indexed, target, limit)
      BY <2>1, BudgetedContextIsRight
    <2> QED
      BY <1>1, <2>2 DEF ShownRight, Showing
  <1>2. CASE shown' \in {shown, NoContext}
    BY <1>2 DEF ShownRight, NoContext
  <1> QED
    BY <1>1, <1>2, ShownSteps

(* Whatever a prompt or "index" shows of any project is right, and the     *)
(* filters agree about any files.                                          *)
THEOREM SelectionIsRight == Spec => []SelectionIsSound
  <1>1. Init => ShownRight
    BY DEF Init, ShownRight
  <1>2. IInv /\ ShownRight /\ [Next]_vars => ShownRight'
    BY NextShown
  <1>3. IInv /\ ShownRight => SelectionIsSound
    BY FiltersAlwaysAgree DEF IInv, Shape, ShownRight, SelectionIsSound
  <1> QED
    BY <1>1, <1>2, <1>3, Invariance, PTL DEF Spec
=============================================================================
