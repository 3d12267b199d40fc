------------------------------ MODULE Commands ------------------------------
(***************************************************************************)
(* The commands that a user gives one after the other (cli.py), and what   *)
(* they leave in the project: ghost.toml and .env, through Settings, the   *)
(* index and the tests of the sources that SourceSelection picks, and their*)
(* history.  "generate" takes its sources one at a time, and can be        *)
(* interrupted between them and in one.                                    *)
(*                                                                         *)
(* A run of the pipeline is here what it can come to: Pipeline.tla is about*)
(* how.  The watcher that "watch" and "start" launch is Watcher.tla's and  *)
(* DaemonLock.tla's.                                                       *)
(***************************************************************************)
EXTENDS Settings, SourceSelection

CONSTANTS Tests,        \* test files
          Attempts,     \* attempt numbers
          Beginnings,   \* the settings and the sources that a user can begin with
          Targets,      \* what "index" and "prompt" are for
          Dirs,         \* what "generate --all" is of
          Typed,        \* the keys that the user types
          Limits,       \* what --budget can be
          DefaultLimit, \* what it is otherwise
          MaxCommands   \* bound on the commands and edits

ASSUME CommandsAssumption == /\ {resolve_test_path(p) : p \in Paths} \subseteq Tests
                             /\ Attempts \subseteq Nat
                             /\ \A n \in Attempts : 0 .. n \subseteq Attempts
                             /\ Beginnings \subseteq [env : [Vars -> Values \union {Unset}],
                                                      dotenv : EnvFile, toml : Toml,
                                                      files : SUBSET Paths]
                             /\ Targets \subseteq Paths \union {NoPath}
                             /\ Limits \subseteq Nat /\ DefaultLimit \in Nat
                             /\ Typed \subseteq Keys
                             /\ MaxCommands \in Nat

VARIABLES env, dotenv, toml, \* where the settings come from
          files,    \* the source files that exist
          tests,    \* each test file, see Authored
          history,  \* the attempts recorded of each source
          fresh,    \* the sources whose present content has been processed
          context,  \* the files in context.json
          todo,     \* the sources that "generate" has before it, in their order
          opts,     \* its options
          results,  \* what became of those behind it
          last,     \* the kind of the last command, how it ended and what for
          shown,    \* history: the last context that was put together, and for what
          agreed,   \* history: the key that "init" and the user agreed on
          commands  \* commands and edits so far

settings == <<env, dotenv, toml>>
project == <<files, tests, history, fresh, context>>
generation == <<todo, opts, results>>
vars == <<settings, project, generation, last, shown, agreed, commands>>

Here == [env |-> env, dotenv |-> dotenv, toml |-> toml]

(* A test file is not there, or hand-written, or of an attempt at a source.*)
Nothing == [by |-> "nobody", of |-> {}, attempt |-> 0]
Handwritten == [by |-> "user", of |-> {}, attempt |-> 0]
AttemptAt(p, n) == [by |-> "ghost", of |-> {p}, attempt |-> n]
Authored == {Nothing, Handwritten} \union {AttemptAt(p, n) : p \in Paths, n \in Attempts}

NoCommand == [cmd |-> "none", exit |-> "ok", asked |-> {}]
NoContext == [target |-> NoPath, limit |-> DefaultLimit, files |-> {}, index |-> {}]
NoKey == [provider |-> Unset, key |-> Unset, typed |-> FALSE, savable |-> TRUE]
Plain == [force |-> FALSE, ifChanged |-> FALSE]

Init == /\ \E b \in Beginnings :
             env = b.env /\ dotenv = b.dotenv /\ toml = b.toml /\ files = b.files
        /\ tests = [t \in Tests |-> Nothing]
        /\ history = [p \in Paths |-> {}]
        /\ fresh = {} /\ context = {}
        /\ todo = {} /\ opts = Plain /\ results = {}
        /\ last = NoCommand /\ shown = NoContext /\ agreed = NoKey
        /\ commands = 0

(* The shell waits for a command, which ends at once or goes on.           *)
Count == commands < MaxCommands /\ commands' = commands + 1
AtShell == todo = {} /\ Count
Exit(cmd, code, asked) == last' = [cmd |-> cmd, exit |-> code, asked |-> asked]
Anew == results' = {} /\ opts' = Plain /\ todo' = {}
Forget == Anew /\ shown' = NoContext

Indexed == get_project_files(files, <<>>)

-----------------------------------------------------------------------------
(* init, watch, start. *)

(* The user declines or aborts the wizard before it has changed anything.  *)
InitCancelled == /\ AtShell
                 /\ \/ toml # Unset /\ Exit("init", "ok", {})
                    \/ Exit("init", "interrupted", {})
                 /\ Forget
                 /\ UNCHANGED <<settings, project, agreed>>

(* The key is saved before the model is asked for, where the user can      *)
(* abort; the configuration is loaded after it has been written.           *)
InitProject(provider, answer, key, saves, aborts) ==
    LET v == Head(KeyVars[provider])
        typed == answer = "type" /\ saves
    IN  /\ AtShell
        /\ answer \in KeyAnswers(provider, env)
        /\ dotenv' = IF typed THEN Saved(dotenv, v, key) ELSE dotenv
        /\ toml' = IF aborts THEN toml ELSE Template(provider)
        /\ LET ok == ~aborts /\ Loads([Here EXCEPT !.dotenv = dotenv', !.toml = toml'])
           IN  /\ Exit("init", CASE ok -> "ok" [] aborts -> "interrupted" [] OTHER -> "error", {})
               /\ context' = IF ok THEN Indexed ELSE context
        /\ agreed' = IF aborts \/ ~(typed \/ answer = "use") THEN NoKey
                     ELSE [provider |-> provider, typed |-> typed,
                           key |-> IF typed THEN key ELSE get_api_key(provider, env),
                           savable |-> Savable(dotenv, v)]
        /\ Forget
        /\ UNCHANGED <<env, files, tests, history, fresh>>

(* watch_cmd() writes the default ghost.toml if there is none, then loads. *)
Watch == /\ AtShell
         /\ toml' = IF toml = Unset THEN Defaults ELSE toml
         /\ Exit("init", IF Loads([Here EXCEPT !.toml = toml']) THEN "ok" ELSE "error", {})
         /\ Forget
         /\ UNCHANGED <<env, dotenv, project, agreed>>

-----------------------------------------------------------------------------
(* Commands that only look. *)

(* models_cmd(): the providers with a fall-back list do not fail.          *)
Models(name) == /\ AtShell
                /\ \/ /\ ~Loads(Here) \/ name \notin Local
                      /\ Exit("report", "error", {})
                   \/ /\ Loads(Here) /\ HasClient(get_provider(name, Here))
                      /\ Exit("report", "ok", {})
                /\ Forget
                /\ UNCHANGED <<settings, project, agreed>>

(* config, providers, run-tests, and start, which leaves the loading of    *)
(* the configuration to the daemon.                                        *)
Report(cmd) == /\ AtShell
               /\ \/ /\ \/ ~Loads(Here) \/ cmd \in {"start", "run-tests"}
                        \/ cmd = "config" /\ toml = Unset
                     /\ Exit("report", "error", {})
                  \/ /\ IF cmd = "start" THEN toml # Unset ELSE Loads(Here)
                     /\ cmd = "config" => toml # Unset
                     /\ Exit("report", "ok", {})
               /\ Forget
               /\ UNCHANGED <<settings, project, agreed>>

Showing(target, limit) == [target |-> target, limit |-> limit, index |-> Indexed,
                           files |-> budget_context(Indexed, target, limit)]

(* index_cmd() and prompt_cmd(); "index" alone shows the whole index.      *)
Index(target, limit) ==
    /\ AtShell
    /\ \/ /\ Loads(Here)
          /\ Exit("report", "ok", {})
          /\ context' = Indexed
          /\ shown' \in {NoContext, Showing(target, limit)}
       \/ ~Loads(Here) /\ Exit("report", "error", {}) /\ shown' = NoContext /\ UNCHANGED context
    /\ Anew
    /\ UNCHANGED <<settings, files, tests, history, fresh, agreed>>

-----------------------------------------------------------------------------
(* generate. *)

Ends(code) == /\ Exit("generate", code, {}) /\ Forget
              /\ UNCHANGED <<settings, project, agreed>>
Refused == Ends("error")
Cancelled == Ends("ok") \/ Ends("interrupted")
Begins(sources, o) == /\ todo' = sources /\ opts' = o /\ results' = {} /\ shown' = NoContext
                      /\ Exit("generate", "none", sources)
                      /\ UNCHANGED <<settings, project, agreed>>

Asks(p, o) == tests[resolve_test_path(p)] # Nothing /\ ~o.force /\ ~o.ifChanged

(* _run_single_generation().                                               *)
GenerateOne(p, o) ==
    /\ AtShell
    /\ IF Loads(Here) /\ (Asks(p, o) => tests[resolve_test_path(p)] # Handwritten)
       THEN Begins({p}, o) \/ (Asks(p, o) /\ Cancelled)
       ELSE Refused

(* _run_batch_generation().                                                *)
GenerateAll(dir, o) ==
    LET sources == BatchSources(files, dir)
    IN  /\ AtShell
        /\ IF Loads(Here)
           THEN IF sources = {} THEN Ends("ok") ELSE Begins(sources, o)
           ELSE Refused

Generating == todo # {}
MayWrite(p) == opts.force \/ tests[resolve_test_path(p)] # Handwritten

(* Faulty variant: all() for any().                                        *)
ExitCodeOfAll(rs) == IF \A r \in rs : r.status = "failed" THEN "error" ELSE "ok"
ExitCode(rs) == IF \E r \in rs : r.status = "failed" THEN "error" ELSE "ok"

(* A run returns, and the next begins or the command ends.                 *)
Returns(p, status) ==
    /\ results' = results \union {[source |-> p, status |-> status]}
    /\ todo' = todo \ {p}
    /\ last' = IF todo' = {} THEN [last EXCEPT !.exit = ExitCode(results')] ELSE last
    /\ UNCHANGED opts

(* A run raises, or is interrupted, which ends the command.                *)
Raises(p) == /\ \E code \in {"error", "interrupted"} : last' = [last EXCEPT !.exit = code]
             /\ results' = results \union {[source |-> p, status |-> "raised"]}
             /\ todo' = {}
             /\ UNCHANGED opts

(* The project is indexed anew for the prompt of a source.                 *)
Prompted(p) == context' = Indexed /\ shown' = Showing(p, DefaultLimit)

(* Faulty variant: the history counts attempts from one.                   *)
WrittenFromOne(p, n, recorded) ==
    /\ Prompted(p)
    /\ tests' = [tests EXCEPT ![resolve_test_path(p)] = AttemptAt(p, n)]
    /\ history' = [history EXCEPT ![p] = @ \union 1 .. recorded]
(* The test of attempt n, and the attempts up to it that are recorded.     *)
Written(p, n, recorded) ==
    /\ Prompted(p)
    /\ tests' = [tests EXCEPT ![resolve_test_path(p)] = AttemptAt(p, n)]
    /\ history' = [history EXCEPT ![p] = @ \union 0 .. recorded - 1]

Skip(p) == /\ p \in FirstOf(todo)
           /\ opts.ifChanged /\ p \in fresh
           /\ Returns(p, "skipped")
           /\ UNCHANGED <<settings, project, shown, agreed, commands>>

(* Its options, and the test that is there, let a source be generated for. *)
Goes(p) == p \in files /\ ~(opts.ifChanged /\ p \in fresh) /\ MayWrite(p)

(* The test is written, healed or not, and passes or not.                  *)
Generate(p, n, status) ==
    /\ p \in FirstOf(todo) /\ Goes(p)
    /\ Written(p, n, n + 1)
    /\ fresh' = fresh \union {p}
    /\ Returns(p, status)
    /\ UNCHANGED <<settings, files, agreed, commands>>

(* An error or an interrupt before the prompt, before the test is written, *)
(* before it is recorded, or after.                                        *)
GenerateFails(p) ==
    /\ p \in FirstOf(todo)
    /\ \/ UNCHANGED <<tests, history, context, shown>>
       \/ Goes(p) /\ Prompted(p) /\ UNCHANGED <<tests, history>>
       \/ Goes(p) /\ \E n \in Attempts : \E recorded \in n .. n + 1 : Written(p, n, recorded)
    /\ Raises(p)
    /\ UNCHANGED <<settings, files, fresh, agreed, commands>>

-----------------------------------------------------------------------------
(* rollback. *)

Restores(p, n) ==
    LET attempts == IF n = Unset THEN history[p] ELSE history[p] \intersect {n}
    IN  IF attempts = {}
        THEN Exit("rollback", "error", {}) /\ UNCHANGED tests
        ELSE /\ tests' = [tests EXCEPT ![resolve_test_path(p)] =
                                          AttemptAt(p, Min(attempts))]
             /\ Exit("rollback", "ok", {})

Frame == Forget /\ UNCHANGED <<settings, files, history, fresh, context, agreed>>

(* Of a source.                                                            *)
RollBack(p, n) == /\ AtShell /\ p \in files
                  /\ \/ ~Loads(Here) /\ Exit("rollback", "error", {}) /\ UNCHANGED tests
                     \/ Loads(Here) /\ Restores(p, n)
                  /\ Frame

Tracked == {p \in Paths : history[p] # {}}

(* Of a test, by the first tracked source whose test it would be.          *)
RollBackTest(t, n) ==
    LET sources == {p \in Tracked : resolve_test_path(p) = t}
    IN  /\ AtShell /\ tests[t] # Nothing
        /\ \/ /\ ~Loads(Here) \/ sources = {}
              /\ Exit("rollback", "error", {}) /\ UNCHANGED tests
           \/ Loads(Here) /\ \E p \in FirstOf(sources) : Restores(p, n)
        /\ Frame

-----------------------------------------------------------------------------
(* Between commands the user edits a source or a test. *)

EditSource(p) == /\ AtShell /\ p \in fresh
                 /\ fresh' = fresh \ {p}
                 /\ last' = NoCommand /\ Forget
                 /\ UNCHANGED <<settings, files, tests, history, context, agreed>>

EditTest(t) == /\ AtShell
               /\ tests' = [tests EXCEPT ![t] = IF @ = Handwritten THEN Nothing ELSE Handwritten]
               /\ last' = NoCommand /\ Forget
               /\ UNCHANGED <<settings, files, history, fresh, context, agreed>>

Next ==
    \/ InitCancelled \/ Watch
    \/ \E p \in Providers, a \in {"use", "type", "skip"}, k \in Typed, saves, aborts \in BOOLEAN :
          InitProject(p, a, k, saves, aborts)
    \/ \E p \in Providers : Models(p)
    \/ \E c \in {"config", "providers", "start", "run-tests"} : Report(c)
    \/ \E p \in Targets, l \in Limits : Index(p, l)
    \/ \E o \in [force : BOOLEAN, ifChanged : BOOLEAN] :
          \/ \E p \in Paths : GenerateOne(p, o)
          \/ \E d \in Dirs : GenerateAll(d, o)
    \/ \E p \in Paths :
          \/ Skip(p) \/ GenerateFails(p)
          \/ \E n \in Attempts, s \in {"passed", "failed"} : Generate(p, n, s)
    \/ \E n \in Attempts \union {Unset} :
          (\E p \in Paths : RollBack(p, n)) \/ (\E t \in Tests : RollBackTest(t, n))
    \/ (\E p \in Paths : EditSource(p)) \/ (\E t \in Tests : EditTest(t))

Spec == Init /\ [][Next]_vars

-----------------------------------------------------------------------------
(* Properties. *)

TypeOK == /\ env \in [Vars -> Values \union {Unset}]
          /\ dotenv \in EnvFile /\ toml \in Toml
          /\ files \subseteq Paths /\ fresh \subseteq Paths /\ context \subseteq Paths
          /\ tests \in [Tests -> Authored]
          /\ history \in [Paths -> SUBSET Attempts]
          /\ todo \subseteq Paths
          /\ opts \in [force : BOOLEAN, ifChanged : BOOLEAN]
          /\ results \subseteq [source : Paths, status : {"passed", "failed", "skipped", "raised"}]
          /\ last.exit \in {"ok", "error", "interrupted", "none"} /\ last.asked \subseteq Paths
          /\ last.exit = "none" <=> Generating
          /\ shown.index \subseteq Paths
          /\ agreed.key \in Values \union {Unset}
          /\ commands \in 0 .. MaxCommands

(* After "generate" has succeeded every source it was about was skipped or *)
(* passed, and one that shares its test with none of them has it: the test *)
(* of an attempt that is in its history.  A failure has a source that      *)
(* failed, unless nothing was begun.                                       *)
ExitTellsTruth ==
    last.cmd = "generate" /\ ~Generating =>
        /\ last.exit = "ok" =>
             /\ last.asked = {r.source : r \in results}
             /\ \A r \in results :
                  LET test == tests[resolve_test_path(r.source)]
                  IN  \/ r.status = "skipped"
                      \/ /\ r.status = "passed"
                         /\ Rivals(last.asked, r.source) = {} =>
                              test.of = {r.source} /\ test.attempt \in history[r.source]
        /\ last.exit = "error" /\ last.asked # {} =>
             \E r \in results : r.status \in {"failed", "raised"}

(* "Hand-written tests are never overwritten without explicit force=True", *)
(* whatever the command and its confirmations, except by a rollback, which *)
(* does not ask.                                                           *)
HandwrittenKept ==
    \A t \in Tests : tests[t] = Handwritten /\ tests'[t] # Handwritten =>
                        opts.force \/ last'.cmd \in {"rollback", "none"}

(* A rollback gives a test back to the source it was of, unless another one*)
(* with a history has the same test.                                       *)
RollbackIsOwn ==
    \A t \in Tests : last'.cmd = "rollback" /\ tests'[t] # tests[t] =>
        \A p \in tests[t].of :
            Rivals(Tracked, p) = {} => tests'[t].of = {p}

(* Whatever the step, all of this is so.                                   *)
CommandsKeepTheirWord == [][ExitTellsTruth' /\ HandwrittenKept /\ RollbackIsOwn]_vars

(* The key that "init" said it found, or saved, is the key that requests   *)
(* are made with, as long as the settings name the provider it was for and *)
(* no key of their own; and then the provider is reported as available.  A *)
(* typed key is not if the environment has one, or if .env could not take  *)
(* it, see Savable.                                                        *)
AgreedKeyIsUsed ==
    LET config == Config(Here)
        prov == get_provider(agreed.provider, Here)
    IN  /\ agreed # NoKey /\ Loads(Here)
        /\ config.provider = agreed.provider /\ ~Truthy(config.api_key)
        /\ agreed.typed => agreed.savable /\ get_api_key(agreed.provider, env) = Unset
        => /\ prov.api_key = agreed.key
           /\ agreed.provider \notin Local \union {"custom"} => is_available(prov)

(* What is shown of a project is right, see SourceSelection, and so are the*)
(* filters for the files it begins with and keeps.                         *)
SelectionIsSound == /\ commands = 0 => FiltersAgree(files)
                    /\ shown # NoContext =>
                         ContextIsRight(shown.files, shown.index, shown.target, shown.limit)

(* indexer.py:609-610 guarantees the limit without exception.  It is not   *)
(* kept for a first file that exceeds the limit alone.                     *)
ContextFits == shown # NoContext => KeepsBudget(shown.files, shown.limit)
=============================================================================
