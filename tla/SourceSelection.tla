--------------------------- MODULE SourceSelection ---------------------------
(***************************************************************************)
(* Which files Ghost works on, where their tests go and which of them the  *)
(* language model is shown: the pure functions that the watcher, the batch *)
(* commands, the pipeline and the prompts share (watcher.py, indexer.py,   *)
(* pipeline.py).                                                           *)
(*                                                                         *)
(* A path is relative to the project root.  A name is the sequence of the  *)
(* pieces that the code looks for in it: test_m.py is <<"test_","m",".py">>*)
(***************************************************************************)
EXTENDS Naturals, Sequences, FiniteSets, SequencesExt

CONSTANTS PathOrder,    \* every source path, in the order of sorted()
          OutputDir,    \* tests.output_dir
          IgnoreDirs,   \* scanner.ignore_dirs
          IgnoreFiles,  \* scanner.ignore_files
          Patterns,     \* watcher.patterns, each as the piece it ends in
          Imports,      \* the modules each path imports
          Weight        \* the characters that its entry takes in the index

Path == [dirs : Seq(STRING), name : Seq(STRING) \ {<<>>}]
Paths == Range(PathOrder)
NoPath == [dirs |-> <<>>, name |-> <<>>]

ASSUME SelectionAssumption == /\ PathOrder \in Seq(Path)
                              /\ Imports \in [Paths -> SUBSET Seq(STRING)]
                              /\ Weight \in [Paths -> Nat \ {0}]

IsPython(p) == Last(p.name) = ".py"

-----------------------------------------------------------------------------
(* The filters. *)

is_test_file(p) == \/ Head(p.name) = "test_"
                   \/ IsSuffix(<<"_test", ".py">>, p.name)
                   \/ \E i \in DOMAIN p.dirs : p.dirs[i] \in {OutputDir, "tests"}

is_temporary_file(p) ==
    \/ Last(p.name) \in {"~", ".tmp", ".swp", ".swo", ".pyc", ".pyo"}
    \/ Head(p.name) = "."
    \/ Head(p.name) = "#" /\ Last(p.name) = "#"
    \/ \E i \in DOMAIN p.dirs : p.dirs[i] = "__pycache__"

should_ignore_path(p) == \/ \E i \in DOMAIN p.dirs : p.dirs[i] \in IgnoreDirs
                         \/ p.name \in IgnoreFiles

should_watch_path(p) == /\ ~is_temporary_file(p)
                        /\ Last(p.name) \in Patterns \union {".py"}
                        /\ ~is_test_file(p)
                        /\ ~should_ignore_path(p)

(* A path as seen from a directory above it.                               *)
From(dir, p) == [p EXCEPT !.dirs = SubSeq(@, Len(dir) + 1, Len(@))]

(* The walk of a directory, which prunes it by the names below it.         *)
get_project_files(files, dir) == {p \in files : /\ IsPython(p) /\ IsPrefix(dir, p.dirs)
                                                /\ ~should_ignore_path(From(dir, p))}

(* What "generate --all" of a directory is about.                          *)
BatchSources(files, dir) == {p \in get_project_files(files, dir) : ~is_test_file(p)}

(* Files are taken in the order of sorted().                               *)
Position(p) == SelectInSeq(PathOrder, LAMBDA q : q = p)
FirstOf(S) == {p \in S : \A q \in S : Position(p) <= Position(q)}

-----------------------------------------------------------------------------
(* Where the test of a source goes. *)

Stripped(dirs) == IF dirs # <<>> /\ Head(dirs) = "src" THEN Tail(dirs) ELSE dirs

resolve_test_path(p) == [dirs |-> <<OutputDir>> \o Stripped(p.dirs),
                         name |-> <<"test_">> \o p.name]

-----------------------------------------------------------------------------
(* The budgeted context. *)

(* a/b/c.py as <<"a", ".", "b", ".", "c">>.                                *)
Module(p) == FlattenSeq([i \in DOMAIN p.dirs |-> <<p.dirs[i], ".">>]) \o Front(p.name)

(* Modules are compared by the ends of their names.                        *)
Imported(target, p) == \E m \in Imports[target] : IsSuffix(m, Module(p)) \/ IsSuffix(Module(p), m)

(* The levels that two directories have in common.                         *)
CommonLevels(d, e) == Cardinality({k \in DOMAIN d : IsPrefix(SubSeq(d, 1, k), e)})

Nearness(target, p) ==
    IF p.dirs = target.dirs THEN 50 ELSE 10 * CommonLevels(p.dirs, target.dirs)

(* Faulty variant: imports do not count.                                   *)
ScoreOfNearness(target, p) ==
    CASE target = NoPath -> 0 [] target = p -> 200 [] OTHER -> Nearness(target, p)
_score_file_relevance(target, p) ==
    CASE target = NoPath -> 0
      [] target = p -> 200
      [] OTHER -> (IF Imported(target, p) THEN 100 ELSE 0) + Nearness(target, p)

Size(S) == MapThenSumSet(LAMBDA p : Weight[p], S)

Fits(S, limit) == Size(S) <= limit

(* The more relevant of two comes first, and equals in their order.        *)
Before(target, p, q) ==
    LET s == _score_file_relevance(target, p) t == _score_file_relevance(target, q)
    IN  s > t \/ (s = t /\ Position(p) < Position(q))
UpTo(index, target, p) == {q \in index : q = p \/ Before(target, q, p)}

(* Entries are taken up to one that does not fit; the first in any case.   *)
budget_context(index, target, limit) ==
    LET upTo == [p \in index |-> UpTo(index, target, p)]
        taken(p) == upTo[p] = {p} \/ Fits(upTo[p], limit)
    IN  IF Fits(index, limit) THEN index
        ELSE {p \in index : \A q \in upTo[p] : taken(q)}

-----------------------------------------------------------------------------
(* What these functions promise one another. *)

(* The priorities of budget_context()'s documentation, the highest first.  *)
Class(target, p) == CASE target = NoPath \/ p = target -> 0
                      [] target \in Paths \ {p} -> IF Imported(target, p) THEN 1
                                                 ELSE IF p.dirs = target.dirs THEN 2 ELSE 3

(* The classes are the scores' as long as different directories have four  *)
(* levels in common at most: a level counts 10, the same directory 50.     *)
Shallow(index, target) ==
    \A p \in index : p.dirs # target.dirs => CommonLevels(p.dirs, target.dirs) <= 4

Best(S, target, p) == \A q \in S : Class(target, p) <= Class(target, q)

(* "Guarantees the serialized JSON size of the returned dict does not      *)
(* exceed max_chars".                                                      *)
KeepsBudget(context, limit) == Fits(context, limit)

(* A context is of the index and within the limit, except that a first file*)
(* which exceeds the limit alone is taken: there the guarantee is not kept.*)
(* What is left out first would not have fitted and, in a shallow tree,    *)
(* nothing is left out for a file of lower priority.                       *)
ContextIsRight(context, index, target, limit) ==
    /\ context \subseteq index
    /\ KeepsBudget(context, limit) \/ \E p \in index : context = {p}
    /\ context # index =>
         \E q \in index \ context :
            /\ ~Fits(context \union {q}, limit)
            /\ Shallow(index, target) => Best(index \ context, target, q)
    /\ Shallow(index, target) =>
         /\ target \in index => target \in context
         /\ \A p \in context : Best(index \ context, target, p)

(* Ghost does not work on what it writes, and what the batch of a project  *)
(* generates for is what its daemon watches, hidden files excepted.        *)
FiltersAgree(files) ==
    /\ \A p \in files : ~should_watch_path(resolve_test_path(p))
    /\ \A p \in {q \in files : IsPython(q) /\ ~is_temporary_file(q)} :
         should_watch_path(p) <=> p \in BatchSources(files, <<>>)

(* Sources whose tests would be one file.                                  *)
Rivals(files, p) == {q \in files \ {p} : resolve_test_path(q) = resolve_test_path(p)}
=============================================================================
