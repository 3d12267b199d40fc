----------------------------- MODULE MCCommands -----------------------------
(***************************************************************************)
(* A small instance of Commands for TLC: a source at the root and one of   *)
(* the same name under src/, a package, a hidden file and an ignored one.  *)
(***************************************************************************)
EXTENDS Commands

CONSTANTS k1, k2

P(dirs, name) == [dirs |-> dirs, name |-> name]
Root == P(<<>>, <<"m", ".py">>)
Ignored == P(<<"build">>, <<"b", ".py">>)
Hidden == P(<<"src">>, <<".", "h", ".py">>)
InSrc == P(<<"src">>, <<"m", ".py">>)
InPkg == P(<<"src", "pkg">>, <<"m", ".py">>)

MCPathOrder == <<Ignored, Root, Hidden, InSrc, InPkg>>
MCImports == [p \in Paths |-> IF p = Root THEN {<<"pkg", ".", "m">>} ELSE {}]
MCWeight == [p \in Paths |-> IF p = InSrc THEN 3 ELSE 2]
MCTests == {resolve_test_path(p) : p \in {Root, InPkg, Hidden, Ignored}}

MCKeyVars == [groq |-> <<"GROQ_API_KEY", "GROQ_API_KEY3", "GHOST_API_KEY">>,
              openai |-> <<"OPENAI_API_KEY", "GHOST_API_KEY">>,
              ollama |-> <<"GHOST_API_KEY">>]
MCContainedIn == {<<"GROQ_API_KEY", "GROQ_API_KEY3">>}

NoVars == [v \in Vars |-> Unset]
MCEnvironments == {NoVars, [NoVars EXCEPT !["GROQ_API_KEY"] = Blank, !["OPENAI_API_KEY"] = k1],
                   [NoVars EXCEPT !["GHOST_AI__PROVIDER"] = "openai"]}
Assigns(v, value, form) == [var |-> v, value |-> value, form |-> form, within |-> {}]
MCEnvFiles == {NoFile,
               [lines |-> <<Assigns("GROQ_API_KEY", k2, "plain")>>, ragged |-> TRUE],
               [lines |-> <<Assigns("GROQ_API_KEY3", k2, "plain")>>, ragged |-> FALSE],
               [lines |-> <<Assigns("GROQ_API_KEY", k2, "plain"),
                            Assigns("GROQ_API_KEY", k2, "other")>>, ragged |-> FALSE]}
MCTomls == {Unset, Malformed, Template("groq")}

Settled == [env |-> NoVars, dotenv |-> NoFile, toml |-> Template("groq")]
Begin(s, fs) == [env |-> s.env, dotenv |-> s.dotenv, toml |-> s.toml, files |-> fs]
MCBeginnings ==
    {Begin(s, {}) : s \in [env : MCEnvironments, dotenv : MCEnvFiles, toml : MCTomls]}
      \union {Begin(Settled, {Root, InSrc}),
               Begin([Settled EXCEPT !.toml = Malformed], {Root, InSrc, InPkg}),
               Begin([Settled EXCEPT !.toml = Malformed], {Ignored, Hidden})}
MCTargets == {NoPath, Root}
MCDirs == {<<>>, <<"src">>}
=============================================================================
