------------------------------ MODULE Settings ------------------------------
(***************************************************************************)
(* Where a setting and an API key come from: the layers of load_config(),  *)
(* the .env file and the wizard that writes it, resolve_api_key(), and the *)
(* providers made of them (config.py, cli.py, providers.py).               *)
(*                                                                         *)
(* All of them are functions of one record: the environment, as a function *)
(* of the variables Ghost looks for, the .env file, as its lines, and the  *)
(* [ai] table of ghost.toml.                                               *)
(***************************************************************************)
EXTENDS Naturals, Sequences, SequencesExt

CONSTANTS Providers,   \* the names of the registry
          KeyVars,     \* _PROVIDER_ENV_VARS: the variables of a provider, in order
          ContainedIn, \* the pairs of variables the first of which is in the other's text
          Keys,        \* API keys
          Empty,       \* the empty string
          Blank,       \* white space
          Unset,       \* not there
          Malformed,   \* a ghost.toml that is not TOML
          Bad          \* what no field takes and no provider accepts

(* The fields of [ai] that decide who is asked, and a field there is not.  *)
Fields == {"provider", "api_key", "base_url", "unknown"}
VarOf == [provider |-> "GHOST_AI__PROVIDER", api_key |-> "GHOST_AI__API_KEY",
          base_url |-> "GHOST_AI__BASE_URL", unknown |-> "GHOST_AI__UNKNOWN"]
Vars == UNION {Range(KeyVars[p]) : p \in Providers}
          \union Range(VarOf) \union {"GHOST_BASE_URL", "OLLAMA_HOST"}
Values == Keys \union Providers \union {Empty, Blank, Bad}
Layer == [Fields -> Values \union {Unset}]
Toml == {Unset, Malformed} \union Layer

ASSUME SettingsAssumption == /\ "groq" \in Providers
                             /\ KeyVars \in [Providers -> Seq(STRING)]
                             /\ \A p \in Providers : KeyVars[p] # <<>>
                             /\ ContainedIn \subseteq Vars \X Vars
                             /\ Unset \notin Values /\ Unset \notin Layer
                             /\ Empty \notin Keys /\ Blank \notin Keys

Truthy(value) == value \notin {Unset, Empty}
Nonblank(value) == value \notin {Unset, Empty, Blank}

NoLayer == [f \in Fields |-> Unset]
(* generate_default_config(), and the defaults of AIConfig.                *)
Template(provider) == [NoLayer EXCEPT !.provider = provider]
Defaults == Template("groq")

-----------------------------------------------------------------------------
(* The .env file. *)

(* A "plain" line begins with its variable and "="; an "other" one assigns *)
(* it all the same (export X=, X =); a comment only mentions it.  A line   *)
(* may be about no variable of Vars, and name others in the rest of it.    *)
Line == [var : Vars \union {Unset}, value : Values, form : {"plain", "other", "comment"},
         within : SUBSET Vars]
Assignment(v, value) == [var |-> v, value |-> value, form |-> "plain", within |-> {}]
(* ragged: the last line, which is not blank, has no newline.              *)
EnvFile == {file \in [lines : Seq(Line), ragged : BOOLEAN] : file.ragged => file.lines # <<>>}
NoFile == [lines |-> <<>>, ragged |-> FALSE]

LastAssignment(file, v) == SelectLastInSeq(file.lines, LAMBDA l : l.var = v /\ l.form # "comment")

(* dotenv_values(): the last assignment of a variable counts.              *)
dotenv_values(file) ==
    [v \in Vars |-> LET i == LastAssignment(file, v)
                    IN  IF i = 0 THEN Unset ELSE file.lines[i].value]

(* The variable is looked for in the whole text.                           *)
Mentions(file, v) == \E l \in Range(file.lines), w \in Vars :
                        (w = v \/ <<v, w>> \in ContainedIn) /\ w \in l.within \union {l.var}

(* The pattern takes a line from its beginning to its end.                 *)
Replaced(file, v, key) ==
    [file EXCEPT !.lines = [i \in DOMAIN @ |-> IF @[i].var = v /\ @[i].form = "plain"
                                               THEN Assignment(v, key) ELSE @[i]]]

(* What is appended to a line without a newline becomes part of its value. *)
Extended(l, v) == [l EXCEPT !.value = Bad, !.within = @ \union {v}]
Appended(file, v, key) ==
    [lines |-> IF file.ragged
               THEN [file.lines EXCEPT ![Len(file.lines)] = Extended(@, v)]
               ELSE Append(file.lines, Assignment(v, key)),
     ragged |-> FALSE]

(* Faulty variant: a variable that is there is left alone.                 *)
KeptIfThere(file, v, key) == IF Mentions(file, v) THEN file ELSE Appended(file, v, key)
(* _offer_save_to_env(), accepted.                                         *)
Saved(file, v, key) ==
    IF Mentions(file, v) THEN Replaced(file, v, key) ELSE Appended(file, v, key)

(* Where Saved() does what its message says: the assignment that counts is *)
(* one it replaces, or the variable is not mentioned and has a line of its *)
(* own to go to.                                                           *)
Savable(file, v) ==
    IF Mentions(file, v)
    THEN LET i == LastAssignment(file, v) IN i # 0 /\ file.lines[i].form = "plain"
    ELSE ~file.ragged

-----------------------------------------------------------------------------
(* load_config(). *)

LayerOf(vars) == [f \in Fields |-> vars[VarOf[f]]]

(* Without a ghost.toml there is no project, and .env is not read either.  *)
EnvValues(s) == dotenv_values(IF s.toml = Unset THEN NoFile ELSE s.dotenv)
TomlLayer(s) == IF s.toml = Unset THEN NoLayer ELSE s.toml

(* The highest first; the commands give no overrides of their own.         *)
Layers(s) == <<LayerOf(s.env), LayerOf(EnvValues(s)), TomlLayer(s), Defaults>>

(* The layers are merged field by field, and only the result is validated. *)
Config(s) ==
    LET layers == Layers(s)
        first(f) == SelectInSeq(layers, LAMBDA l : l[f] # Unset)
    IN  [f \in Fields |-> IF first(f) = 0 THEN Unset ELSE layers[first(f)][f]]

Loads(s) == /\ s.toml # Malformed
            /\ LET config == Config(s)
               IN  config.provider \in Providers /\ config.unknown = Unset

-----------------------------------------------------------------------------
(* Keys. *)

FirstNonblank(names, vars) ==
    LET i == SelectInSeq(names, LAMBDA v : Nonblank(vars[v]))
    IN  IF i = 0 THEN Unset ELSE vars[names[i]]

get_api_key(provider, env) == FirstNonblank(KeyVars[provider], env)

(* ai.api_key is taken as it is, blank or not.                             *)
resolve_api_key(s) ==
    LET config == Config(s)
        candidates == <<IF Truthy(config.api_key) THEN config.api_key ELSE Unset,
                        get_api_key(config.provider, s.env),
                        FirstNonblank(KeyVars[config.provider], EnvValues(s))>>
        i == SelectInSeq(candidates, LAMBDA key : key # Unset)
    IN  IF i = 0 THEN Unset ELSE candidates[i]

resolve_base_url(s) ==
    LET config == Config(s)
        raw(v) == IF Truthy(s.env[v]) THEN s.env[v] ELSE EnvValues(s)[v]
    IN  CASE Truthy(config.base_url) -> config.base_url
          [] ~Truthy(config.base_url) /\ Nonblank(raw("GHOST_BASE_URL")) -> raw("GHOST_BASE_URL")
          [] OTHER -> IF config.provider = "ollama" /\ Nonblank(raw("OLLAMA_HOST"))
                      THEN raw("OLLAMA_HOST") ELSE Unset

-----------------------------------------------------------------------------
(* Providers. *)

Local == {"ollama", "lmstudio"}

(* Whatever its name, it gets the key and the URL of the configuration.    *)
get_provider(name, s) == [name |-> name, api_key |-> resolve_api_key(s),
                          base_url |-> resolve_base_url(s)]

(* is_available() of the providers that need no local server.              *)
is_available(prov) ==
    Nonblank(IF prov.name = "custom" THEN prov.base_url ELSE prov.api_key)

(* _get_client() raises no error of its own.                               *)
HasClient(prov) == CASE prov.name = "custom" -> Nonblank(prov.base_url)
                     [] prov.name \in Local -> TRUE
                     [] OTHER -> Truthy(prov.api_key)

-----------------------------------------------------------------------------
(* The wizard of "ghost init". *)

(* What the user can answer: to use the key of the environment, to type    *)
(* one, or nothing.                                                        *)
KeyAnswers(provider, env) ==
    IF get_api_key(provider, env) # Unset THEN {"use", "type", "skip"}
    ELSE IF provider \in Local THEN {"skip"} ELSE {"type", "skip"}
=============================================================================
