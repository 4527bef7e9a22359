----------------------------- MODULE RuntimeEnv -----------------------------
(***************************************************************************)
(* The launcher, scripts/gemini_run.py: core/infra/runtime_env.py merges   *)
(* four files into the environment of the process, then the launcher       *)
(* replaces itself by the interpreter of the skill's .venv, which starts   *)
(* all over, and calls the dispatcher.  Somebody else (an editor, the      *)
(* installer, another launch) may write the files at any moment.           *)
(***************************************************************************)
EXTENDS Naturals

CONSTANTS
    Keys,               \* CANONICAL_ENV_KEYS
    Values,             \* strings
    NoFile, BadFile,    \* a file that is missing; one that cannot be read
    Contents,           \* what the files may hold
    Interpreters,       \* the files that interpreters really are
    MaxEdits            \* bound of the writes by others

Settings == UNION {[S -> Values] : S \in SUBSET Keys}

ASSUME ContentsAssumption ==
    /\ NoFile \in Contents
    /\ Contents \subseteq Settings \cup {NoFile, BadFile}
    /\ NoFile \notin Settings /\ BadFile \notin Settings \cup {NoFile}
ASSUME EditsAssumption == MaxEdits \in Nat

(* The files in the order in which they are read: a later one wins. *)
Sources == <<"user settings", "project settings", "local settings", "dotenv">>
SourceNames == {Sources[i] : i \in 1..4}

NoSettings == [k \in {} |-> "none"]

(* launches is counted up to here. *)
LaunchCap == 3

(* No interpreter of the skill: .venv does not exist. *)
NoVenv == "no .venv"

VARIABLES
    files,      \* the four files
    environ,    \* os.environ, as far as Keys go
    resolved,   \* resolved_values
    next,       \* the next source to read
    stage,      \* where the launcher is
    path,       \* sys.executable: "host" or "venv"
    host, venv, \* the files that the two paths resolve to
    asRead,     \* history: what the last bootstrap read
    inherited,  \* history: os.environ when it started
    launches,   \* history: how often the launcher has started
    edits       \* the writes by others, of which any number may be past

launchVars == <<files, environ, resolved, next, stage, path, host, venv,
                asRead, inherited, launches, edits>>

Stages == {"bootstrap", "reading", "launch", "main", "error"}

LaunchTypeOK ==
    /\ files \in [SourceNames -> Contents]
    /\ environ \in Settings
    /\ resolved \in Settings
    /\ next \in 1..5
    /\ stage \in Stages
    /\ path \in {"host", "venv"}
    /\ host \in Interpreters
    /\ venv \in Interpreters \cup {NoVenv}
    /\ asRead \in [SourceNames -> Contents]
    /\ inherited \in Settings
    /\ launches \in Nat
    /\ edits \in 0..MaxEdits

LaunchInit ==
    /\ files \in [SourceNames -> Contents]
    /\ environ \in Settings
    /\ resolved = NoSettings
    /\ next = 1
    /\ stage = "bootstrap"
    /\ path = "host"
    /\ host \in Interpreters
    /\ venv \in Interpreters \cup {NoVenv}
    /\ asRead = [s \in SourceNames |-> NoFile]
    /\ inherited = environ
    /\ launches = 1
    /\ edits \in 0..MaxEdits

-----------------------------------------------------------------------------
(* e.update(s) *)
Updated(e, s) ==
    [k \in DOMAIN e \cup DOMAIN s |-> IF k \in DOMAIN s THEN s[k] ELSE e[k]]

(* Mutant of Merged: what is already set wins. *)
MergedBelow(e, content) ==
    IF content = NoFile THEN e ELSE Updated(content, e)

Merged(e, content) == IF content = NoFile THEN e ELSE Updated(e, content)

(* _read_process_env: the environment is the source of lowest precedence. *)
StartBootstrap ==
    /\ stage = "bootstrap"
    /\ resolved' = environ
    /\ inherited' = environ
    /\ next' = 1
    /\ stage' = "reading"
    /\ UNCHANGED <<files, environ, path, host, venv, asRead, launches, edits>>

(* _read_settings_env, _read_env_file: one file; a bad one is an           *)
(* EnvironmentResolutionError, which ends the launcher.                    *)
ReadSource ==
    /\ stage = "reading" /\ next <= 4
    /\ LET s == Sources[next]
       IN  /\ asRead' = [asRead EXCEPT ![s] = files[s]]
           /\ IF files[s] = BadFile
              THEN stage' = "error" /\ UNCHANGED <<resolved, next>>
              ELSE /\ resolved' = Merged(resolved, files[s])
                   /\ next' = next + 1
                   /\ UNCHANGED stage
    /\ UNCHANGED <<files, environ, path, host, venv, inherited, launches, edits>>

(* The file is removed after is_file() and before read_text(), which then  *)
(* raises.                                                                 *)
SourceVanishes ==
    /\ stage = "reading" /\ next <= 4 /\ edits < MaxEdits
    /\ files[Sources[next]] # NoFile
    /\ files' = [files EXCEPT ![Sources[next]] = NoFile]
    /\ edits' = edits + 1
    /\ stage' = "error"
    /\ UNCHANGED <<environ, resolved, next, path, host, venv,
                   asRead, inherited, launches>>

(* bootstrap_runtime_env writes the values into os.environ. *)
ApplyEnvironment ==
    /\ stage = "reading" /\ next = 5
    /\ environ' = Updated(environ, resolved)
    /\ stage' = "launch"
    /\ UNCHANGED <<files, resolved, next, path, host, venv,
                   asRead, inherited, launches, edits>>

-----------------------------------------------------------------------------
Resolved(p) == IF p = "venv" THEN venv ELSE host

(* Mutant of SameInterpreter: nothing stops the next round. *)
NeverSame == FALSE

(* Path(sys.executable).resolve() == venv_python.resolve() *)
SameInterpreter == Resolved(path) = venv

(* _maybe_reexec_under_venv: os.execv keeps the environment, nothing else. *)
ReExec ==
    /\ stage = "launch" /\ venv # NoVenv /\ ~SameInterpreter
    /\ path' = "venv"
    /\ stage' = "bootstrap"
    /\ resolved' = NoSettings
    /\ asRead' = [s \in SourceNames |-> NoFile]
    /\ next' = 1
    /\ launches' = IF launches = LaunchCap THEN launches ELSE launches + 1
    /\ UNCHANGED <<files, environ, host, venv, inherited, edits>>

CallMain ==
    /\ stage = "launch" /\ (venv = NoVenv \/ SameInterpreter)
    /\ stage' = "main"
    /\ UNCHANGED <<files, environ, resolved, next, path, host, venv,
                   asRead, inherited, launches, edits>>

(* Somebody writes one of the files, or removes it. *)
Edit(s, content) ==
    /\ edits < MaxEdits /\ stage \in {"bootstrap", "reading", "launch"}
    /\ files[s] # content
    /\ files' = [files EXCEPT ![s] = content]
    /\ edits' = edits + 1
    /\ UNCHANGED <<environ, resolved, next, stage, path, host, venv,
                   asRead, inherited, launches>>

LaunchStep == StartBootstrap \/ ReadSource \/ ApplyEnvironment \/ ReExec \/ CallMain
LaunchNext == \/ LaunchStep \/ SourceVanishes
              \/ \E s \in SourceNames, c \in Contents : Edit(s, c)

-----------------------------------------------------------------------------
(* The sources that were read and hold k; the winner is the last of them. *)
Holders(k) == {i \in 1..4 : asRead[Sources[i]] \in Settings /\ k \in DOMAIN asRead[Sources[i]]}

(* README.md: "later entries override earlier ones, so ./.env wins and     *)
(* existing process env is the fallback", for each key alone, whatever is  *)
(* written while the files are read and however often they are read; and   *)
(* no command runs on a file that could not be read.                       *)
PrecedenceHolds ==
    stage = "main" =>
        /\ \A s \in SourceNames : asRead[s] # BadFile
        /\ \A k \in Keys :
              IF Holders(k) = {}
              THEN /\ k \in DOMAIN environ <=> k \in DOMAIN inherited
                   /\ k \in DOMAIN environ => environ[k] = inherited[k]
              ELSE \E i \in Holders(k) : /\ \A j \in Holders(k) : j <= i
                                         /\ k \in DOMAIN environ
                                         /\ environ[k] = asRead[Sources[i]][k]

(* gemini_run.py: "Re-exec'ing into the same interpreter would create an   *)
(* infinite loop" -- the launcher replaces itself once at most, wherever   *)
(* the paths lead to.                                                      *)
LaunchesAtMostTwice == launches <= 2

(* docs/architecture.md: "If a skill-local virtual environment exists at   *)
(* .venv/, the launcher re-execs itself under .venv/bin/python."           *)
RunsUnderVenv == stage = "main" /\ venv # NoVenv => path = "venv"
=============================================================================
