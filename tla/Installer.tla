----------------------------- MODULE Installer ------------------------------
(***************************************************************************)
(* core/cli/install_main.py with core/cli/installer: an installer cleans   *)
(* and fills the skill's directory, records what it put there in a         *)
(* manifest, sets up the virtual environment, and merges the skill's       *)
(* environment into the user's settings.json.  Nothing serialises two      *)
(* installers.  Contents are versions: a file that is being copied, or     *)
(* whose copy was cut short, is Torn.                                      *)
(***************************************************************************)
EXTENDS Naturals, Sequences, FiniteSets, Functions

CONSTANTS
    Procs,          \* the installers
    Payload,        \* the paths to copy, in their order
    Dirs,           \* those that are directories
    Requirements,   \* the path that holds requirements.txt
    Stale,          \* paths of an older payload
    DefaultKeys,    \* the keys of CANONICAL_ENV_DEFAULTS
    ApiKey,         \* GEMINI_API_KEY, whose default is empty
    ForeignKey,     \* a key that is none of the skill's
    MaxRuns,        \* bound: how many installations are started
    None,           \* no such file
    Torn,           \* a manifest that was cut short
    Malformed,      \* a settings.json that is no JSON object
    BadEnv          \* one whose env is no object

Paths == Range(Payload) \cup Stale
Keys == DefaultKeys \cup {ForeignKey}
Values == {"empty", "default", "user", "odd", "text", "legacy", "typed"}
EnvsOf(V) == UNION {[K -> V] : K \in SUBSET Keys}
Envs == EnvsOf(Values)
LegacyEnvs == EnvsOf({"empty", "legacy"})
Buffers == EnvsOf({"empty", "legacy", "typed"})
Unreadable == {Malformed, BadEnv}

ASSUME PayloadAssumption ==
    /\ Payload \in Seq(Paths) /\ Len(Payload) > 0
    /\ \A i, j \in DOMAIN Payload : Payload[i] = Payload[j] => i = j
    /\ Dirs \subseteq Range(Payload) /\ Requirements \in Range(Payload)
    /\ Range(Payload) \cap Stale = {}
    /\ ".env" \notin Paths /\ "manifest" \notin Paths
ASSUME KeysAssumption ==
    ApiKey \in DefaultKeys /\ ForeignKey \notin DefaultKeys /\ MaxRuns \in Nat
ASSUME NamesAssumption ==
    /\ None \notin Envs \cup Unreadable /\ Envs \cap Unreadable = {}
    /\ Malformed # BadEnv

VARIABLES
    exists,     \* the install directory
    tree,       \* what is at each path of it
    manifest,   \* .checksums.json: None, Torn or the recorded contents
    dotenv,     \* the legacy .env: None or its values
    venv,       \* .venv: "partial" has no interpreter, "broken" one that fails,
                \* "bare" has no packages
    settings,   \* settings.json: None, unreadable or its env
    backup,     \* settings.json.pre-gemini-skill.bak
    run,        \* what each installer is doing
    runs,       \* how many installations were started
    original,   \* history: settings.json before any installer
    decided,    \* history: the keys that a user gave a value, typed or by "replace"
    sound       \* history: the manifest was written by an installer alone

vars == <<exists, tree, manifest, dotenv, venv, settings, backup, run, runs,
          original, decided, sound>>
history == <<original, decided, sound>>
installed == <<exists, tree, manifest, dotenv, venv>>
user == <<settings, backup>>

(* What str() makes of a value: one of JSON's that is no string, "odd",    *)
(* becomes one (true becomes "True").                                      *)
Text(v) == IF v = "odd" THEN "text" ELSE v

Default(k) == IF k = ApiKey THEN "empty" ELSE "default"
Empty == [k \in {} |-> "empty"]

(* An installer that does not run; one that asks has a terminal and no     *)
(* --yes.                                                                  *)
Idle == [pc |-> "out", asks |-> FALSE, alone |-> TRUE, todo |-> {}, next |-> 1,
         found |-> None, buffer |-> Empty, env |-> Empty]

Pcs == {"out", "ask", "clean", "copy", "copytree", "copying", "list", "hash",
        "record", "venv", "create", "creating", "pip", "legacy",
        "delete", "prompt", "read", "backup", "write_backup", "resolve",
        "write", "installed"}

Manifests == UNION {[S -> {"torn", "old", "new", "values"}] : S \in SUBSET (Paths \cup {".env"})}
SettingsFiles == {None} \cup Unreadable \cup Envs

Installers ==
    [pc : Pcs, asks : BOOLEAN, alone : BOOLEAN,
     todo : SUBSET (Paths \cup {".env", "manifest"}),
     next : 1..(Len(Payload) + 1),
     found : SettingsFiles \cup Manifests,
     buffer : Buffers, env : Envs]

TypeOK ==
    /\ exists \in BOOLEAN
    /\ tree \in [Paths -> {"absent", "torn", "old", "new"}]
    /\ manifest \in {None, Torn} \cup Manifests
    /\ dotenv \in {None} \cup LegacyEnvs
    /\ venv \in {"none", "partial", "broken", "bare", "ready"}
    /\ settings \in SettingsFiles
    /\ backup \in {None, BadEnv} \cup Envs
    /\ run \in [Procs -> Installers]
    /\ runs \in 0..MaxRuns
    /\ original \in SettingsFiles
    /\ decided \subseteq Keys
    /\ sound \in BOOLEAN

(* No installation, or one of an older payload with what goes with it. *)
Init ==
    /\ \/ /\ exists = FALSE
          /\ tree = [x \in Paths |-> "absent"]
          /\ manifest = None /\ dotenv = None /\ venv = "none"
       \/ /\ exists = TRUE
          /\ tree = [x \in Paths |-> "old"]
          /\ manifest = [x \in Paths |-> "old"]
          /\ dotenv \in {None} \cup LegacyEnvs
          /\ venv \in {"none", "partial", "broken", "ready"}
    /\ settings \in {None} \cup Unreadable \cup EnvsOf({"empty", "user", "odd"})
    /\ backup = None
    /\ run = [p \in Procs |-> Idle]
    /\ runs = 0
    /\ original = settings
    /\ decided = {}
    /\ sound = TRUE

(* p goes on as r; an exception that main does not catch ends it. *)
Becomes(p, r) == run' = [run EXCEPT ![p] = r]
Goto(p, l) == Becomes(p, [run[p] EXCEPT !.pc = l])
Fail(p) == Becomes(p, Idle)

-----------------------------------------------------------------------------
(* main: an existing installation is overwritten or left alone. *)
Begin(p) ==
    /\ run[p].pc = "out"
    /\ runs < MaxRuns
    /\ runs' = runs + 1
    /\ \E asks \in BOOLEAN :
          LET others == {q \in Procs \ {p} : run[q].pc # "out"}
          IN  run' = [q \in Procs |->
                  IF q = p THEN [Idle EXCEPT !.asks = asks, !.alone = (others = {}),
                                             !.pc = IF exists THEN "ask" ELSE "copy"]
                  ELSE [run[q] EXCEPT !.alone = run[q].pc = "out"]]
    /\ UNCHANGED <<installed, user, history>>

Entries == {x \in Paths : tree[x] # "absent"}
              \cup (IF manifest = None THEN {} ELSE {"manifest"})

(* These entries are still to be removed; the copying begins when there is *)
(* none.                                                                   *)
Cleans(p, todo) ==
    Becomes(p, [run[p] EXCEPT !.todo = todo, !.pc = IF todo = {} THEN "copy" ELSE "clean"])

(* Mutant of Ask: the old installation is not removed. *)
AskAndKeep(p) ==
    /\ run[p].pc = "ask"
    /\ Goto(p, "copy") \/ Becomes(p, Idle)
    /\ UNCHANGED <<installed, user, runs, history>>

Ask(p) ==
    /\ run[p].pc = "ask"
    /\ \/ Cleans(p, Entries)
       \/ Becomes(p, Idle)
    /\ UNCHANGED <<installed, user, runs, history>>

(* _clean_install_dir_preserve_venv, one entry of its listing.  rmtree of  *)
(* a directory may be cut short.                                           *)
CleanEntry(p) ==
    /\ run[p].pc = "clean"
    /\ \E x \in run[p].todo :
          \/ /\ IF x \notin Entries THEN Fail(p)
                ELSE Cleans(p, run[p].todo \ {x})
             /\ tree' = [y \in Paths |-> IF y = x THEN "absent" ELSE tree[y]]
             /\ manifest' = IF x = "manifest" THEN None ELSE manifest
          \/ /\ x \in Dirs \cap Entries
             /\ tree' = [tree EXCEPT ![x] = "torn"]
             /\ Fail(p) /\ UNCHANGED manifest
    /\ UNCHANGED <<exists, dotenv, venv, user, runs, history>>

(* copy_install_payload: a directory is removed before it is copied.       *)
Copy(p) ==
    /\ run[p].pc = "copy"
    /\ exists' = TRUE
    /\ LET x == Payload[run[p].next]
       IN  IF x \notin Dirs
           THEN tree' = [tree EXCEPT ![x] = "torn"] /\ Goto(p, "copying")
           ELSE \/ tree' = [tree EXCEPT ![x] = "absent"] /\ Goto(p, "copytree")
                \/ /\ tree[x] # "absent"
                   /\ tree' = [tree EXCEPT ![x] = "torn"] /\ Fail(p)
    /\ UNCHANGED <<manifest, dotenv, venv, user, runs, history>>

(* copytree wants no destination. *)
CopyTree(p) ==
    /\ run[p].pc = "copytree"
    /\ LET x == Payload[run[p].next]
       IN  IF tree[x] # "absent" THEN Fail(p) /\ UNCHANGED tree
           ELSE tree' = [tree EXCEPT ![x] = "torn"] /\ Goto(p, "copying")
    /\ UNCHANGED <<exists, manifest, dotenv, venv, user, runs, history>>

(* Mutant of Copied: the manifest is written before the last file is there. *)
CopiedAlmost(p) ==
    /\ run[p].pc = "copying"
    /\ tree' = [tree EXCEPT ![Payload[run[p].next]] = "new"]
    /\ Becomes(p, [run[p] EXCEPT
          !.next = @ + 1,
          !.pc = IF run[p].next >= Len(Payload) - 1 THEN "list" ELSE "copy"])
    /\ UNCHANGED <<exists, manifest, dotenv, venv, user, runs, history>>

(* The copy is complete, unless somebody removed it, or some of it,        *)
(* meanwhile.                                                              *)
Copied(p) ==
    /\ run[p].pc = "copying"
    /\ LET x == Payload[run[p].next]
       IN  IF tree[x] = "absent" THEN Fail(p) /\ UNCHANGED tree
           ELSE /\ \/ tree' = [tree EXCEPT ![x] = "new"]
                   \/ ~run[p].alone /\ tree' = [tree EXCEPT ![x] = "torn"]
                /\ Becomes(p, [run[p] EXCEPT
                      !.next = @ + 1,
                      !.pc = IF run[p].next = Len(Payload) THEN "list" ELSE "copy"])
    /\ UNCHANGED <<exists, manifest, dotenv, venv, user, runs, history>>

-----------------------------------------------------------------------------
Content(x) == IF x = ".env" THEN IF dotenv = None THEN "absent" ELSE "values"
              ELSE tree[x]

(* _iter_manifest_files leaves out the manifest and .venv, not .env. *)
ManifestFiles == {x \in Paths \cup {".env"} : Content(x) # "absent"}

ListFiles(p) ==
    /\ run[p].pc = "list"
    /\ Becomes(p, [run[p] EXCEPT !.pc = "hash", !.todo = ManifestFiles])
    /\ UNCHANGED <<installed, user, runs, history>>

(* write_text empties the file first; an OSError is only a warning. *)
HashFiles(p) ==
    /\ run[p].pc = "hash"
    /\ \/ /\ run[p].todo \subseteq ManifestFiles
          /\ manifest' = Torn
          /\ Becomes(p, [run[p] EXCEPT !.pc = "record",
                                       !.found = [x \in run[p].todo |-> Content(x)]])
       \/ Goto(p, "venv") /\ UNCHANGED manifest
    /\ UNCHANGED <<exists, tree, dotenv, venv, user, runs, history>>

Record(p) ==
    /\ run[p].pc = "record"
    /\ \/ manifest' = run[p].found /\ sound' = run[p].alone
       \/ UNCHANGED <<manifest, sound>>
    /\ Becomes(p, [run[p] EXCEPT !.pc = "venv", !.todo = {}, !.found = None])
    /\ UNCHANGED <<exists, tree, dotenv, venv, user, runs, original, decided>>

(* verify_checksums: the recorded files that have drifted. *)
Mismatches == {x \in DOMAIN manifest : Content(x) # manifest[x]}

(* What the health check says of the installation. *)
Verdict ==
    CASE manifest = None -> "no manifest"
      [] manifest = Torn -> "corrupted"
      [] OTHER -> IF Mismatches = {} THEN "verified" ELSE "drifted"

-----------------------------------------------------------------------------
(* _setup_venv: one whose interpreter fails is removed (rmtree is taken to *)
(* work, its errors being ignored); where there is no interpreter, running *)
(* it raises an OSError that nobody catches.                               *)
ProbeVenv(p) ==
    /\ run[p].pc = "venv"
    /\ \/ /\ tree[Requirements] = "absent"
          /\ Goto(p, "legacy") /\ UNCHANGED venv
       \/ /\ tree[Requirements] # "absent" /\ venv = "partial"
          /\ Fail(p) /\ UNCHANGED venv
       \/ /\ tree[Requirements] # "absent" /\ venv # "partial"
          /\ venv' = IF venv = "broken" THEN "none" ELSE venv
          /\ Goto(p, "create")
    /\ UNCHANGED <<exists, tree, manifest, dotenv, user, runs, history>>

CreateVenv(p) ==
    /\ run[p].pc = "create"
    /\ IF venv = "none"
       THEN venv' = "partial" /\ Goto(p, "creating")
       ELSE UNCHANGED venv /\ Goto(p, "pip")
    /\ UNCHANGED <<exists, tree, manifest, dotenv, user, runs, history>>

(* Every interpreter that fails leaves nothing behind. *)
VenvCreated(p) ==
    /\ run[p].pc = "creating"
    /\ \/ venv' = "bare" /\ Goto(p, "pip")
       \/ venv' = "none" /\ Goto(p, "legacy")
    /\ UNCHANGED <<exists, tree, manifest, dotenv, user, runs, history>>

(* install_requirements and verify_sdk_importable; an InstallError is only *)
(* a warning.                                                              *)
InstallRequirements(p) ==
    /\ run[p].pc = "pip"
    /\ \/ /\ venv \in {"bare", "ready"}
          /\ venv' \in {venv, "ready"} /\ Goto(p, "legacy")
       \/ /\ venv \in {"none", "partial"} /\ tree[Requirements] # "absent"
          /\ Fail(p) /\ UNCHANGED venv
       \/ /\ venv = "broken" \/ tree[Requirements] = "absent"
          /\ Goto(p, "legacy") /\ UNCHANGED venv
    /\ UNCHANGED <<exists, tree, manifest, dotenv, user, runs, history>>

-----------------------------------------------------------------------------
(* migrate_legacy_env_to_settings, into a buffer that is empty. *)
ReadLegacy(p) ==
    /\ run[p].pc = "legacy"
    /\ IF dotenv = None THEN Goto(p, "prompt")
       ELSE Becomes(p, [run[p] EXCEPT !.pc = "delete", !.buffer = dotenv])
    /\ UNCHANGED <<installed, user, runs, history>>

DeleteLegacy(p) ==
    /\ run[p].pc = "delete"
    /\ \/ dotenv' = None
       \/ run[p].asks /\ UNCHANGED dotenv
    /\ Goto(p, "prompt")
    /\ UNCHANGED <<exists, tree, manifest, venv, user, runs, history>>

(* prompt_gemini_api_key: asked only on a terminal; a getpass that would   *)
(* echo ends the settings step with a warning.                             *)
PromptKey(p) ==
    /\ run[p].pc = "prompt"
    /\ \/ Goto(p, "read") /\ (run[p].asks => ApiKey \in DOMAIN run[p].buffer)
       \/ /\ run[p].asks
          /\ \E v \in {"empty", "typed"} :
                Becomes(p, [run[p] EXCEPT !.pc = "read",
                    !.buffer = [k \in DOMAIN @ \cup {ApiKey} |-> IF k = ApiKey THEN v ELSE @[k]]])
       \/ run[p].asks /\ Goto(p, "installed")
    /\ UNCHANGED <<installed, user, runs, history>>

(* merge_settings_env: no lock is held from here to the write. *)
ReadSettings(p) ==
    /\ run[p].pc = "read"
    /\ IF settings = Malformed THEN Fail(p)
       ELSE Becomes(p, [run[p] EXCEPT
               !.found = settings,
               !.pc = IF settings = None THEN "resolve" ELSE "backup"])
    /\ UNCHANGED <<installed, user, runs, history>>

(* Mutant of CheckBackup: every installation makes its own. *)
CheckNoBackup(p) ==
    /\ run[p].pc = "backup"
    /\ Goto(p, "write_backup")
    /\ UNCHANGED <<installed, user, runs, history>>

CheckBackup(p) ==
    /\ run[p].pc = "backup"
    /\ Goto(p, IF backup = None THEN "write_backup" ELSE "resolve")
    /\ UNCHANGED <<installed, user, runs, history>>

WriteBackup(p) ==
    /\ run[p].pc = "write_backup"
    /\ backup' = run[p].found
    /\ Goto(p, "resolve")
    /\ UNCHANGED <<installed, settings, runs, history>>

(* The keys that the buffer sets: empty values are ignored. *)
PreResolved(b) == {k \in DOMAIN b : b[k] # "empty"}

(* The keys for which an existing value has to be confirmed. *)
Conflicts(e, b) ==
    {k \in (DOMAIN e \cap DefaultKeys) \ PreResolved(b) :
        e[k] # "empty" \/ Default(k) # "empty"}

(* Mutant of Merged: a default replaces what the user had. *)
MergedDefaults(e, b, replaced) ==
    [k \in DOMAIN e \cup DefaultKeys \cup PreResolved(b) |->
        IF k \in PreResolved(b) THEN b[k]
        ELSE IF k \in DefaultKeys \cup replaced THEN Default(k)
        ELSE Text(e[k])]

(* The buffer wins, over the user's values and over keys of others too.    *)
Merged(e, b, replaced) ==
    [k \in DOMAIN e \cup DefaultKeys \cup PreResolved(b) |->
        IF k \in PreResolved(b) THEN b[k]
        ELSE IF k \notin DOMAIN e \/ k \in replaced THEN Default(k)
        ELSE Text(e[k])]

Typed(b) == {k \in DOMAIN b : b[k] = "typed"}

(* The user replaces some of the values in conflict, or quits. *)
Resolve(p) ==
    /\ run[p].pc = "resolve"
    /\ IF run[p].found = BadEnv THEN Fail(p) /\ UNCHANGED decided
       ELSE LET e == IF run[p].found = None THEN Empty ELSE run[p].found
                b == run[p].buffer
                conflicts == IF run[p].asks THEN Conflicts(e, b) ELSE {}
            IN  \/ \E replaced \in SUBSET conflicts :
                      /\ Becomes(p, [run[p] EXCEPT !.pc = "write", !.buffer = Empty,
                                                   !.found = None,
                                                   !.env = Merged(e, b, replaced)])
                      /\ decided' = decided \cup replaced \cup Typed(b)
                \/ conflicts # {} /\ Fail(p) /\ UNCHANGED decided
    /\ UNCHANGED <<installed, user, runs, original, sound>>

WriteSettings(p) ==
    /\ run[p].pc = "write"
    /\ settings' = run[p].env
    /\ Becomes(p, [run[p] EXCEPT !.pc = "installed", !.env = Empty])
    /\ UNCHANGED <<installed, backup, runs, history>>

Exit(p) ==
    /\ run[p].pc = "installed"
    /\ Becomes(p, Idle)
    /\ UNCHANGED <<installed, user, runs, history>>

(* Killed, or an exception that nobody catches. *)
Die(p) ==
    /\ run[p].pc # "out"
    /\ Becomes(p, Idle)
    /\ UNCHANGED <<installed, user, runs, history>>

Step(p) ==
    \/ Ask(p) \/ CleanEntry(p)
    \/ Copy(p) \/ CopyTree(p) \/ Copied(p)
    \/ ListFiles(p) \/ HashFiles(p) \/ Record(p)
    \/ ProbeVenv(p) \/ CreateVenv(p) \/ VenvCreated(p) \/ InstallRequirements(p)
    \/ ReadLegacy(p) \/ DeleteLegacy(p) \/ PromptKey(p)
    \/ ReadSettings(p) \/ CheckBackup(p) \/ WriteBackup(p)
    \/ Resolve(p) \/ WriteSettings(p) \/ Exit(p)

Next == \E p \in Procs : Begin(p) \/ Step(p) \/ Die(p)

Spec == Init /\ [][Next]_vars

-----------------------------------------------------------------------------
(* install_main.py: an installation that runs to its end, with no other at *)
(* the same time, leaves the whole new payload, nothing of the old one and *)
(* no broken virtual environment, whatever earlier ones left behind when   *)
(* they died or collided.                                                  *)
InstalledIsComplete ==
    \A p \in Procs : run[p].pc = "installed" /\ run[p].alone =>
        /\ \A x \in Range(Payload) : tree[x] = "new"
        /\ \A x \in Stale : tree[x] = "absent"
        /\ venv \notin {"partial", "broken"}

(* install_main.py, health_main.py: the health check reports no drift only *)
(* of an installation that is complete and of one version, also while and  *)
(* after later ones are interrupted anywhere (the manifest having been     *)
(* written by an installer that was alone).                                *)
CleanVerdictIsRight ==
    Verdict = "verified" /\ sound =>
        \E v \in {"old", "new"} : \A x \in Range(Payload) : tree[x] = v

(* settings_merge.py: the backup is "of the original settings.json ...     *)
(* never overwritten on subsequent runs", although two installers may both *)
(* find that there is none.                                                *)
BackupIsOriginal ==
    original # None => backup \in {None, original}

(* settings_merge.py, "never destroy user data without an explicit r", as  *)
(* far as it goes: unless the user typed or chose another value, a value   *)
(* that settings.json had stays, or what str() makes of it, or the legacy  *)
(* .env's, which replaces it without a question; a file that cannot be     *)
(* understood stays as it is.  Also with two installers that write what    *)
(* they read before.                                                       *)
UserValuesKept ==
    IF original \in Unreadable THEN settings = original
    ELSE original # None =>
        \A k \in DOMAIN original \ decided :
            /\ k \in DOMAIN settings
            /\ settings[k] \in {original[k], Text(original[k]), "legacy"}
=============================================================================
