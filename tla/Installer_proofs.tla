-------------------------- MODULE Installer_proofs --------------------------
(***************************************************************************)
(* What two or more installers guarantee in spite of each other, for any   *)
(* payload, any keys and any number of installers and installations.       *)
(***************************************************************************)
EXTENDS Installer, TLAPS

USE PayloadAssumption, KeysAssumption, NamesAssumption

-----------------------------------------------------------------------------
(* Data. *)
LEMMA PayloadPaths ==
    /\ Len(Payload) \in Nat \ {0} /\ DOMAIN Payload = 1..Len(Payload)
    /\ \A i \in 1..Len(Payload) : Payload[i] \in Range(Payload)
    /\ \A x \in Range(Payload) : \E i \in 1..Len(Payload) : x = Payload[i]
    /\ Range(Payload) \subseteq Paths /\ Stale \subseteq Paths
BY DEF Paths, Range

LEMMA EnvsMake ==
    ASSUME NEW K \in SUBSET Keys, NEW V, NEW e \in [K -> V]
    PROVE  e \in EnvsOf(V)
BY DEF EnvsOf

LEMMA EnvsAre ==
    ASSUME NEW e \in Envs
    PROVE  /\ DOMAIN e \subseteq Keys /\ e \in [DOMAIN e -> Values]
           /\ e # None /\ e \notin Unreadable
BY DEF Envs, EnvsOf

LEMMA BuffersAre ==
    ASSUME NEW b \in Buffers
    PROVE  /\ DOMAIN b \subseteq Keys
           /\ \A k \in DOMAIN b : b[k] \in {"empty", "legacy", "typed"}
BY DEF Buffers, EnvsOf

LEMMA LegacyIsBuffer ==
    ASSUME NEW e \in LegacyEnvs
    PROVE  e \in Buffers
<1>1. PICK K \in SUBSET Keys : e \in [K -> {"empty", "legacy"}]
  BY DEF LegacyEnvs, EnvsOf
<1>2. e \in [K -> {"empty", "legacy", "typed"}]
  BY <1>1
<1> QED
  BY <1>2, EnvsMake DEF Buffers

LEMMA EmptyIsEnv == Empty \in Envs /\ Empty \in Buffers
<1>1. Empty \in [{} -> Values] /\ Empty \in [{} -> {"empty", "legacy", "typed"}]
  BY DEF Empty
<1> QED
  BY <1>1, EnvsMake DEF Envs, Buffers

LEMMA DefaultIsValue == \A k : Default(k) \in Values
BY DEF Default, Values

LEMMA TextIsValue == \A v \in Values : Text(v) \in Values
BY DEF Text, Values

LEMMA MergedIsEnv ==
    ASSUME NEW e \in Envs, NEW b \in Buffers, NEW replaced
    PROVE  Merged(e, b, replaced) \in Envs
<1> DEFINE K == DOMAIN e \cup DefaultKeys \cup PreResolved(b)
<1>1. K \in SUBSET Keys
  BY EnvsAre, BuffersAre DEF Keys, PreResolved
<1>2. \A k \in K : /\ k \in PreResolved(b) => b[k] \in Values
                   /\ k \in DOMAIN e => Text(e[k]) \in Values
                   /\ Default(k) \in Values
  <2>1. \A k \in PreResolved(b) : b[k] \in Values
    BY BuffersAre DEF PreResolved, Values
  <2> QED
    BY <2>1, EnvsAre, TextIsValue, DefaultIsValue
<1>3. Merged(e, b, replaced) \in [K -> Values]
  BY <1>2 DEF Merged
<1> QED
  BY <1>1, <1>3, EnvsMake DEF Envs

LEMMA IdleIsInstaller == Idle \in Installers
BY EmptyIsEnv, PayloadPaths DEF Idle, Installers, Pcs, SettingsFiles

LEMMA IdleFields ==
    /\ Idle.pc = "out" /\ Idle.next = 1 /\ Idle.found = None /\ Idle.alone = TRUE
    /\ 1 \in 1..Len(Payload)
BY PayloadPaths DEF Idle

-----------------------------------------------------------------------------
(* Types. *)
FoundOK(p) ==
    /\ run[p].pc = "record" => run[p].found \in Manifests
    /\ run[p].pc \in {"backup", "write_backup", "resolve"} =>
          run[p].found \in {None, BadEnv} \cup Envs

NextOK(p) ==
    /\ run[p].pc \in {"out", "ask", "clean"} => run[p].next = 1
    /\ run[p].pc \in {"out", "ask", "clean", "copy", "copytree", "copying"} =>
          run[p].next \in 1..Len(Payload)

TypeInv == TypeOK /\ \A p \in Procs : FoundOK(p) /\ NextOK(p)

(* An installer that goes on as r, and the others that do not. *)
LEMMA BecomesOne ==
    ASSUME run \in [Procs -> Installers], NEW p \in Procs, NEW r, Becomes(p, r)
    PROVE  /\ run'[p] = r /\ \A q \in Procs \ {p} : run'[q] = run[q]
           /\ r \in Installers => run' \in [Procs -> Installers]
BY DEF Becomes

LEMMA GotoFields ==
    ASSUME run \in [Procs -> Installers], NEW p \in Procs, NEW l \in Pcs, Goto(p, l)
    PROVE  /\ run' \in [Procs -> Installers]
           /\ run'[p].pc = l /\ run'[p].asks = run[p].asks
           /\ run'[p].alone = run[p].alone /\ run'[p].todo = run[p].todo
           /\ run'[p].next = run[p].next /\ run'[p].found = run[p].found
           /\ run'[p].buffer = run[p].buffer /\ run'[p].env = run[p].env
           /\ \A q \in Procs \ {p} : run'[q] = run[q]
<1>1. [run[p] EXCEPT !.pc = l] \in Installers
  BY DEF Installers
<1> QED
  BY <1>1, BecomesOne DEF Goto, Installers

LEMMA FailFields ==
    ASSUME run \in [Procs -> Installers], NEW p \in Procs, Fail(p) \/ Becomes(p, Idle)
    PROVE  /\ run' \in [Procs -> Installers]
           /\ run'[p] = Idle /\ run'[p].pc = "out"
           /\ \A q \in Procs \ {p} : run'[q] = run[q]
<1>1. Becomes(p, Idle)
  BY DEF Fail
<1> QED
  BY <1>1, BecomesOne, IdleIsInstaller DEF Idle

(* Only p has moved: then p alone has to be looked at. *)
LEMMA OneMoves ==
    ASSUME TypeInv, NEW p \in Procs, \A q \in Procs \ {p} : run'[q] = run[q],
           TypeOK', FoundOK(p)', NextOK(p)'
    PROVE  TypeInv'
BY DEF TypeInv, FoundOK, NextOK

LEMMA GotoTypes ==
    ASSUME TypeInv, NEW p \in Procs, NEW l \in Pcs, Goto(p, l),
           UNCHANGED <<settings, backup, runs, history>>,
           exists' \in BOOLEAN,
           tree' \in [Paths -> {"absent", "torn", "old", "new"}],
           manifest' \in {None, Torn} \cup Manifests,
           dotenv' \in {None} \cup LegacyEnvs,
           venv' \in {"none", "partial", "broken", "bare", "ready"},
           l \in {"copy", "copytree", "copying"} => NextOK(p) /\ run[p].next \in 1..Len(Payload),
           l \in {"backup", "write_backup", "resolve"} => run[p].found \in {None, BadEnv} \cup Envs,
           l \notin {"record", "out", "ask", "clean"}
    PROVE  TypeInv'
<1>1. run \in [Procs -> Installers]
  BY DEF TypeInv, TypeOK
<1>2. TypeOK'
  BY <1>1, GotoFields DEF TypeInv, TypeOK, history
<1> QED
  BY <1>1, <1>2, GotoFields, OneMoves DEF FoundOK, NextOK

LEMMA FailTypes ==
    ASSUME TypeInv, NEW p \in Procs, Fail(p) \/ Becomes(p, Idle),
           UNCHANGED <<settings, backup, runs, history>>,
           exists' \in BOOLEAN,
           tree' \in [Paths -> {"absent", "torn", "old", "new"}],
           manifest' \in {None, Torn} \cup Manifests,
           dotenv' \in {None} \cup LegacyEnvs,
           venv' \in {"none", "partial", "broken", "bare", "ready"}
    PROVE  TypeInv'
<1>1. run \in [Procs -> Installers]
  BY DEF TypeInv, TypeOK
<1>2. TypeOK'
  BY <1>1, FailFields DEF TypeInv, TypeOK, history
<1>3. FoundOK(p)' /\ NextOK(p)'
  BY <1>1, FailFields, IdleFields DEF FoundOK, NextOK
<1> QED
  BY <1>1, <1>2, <1>3, FailFields, OneMoves

LEMMA TypesInit == Init => TypeInv
<1> SUFFICES ASSUME Init
             PROVE  TypeInv
  OBVIOUS
<1>1. run \in [Procs -> Installers] /\ \A p \in Procs : FoundOK(p) /\ NextOK(p)
  <2>1. run = [p \in Procs |-> Idle]
    BY DEF Init
  <2> QED
    BY <2>1, IdleIsInstaller, IdleFields DEF FoundOK, NextOK
<1>2. exists \in BOOLEAN /\ tree \in [Paths -> {"absent", "torn", "old", "new"}]
  BY DEF Init
<1>3. manifest \in {None, Torn} \cup Manifests
  <2>1. [x \in Paths |-> "old"] \in [Paths -> {"torn", "old", "new", "values"}]
    OBVIOUS
  <2>2. [x \in Paths |-> "old"] \in Manifests
    BY <2>1 DEF Manifests
  <2> QED
    BY <2>2 DEF Init
<1>4. dotenv \in {None} \cup LegacyEnvs
  BY DEF Init
<1>5. settings \in SettingsFiles
  <2>1. ASSUME NEW K \in SUBSET Keys, NEW e \in [K -> {"empty", "user", "odd"}]
        PROVE  e \in Envs
    <3>1. e \in [K -> Values]
      BY DEF Values
    <3> QED
      BY <3>1, EnvsMake DEF Envs
  <2>2. EnvsOf({"empty", "user", "odd"}) \subseteq Envs
    BY <2>1 DEF EnvsOf
  <2> QED
    BY <2>2 DEF Init, SettingsFiles
<1> QED
  BY <1>1, <1>2, <1>3, <1>4, <1>5 DEF Init, TypeInv, TypeOK

LEMMA InstallerMake ==
    ASSUME NEW c \in Installers, NEW l \in Pcs
    PROVE  /\ \A n \in 1..(Len(Payload) + 1) : [c EXCEPT !.next = n, !.pc = l] \in Installers
           /\ \A t \in SUBSET (Paths \cup {".env", "manifest"}) :
                 [c EXCEPT !.todo = t, !.pc = l] \in Installers
BY DEF Installers

LEMMA ResolvedMake ==
    ASSUME NEW c \in Installers, NEW m \in Envs
    PROVE  LET r == [c EXCEPT !.pc = "write", !.buffer = Empty, !.found = None, !.env = m]
           IN  r \in Installers /\ r.pc = "write" /\ r.env = m
BY EmptyIsEnv DEF Installers, Pcs, SettingsFiles

LEMMA AloneMake ==
    ASSUME NEW c \in Installers, NEW a \in BOOLEAN
    PROVE  LET r == [c EXCEPT !.alone = a]
           IN  /\ r \in Installers /\ r.alone = a
               /\ r.pc = c.pc /\ r.todo = c.todo /\ r.next = c.next
               /\ r.found = c.found /\ r.env = c.env /\ r.buffer = c.buffer
BY DEF Installers

LEMMA PayloadNext ==
    ASSUME TypeInv, NEW p \in Procs, run[p].pc \in {"copy", "copytree", "copying"}
    PROVE  /\ run[p].next \in 1..Len(Payload)
           /\ Payload[run[p].next] \in Range(Payload) /\ Payload[run[p].next] \in Paths
BY PayloadPaths DEF TypeInv, NextOK

LEMMA CopyTypes ==
    ASSUME TypeInv, NEW p \in Procs, Copy(p) \/ CopyTree(p) \/ Copied(p)
    PROVE  TypeInv'
<1> DEFINE x == Payload[run[p].next]
           Kinds == {"absent", "torn", "old", "new"}
<1>1. /\ run[p].pc \in {"copy", "copytree", "copying"}
      /\ run[p].next \in 1..Len(Payload) /\ x \in Paths
  <2>1. run[p].pc \in {"copy", "copytree", "copying"}
    BY DEF Copy, CopyTree, Copied
  <2> QED
    BY <2>1, PayloadNext
<1>2. /\ UNCHANGED <<manifest, dotenv, venv, settings, backup, runs, history>>
      /\ exists' \in BOOLEAN /\ tree' \in [Paths -> Kinds]
  <2>1. tree \in [Paths -> Kinds] /\ exists \in BOOLEAN
    BY DEF TypeInv, TypeOK
  <2>2. UNCHANGED <<manifest, dotenv, venv, settings, backup, runs, history>> /\ exists' \in BOOLEAN
    BY <2>1 DEF Copy, CopyTree, Copied, user
  <2>3. tree' = tree \/ \E c \in Kinds : tree' = [tree EXCEPT ![x] = c]
    BY DEF Copy, CopyTree, Copied
  <2> QED
    BY <2>1, <2>2, <2>3
<1>3. /\ manifest \in {None, Torn} \cup Manifests /\ dotenv \in {None} \cup LegacyEnvs
      /\ venv \in {"none", "partial", "broken", "bare", "ready"}
      /\ run[p] \in Installers /\ run \in [Procs -> Installers]
  BY DEF TypeInv, TypeOK
<1>4. NextOK(p) /\ FoundOK(p)
  BY DEF TypeInv
<1>5. CASE Fail(p)
  BY <1>2, <1>3, <1>5, FailTypes
<1>6. CASE Goto(p, "copying") \/ Goto(p, "copytree")
  BY <1>1, <1>2, <1>3, <1>4, <1>6, GotoTypes DEF Pcs
<1>7. CASE Copied(p) /\ ~Fail(p)
  <2> DEFINE r == [run[p] EXCEPT !.next = @ + 1,
                      !.pc = IF run[p].next = Len(Payload) THEN "list" ELSE "copy"]
  <2>1. Becomes(p, r)
    BY <1>7 DEF Copied
  <2>2. r.pc = (IF run[p].next = Len(Payload) THEN "list" ELSE "copy") /\ r.next = run[p].next + 1
    BY <1>3 DEF Installers
  <2>3. r \in Installers
    <3>1. (IF run[p].next = Len(Payload) THEN "list" ELSE "copy") \in Pcs
      BY DEF Pcs
    <3>2. run[p].next + 1 \in 1..(Len(Payload) + 1)
      BY <1>1, PayloadPaths
    <3> QED
      BY <1>3, <3>1, <3>2, InstallerMake
  <2>4. run'[p] = r /\ run' \in [Procs -> Installers] /\ \A q \in Procs \ {p} : run'[q] = run[q]
    BY <1>3, <2>1, <2>3, BecomesOne
  <2>5. r.pc = "copy" => r.next \in 1..Len(Payload)
    BY <1>1, <2>2, PayloadPaths
  <2>6. FoundOK(p)' /\ NextOK(p)'
    BY <2>2, <2>4, <2>5 DEF FoundOK, NextOK
  <2>7. TypeOK'
    BY <1>2, <1>3, <2>4 DEF TypeInv, TypeOK, history
  <2> QED
    BY <2>4, <2>6, <2>7, OneMoves
<1> QED
  BY <1>5, <1>6, <1>7 DEF Copy, CopyTree, Copied

LEMMA EntriesAre == Entries \subseteq Paths \cup {"manifest"}
BY DEF Entries

(* Cleans, field by field. *)
LEMMA CleansFields ==
    ASSUME run \in [Procs -> Installers], NEW p \in Procs,
           NEW todo \in SUBSET (Paths \cup {".env", "manifest"}), Cleans(p, todo)
    PROVE  /\ run' \in [Procs -> Installers]
           /\ run'[p].pc = IF todo = {} THEN "copy" ELSE "clean"
           /\ run'[p].todo = todo /\ run'[p].next = run[p].next
           /\ run'[p].alone = run[p].alone
           /\ \A q \in Procs \ {p} : run'[q] = run[q]
<1> DEFINE r == [run[p] EXCEPT !.todo = todo, !.pc = IF todo = {} THEN "copy" ELSE "clean"]
<1>0. (IF todo = {} THEN "copy" ELSE "clean") \in Pcs
  BY DEF Pcs
<1>1. r \in Installers
  BY <1>0, InstallerMake
<1>2. run'[p] = r /\ run' \in [Procs -> Installers] /\ \A q \in Procs \ {p} : run'[q] = run[q]
  BY <1>1, BecomesOne DEF Cleans
<1> QED
  BY <1>2 DEF Installers

LEMMA CleanTypes ==
    ASSUME TypeInv, NEW p \in Procs, Ask(p) \/ CleanEntry(p)
    PROVE  TypeInv'
<1> DEFINE Kinds == {"absent", "torn", "old", "new"}
<1>1. /\ run \in [Procs -> Installers] /\ run[p] \in Installers
      /\ run[p].pc \in {"ask", "clean"} /\ run[p].next = 1 /\ run[p].next \in 1..Len(Payload)
      /\ tree \in [Paths -> Kinds] /\ manifest \in {None, Torn} \cup Manifests
  BY DEF TypeInv, TypeOK, NextOK, Ask, CleanEntry
<1>2. /\ UNCHANGED <<exists, dotenv, venv, settings, backup, runs, history>>
      /\ tree' \in [Paths -> Kinds] /\ manifest' \in {None, Torn} \cup Manifests
  <2>1. CASE Ask(p)
    BY <1>1, <2>1 DEF Ask, user, installed
  <2>2. CASE CleanEntry(p)
    BY <1>1, <2>2 DEF CleanEntry, user
  <2> QED
    BY <2>1, <2>2
<1>3. /\ exists \in BOOLEAN /\ dotenv \in {None} \cup LegacyEnvs
      /\ venv \in {"none", "partial", "broken", "bare", "ready"}
  BY DEF TypeInv, TypeOK
<1>4. CASE Fail(p) \/ Becomes(p, Idle)
  BY <1>2, <1>3, <1>4, FailTypes
<1>5. CASE \E todo \in SUBSET (Paths \cup {".env", "manifest"}) : Cleans(p, todo)
  <2> PICK todo \in SUBSET (Paths \cup {".env", "manifest"}) : Cleans(p, todo)
    BY <1>5
  <2>1. /\ run' \in [Procs -> Installers]
        /\ run'[p].pc \in {"copy", "clean"} /\ run'[p].next = run[p].next
        /\ \A q \in Procs \ {p} : run'[q] = run[q]
    BY <1>1, CleansFields
  <2>2. FoundOK(p)' /\ NextOK(p)'
    BY <1>1, <2>1 DEF FoundOK, NextOK
  <2>3. TypeOK'
    BY <1>2, <1>3, <2>1 DEF TypeInv, TypeOK, history
  <2> QED
    BY <2>1, <2>2, <2>3, OneMoves
<1>6. Fail(p) \/ Becomes(p, Idle) \/ \E todo \in SUBSET (Paths \cup {".env", "manifest"}) : Cleans(p, todo)
  <2>1. CASE Ask(p)
    BY <2>1, EntriesAre DEF Ask
  <2>2. CASE CleanEntry(p)
    <3>1. \A x : run[p].todo \ {x} \in SUBSET (Paths \cup {".env", "manifest"})
      BY <1>1 DEF Installers
    <3>2. Fail(p) \/ \E x : Cleans(p, run[p].todo \ {x})
      BY <2>2 DEF CleanEntry
    <3> QED
      BY <3>1, <3>2
  <2> QED
    BY <2>1, <2>2
<1> QED
  BY <1>4, <1>5, <1>6

LEMMA ManifestFilesAre ==
    ASSUME TypeInv
    PROVE  /\ ManifestFiles \subseteq Paths \cup {".env"}
           /\ \A x \in ManifestFiles : Content(x) \in {"torn", "old", "new", "values"}
BY DEF ManifestFiles, Content, TypeInv, TypeOK

LEMMA ManifestTypes ==
    ASSUME TypeInv, NEW p \in Procs, ListFiles(p) \/ HashFiles(p) \/ Record(p)
    PROVE  TypeInv'
<1>1. /\ run \in [Procs -> Installers] /\ run[p] \in Installers
      /\ FoundOK(p) /\ TypeOK
  BY DEF TypeInv, TypeOK
<1>2. CASE ListFiles(p)
  <2> DEFINE r == [run[p] EXCEPT !.pc = "hash", !.todo = ManifestFiles]
  <2>1. r \in Installers /\ r.pc = "hash"
    BY <1>1, ManifestFilesAre DEF Installers, Pcs
  <2>2. run'[p] = r /\ run' \in [Procs -> Installers] /\ \A q \in Procs \ {p} : run'[q] = run[q]
    BY <1>1, <1>2, <2>1, BecomesOne DEF ListFiles
  <2>3. FoundOK(p)' /\ NextOK(p)'
    BY <2>1, <2>2 DEF FoundOK, NextOK
  <2>4. TypeOK'
    BY <1>1, <1>2, <2>2 DEF ListFiles, TypeOK, installed, user, history
  <2> QED
    BY <2>2, <2>3, <2>4, OneMoves
<1>3. CASE HashFiles(p) /\ ~Goto(p, "venv")
  <2> DEFINE m == [x \in run[p].todo |-> Content(x)]
             r == [run[p] EXCEPT !.pc = "record", !.found = m]
  <2>1. run[p].todo \subseteq ManifestFiles /\ Becomes(p, r) /\ manifest' = Torn
    BY <1>3 DEF HashFiles
  <2>2. m \in Manifests
    <3>1. run[p].todo \in SUBSET (Paths \cup {".env"})
      BY <2>1, ManifestFilesAre
    <3>2. m \in [run[p].todo -> {"torn", "old", "new", "values"}]
      BY <2>1, ManifestFilesAre
    <3> QED
      BY <3>1, <3>2 DEF Manifests
  <2>3. r \in Installers /\ r.pc = "record" /\ r.found = m
    <3> HIDE DEF m
    <3> QED
      BY <1>1, <2>2 DEF Installers, Pcs
  <2>4. run'[p] = r /\ run' \in [Procs -> Installers] /\ \A q \in Procs \ {p} : run'[q] = run[q]
    BY <1>1, <2>1, <2>3, BecomesOne
  <2>5. FoundOK(p)' /\ NextOK(p)'
    BY <2>2, <2>3, <2>4 DEF FoundOK, NextOK
  <2>6. TypeOK'
    BY <1>1, <1>3, <2>1, <2>4 DEF HashFiles, TypeOK, user, history
  <2> QED
    BY <2>4, <2>5, <2>6, OneMoves
<1>4. CASE Record(p)
  <2> DEFINE r == [run[p] EXCEPT !.pc = "venv", !.todo = {}, !.found = None]
  <2>1. r \in Installers /\ r.pc = "venv"
    BY <1>1 DEF Installers, Pcs, SettingsFiles
  <2>2. run'[p] = r /\ run' \in [Procs -> Installers] /\ \A q \in Procs \ {p} : run'[q] = run[q]
    BY <1>1, <1>4, <2>1, BecomesOne DEF Record
  <2>3. FoundOK(p)' /\ NextOK(p)'
    BY <2>1, <2>2 DEF FoundOK, NextOK
  <2>4. manifest' \in {None, Torn} \cup Manifests /\ sound' \in BOOLEAN
    BY <1>1, <1>4 DEF Record, FoundOK, TypeOK, Installers
  <2>5. TypeOK'
    BY <1>1, <1>4, <2>2, <2>4 DEF Record, TypeOK, user
  <2> QED
    BY <2>2, <2>3, <2>5, OneMoves
<1>5. CASE HashFiles(p) /\ Goto(p, "venv")
  BY <1>1, <1>5, GotoTypes DEF HashFiles, TypeOK, user, Pcs
<1> QED
  BY <1>2, <1>3, <1>4, <1>5

LEMMA VenvTypes ==
    ASSUME TypeInv, NEW p \in Procs,
           ProbeVenv(p) \/ CreateVenv(p) \/ VenvCreated(p) \/ InstallRequirements(p)
    PROVE  TypeInv'
<1>1. TypeOK
  BY DEF TypeInv
<1>2. /\ UNCHANGED <<exists, tree, manifest, dotenv, settings, backup, runs, history>>
      /\ venv' \in {"none", "partial", "broken", "bare", "ready"}
  BY <1>1 DEF ProbeVenv, CreateVenv, VenvCreated, InstallRequirements, TypeOK, user
<1>3. CASE Fail(p)
  BY <1>1, <1>2, <1>3, FailTypes DEF TypeOK
<1>4. CASE Goto(p, "legacy") \/ Goto(p, "create") \/ Goto(p, "creating") \/ Goto(p, "pip")
  BY <1>1, <1>2, <1>4, GotoTypes DEF TypeOK, Pcs
<1> QED
  BY <1>3, <1>4 DEF ProbeVenv, CreateVenv, VenvCreated, InstallRequirements

LEMMA KeyTypes ==
    ASSUME TypeInv, NEW p \in Procs, ReadLegacy(p) \/ DeleteLegacy(p) \/ PromptKey(p)
    PROVE  TypeInv'
<1>1. TypeOK /\ run \in [Procs -> Installers] /\ run[p] \in Installers
  BY DEF TypeInv, TypeOK
<1>2. /\ UNCHANGED <<exists, tree, manifest, venv, settings, backup, runs, history>>
      /\ dotenv' \in {None} \cup LegacyEnvs
  BY <1>1 DEF ReadLegacy, DeleteLegacy, PromptKey, TypeOK, user, installed
<1>3. CASE Goto(p, "prompt") \/ Goto(p, "read") \/ Goto(p, "installed")
  BY <1>1, <1>2, <1>3, GotoTypes DEF TypeOK, Pcs
<1>4. ASSUME NEW b \in Buffers, NEW l \in {"delete", "read"},
             Becomes(p, [run[p] EXCEPT !.pc = l, !.buffer = b])
      PROVE  TypeInv'
  <2> DEFINE r == [run[p] EXCEPT !.pc = l, !.buffer = b]
  <2>1. r \in Installers /\ r.pc = l
    BY <1>1 DEF Installers, Pcs
  <2>2. run'[p] = r /\ run' \in [Procs -> Installers] /\ \A q \in Procs \ {p} : run'[q] = run[q]
    BY <1>1, <1>4, <2>1, BecomesOne
  <2>3. FoundOK(p)' /\ NextOK(p)'
    BY <2>1, <2>2 DEF FoundOK, NextOK
  <2>4. TypeOK'
    BY <1>1, <1>2, <2>2 DEF TypeOK, history
  <2> QED
    BY <2>2, <2>3, <2>4, OneMoves
<1>5. CASE ReadLegacy(p) /\ ~Goto(p, "prompt")
  <2>1. dotenv \in LegacyEnvs /\ Becomes(p, [run[p] EXCEPT !.pc = "delete", !.buffer = dotenv])
    BY <1>1, <1>5 DEF ReadLegacy, TypeOK
  <2> QED
    BY <1>4, <2>1, LegacyIsBuffer
<1>6. CASE PromptKey(p) /\ ~Goto(p, "read") /\ ~Goto(p, "installed")
  <2> PICK v \in {"empty", "typed"} :
           Becomes(p, [run[p] EXCEPT !.pc = "read",
               !.buffer = [k \in DOMAIN @ \cup {ApiKey} |-> IF k = ApiKey THEN v ELSE @[k]]])
    BY <1>6 DEF PromptKey
  <2> DEFINE old == run[p].buffer
             b == [k \in DOMAIN old \cup {ApiKey} |-> IF k = ApiKey THEN v ELSE old[k]]
  <2>1. /\ DOMAIN old \subseteq Keys
        /\ \A k \in DOMAIN old : old[k] \in {"empty", "legacy", "typed"}
    BY <1>1, BuffersAre DEF Installers
  <2>2. DOMAIN old \cup {ApiKey} \in SUBSET Keys
    BY <2>1 DEF Keys
  <2>3. b \in [DOMAIN old \cup {ApiKey} -> {"empty", "legacy", "typed"}]
    BY <2>1
  <2>4. b \in Buffers
    BY <2>2, <2>3, EnvsMake DEF Buffers
  <2>5. Becomes(p, [run[p] EXCEPT !.pc = "read", !.buffer = b])
    OBVIOUS
  <2> QED
    BY <1>4, <2>4, <2>5
<1> QED
  BY <1>3, <1>5, <1>6 DEF ReadLegacy, DeleteLegacy, PromptKey

LEMMA SettingsTypes ==
    ASSUME TypeInv, NEW p \in Procs,
           ReadSettings(p) \/ CheckBackup(p) \/ WriteBackup(p) \/ Resolve(p) \/ WriteSettings(p)
    PROVE  TypeInv'
<1>1. TypeOK /\ run \in [Procs -> Installers] /\ run[p] \in Installers /\ FoundOK(p)
  BY DEF TypeInv, TypeOK
<1>2. /\ UNCHANGED <<exists, tree, manifest, dotenv, venv, runs, original, sound>>
  BY DEF ReadSettings, CheckBackup, WriteBackup, Resolve, WriteSettings, installed, user, history
<1>3. CASE Fail(p) /\ UNCHANGED <<settings, backup, history>>
  BY <1>1, <1>2, <1>3, FailTypes DEF TypeOK
<1>4. CASE ReadSettings(p) /\ ~Fail(p)
  <2> DEFINE r == [run[p] EXCEPT !.found = settings,
                                 !.pc = IF settings = None THEN "resolve" ELSE "backup"]
  <2>1. settings \in {None, BadEnv} \cup Envs /\ Becomes(p, r)
    BY <1>1, <1>4 DEF ReadSettings, TypeOK, SettingsFiles, Unreadable
  <2>2. (IF settings = None THEN "resolve" ELSE "backup") \in Pcs
    BY DEF Pcs
  <2>3. r \in Installers
    BY <1>1, <2>2 DEF Installers, TypeOK
  <2>4. r.pc \in {"resolve", "backup"} /\ r.found = settings
    BY <1>1 DEF Installers
  <2>5. run'[p] = r /\ run' \in [Procs -> Installers] /\ \A q \in Procs \ {p} : run'[q] = run[q]
    BY <1>1, <2>1, <2>3, BecomesOne
  <2>6. FoundOK(p)' /\ NextOK(p)'
    BY <2>1, <2>4, <2>5 DEF FoundOK, NextOK
  <2>7. TypeOK'
    BY <1>1, <1>4, <2>5 DEF ReadSettings, TypeOK, installed, user, history
  <2> QED
    BY <2>5, <2>6, <2>7, OneMoves
<1>5. CASE CheckBackup(p)
  <2>1. PICK l \in {"write_backup", "resolve"} : Goto(p, l)
    BY <1>5 DEF CheckBackup
  <2>2. run[p].found \in {None, BadEnv} \cup Envs /\ UNCHANGED <<installed, user, runs, history>>
    BY <1>1, <1>5 DEF CheckBackup, FoundOK
  <2> QED
    BY <1>1, <2>1, <2>2, GotoTypes DEF TypeOK, Pcs, installed, user
<1>6. CASE WriteBackup(p)
  <2>1. /\ run[p].found \in {None, BadEnv} \cup Envs /\ backup' = run[p].found
        /\ Goto(p, "resolve") /\ UNCHANGED <<settings, history>>
    BY <1>1, <1>6 DEF WriteBackup, FoundOK
  <2>2. /\ run' \in [Procs -> Installers] /\ run'[p].pc = "resolve"
        /\ run'[p].found = run[p].found /\ \A q \in Procs \ {p} : run'[q] = run[q]
    BY <1>1, <2>1, GotoFields DEF Pcs
  <2>3. FoundOK(p)' /\ NextOK(p)'
    BY <2>1, <2>2 DEF FoundOK, NextOK
  <2>4. TypeOK'
    BY <1>1, <1>2, <2>1, <2>2 DEF TypeOK, history
  <2> QED
    BY <2>2, <2>3, <2>4, OneMoves
<1>7. CASE Resolve(p) /\ ~(Fail(p) /\ UNCHANGED decided)
  <2> DEFINE e == IF run[p].found = None THEN Empty ELSE run[p].found
             b == run[p].buffer
             conflicts == IF run[p].asks THEN Conflicts(e, b) ELSE {}
  <2>1. PICK replaced \in SUBSET conflicts :
            /\ Becomes(p, [run[p] EXCEPT !.pc = "write", !.buffer = Empty,
                                         !.found = None, !.env = Merged(e, b, replaced)])
            /\ decided' = decided \cup replaced \cup Typed(b)
    BY <1>7 DEF Resolve
  <2>2. run[p].found # BadEnv
    BY <1>7 DEF Resolve
  <2>3. e \in Envs /\ b \in Buffers
    BY <1>1, <1>7, <2>2, EmptyIsEnv DEF Resolve, FoundOK, Installers
  <2>4. Merged(e, b, replaced) \in Envs
    BY <2>3, MergedIsEnv
  <2> DEFINE r == [run[p] EXCEPT !.pc = "write", !.buffer = Empty,
                                 !.found = None, !.env = Merged(e, b, replaced)]
  <2>5. r \in Installers /\ r.pc = "write"
    BY <1>1, <2>4, ResolvedMake
  <2>6. run'[p] = r /\ run' \in [Procs -> Installers] /\ \A q \in Procs \ {p} : run'[q] = run[q]
    BY <1>1, <2>1, <2>5, BecomesOne
  <2>7. FoundOK(p)' /\ NextOK(p)'
    BY <2>5, <2>6 DEF FoundOK, NextOK
  <2>8. decided' \subseteq Keys
    <3>1. replaced \subseteq DefaultKeys
      BY <2>1 DEF Conflicts
    <3>2. Typed(b) \subseteq Keys
      BY <2>3, BuffersAre DEF Typed
    <3> QED
      BY <1>1, <2>1, <3>1, <3>2 DEF TypeOK, Keys
  <2>9. TypeOK'
    BY <1>1, <1>2, <1>7, <2>6, <2>8 DEF Resolve, TypeOK, user
  <2> QED
    BY <2>6, <2>7, <2>9, OneMoves
<1>8. CASE WriteSettings(p)
  <2> DEFINE r == [run[p] EXCEPT !.pc = "installed", !.env = Empty]
  <2>1. r \in Installers /\ r.pc = "installed" /\ run[p].env \in Envs
    BY <1>1, EmptyIsEnv DEF Installers, Pcs
  <2>2. run'[p] = r /\ run' \in [Procs -> Installers] /\ \A q \in Procs \ {p} : run'[q] = run[q]
    BY <1>1, <1>8, <2>1, BecomesOne DEF WriteSettings
  <2>3. FoundOK(p)' /\ NextOK(p)'
    BY <2>1, <2>2 DEF FoundOK, NextOK
  <2>4. TypeOK'
    BY <1>1, <1>2, <1>8, <2>1, <2>2 DEF WriteSettings, TypeOK, SettingsFiles, history
  <2> QED
    BY <2>2, <2>3, <2>4, OneMoves
<1>9. ReadSettings(p) /\ Fail(p) => UNCHANGED <<settings, backup, history>>
  BY DEF ReadSettings, user
<1>10. Resolve(p) /\ Fail(p) /\ UNCHANGED decided => UNCHANGED <<settings, backup, history>>
  BY DEF Resolve, user, history
<1> QED
  BY <1>3, <1>4, <1>5, <1>6, <1>7, <1>8, <1>9, <1>10

(* Begin, field by field. *)
LEMMA BeginFields ==
    ASSUME run \in [Procs -> Installers], NEW p \in Procs, Begin(p)
    PROVE  /\ run' \in [Procs -> Installers]
           /\ run'[p].pc = (IF exists THEN "ask" ELSE "copy") /\ run'[p].next = 1
           /\ run'[p].alone <=> \A q \in Procs \ {p} : run[q].pc = "out"
           /\ \A q \in Procs \ {p} :
                 /\ run'[q].pc = run[q].pc
                 /\ run'[q].alone <=> run[q].pc = "out"
                 /\ run'[q].next = run[q].next /\ run'[q].found = run[q].found
                 /\ run'[q].env = run[q].env
<1>1. PICK asks \in BOOLEAN :
          run' = [q \in Procs |->
              IF q = p THEN [Idle EXCEPT !.asks = asks,
                                !.alone = ({o \in Procs \ {p} : run[o].pc # "out"} = {}),
                                !.pc = IF exists THEN "ask" ELSE "copy"]
              ELSE [run[q] EXCEPT !.alone = run[q].pc = "out"]]
  BY DEF Begin
<1> DEFINE alone == {o \in Procs \ {p} : run[o].pc # "out"} = {}
           start == IF exists THEN "ask" ELSE "copy"
           r == [Idle EXCEPT !.asks = asks, !.alone = alone, !.pc = start]
<1>2. r \in Installers /\ r.pc = start /\ r.next = 1 /\ r.alone = alone
  <2>1. alone \in BOOLEAN /\ start \in Pcs
    BY DEF Pcs
  <2> HIDE DEF alone, start
  <2> QED
    BY <2>1, IdleIsInstaller, IdleFields DEF Installers
<1>3. run'[p] = r
  BY <1>1
<1>4. ASSUME NEW q \in Procs \ {p}
      PROVE  /\ run'[q] \in Installers
             /\ run'[q].pc = run[q].pc
             /\ run'[q].alone <=> run[q].pc = "out"
             /\ run'[q].next = run[q].next /\ run'[q].found = run[q].found
             /\ run'[q].env = run[q].env
  <2> DEFINE a == (run[q].pc = "out")
  <2>1. run'[q] = [run[q] EXCEPT !.alone = a]
    BY <1>1
  <2>2. a \in BOOLEAN /\ run[q] \in Installers
    OBVIOUS
  <2>3. run'[q].alone = a
    <3> HIDE DEF a
    <3> QED
      BY <2>1, <2>2, AloneMake
  <2> HIDE DEF a
  <2>4. /\ run'[q] \in Installers /\ run'[q].pc = run[q].pc /\ run'[q].next = run[q].next
        /\ run'[q].found = run[q].found /\ run'[q].env = run[q].env
    BY <2>1, <2>2, AloneMake
  <2> QED
    BY <2>3, <2>4 DEF a
<1>5. run' \in [Procs -> Installers]
  <2>1. \A q \in Procs : run'[q] \in Installers
    BY <1>2, <1>3, <1>4
  <2> HIDE DEF r
  <2> QED
    BY <1>1, <2>1
<1>6. alone <=> \A q \in Procs \ {p} : run[q].pc = "out"
  OBVIOUS
<1> QED
  <2> HIDE DEF r
  <2> QED
    BY <1>2, <1>3, <1>4, <1>5, <1>6

LEMMA BeginTypes ==
    ASSUME TypeInv, NEW p \in Procs, Begin(p)
    PROVE  TypeInv'
<1>1. TypeOK /\ run \in [Procs -> Installers]
  BY DEF TypeInv, TypeOK
<1>2. \A q \in Procs : FoundOK(q)' /\ NextOK(q)'
  <2> TAKE q \in Procs
  <2>1. CASE q = p
    BY <2>1, <1>1, BeginFields, IdleFields DEF FoundOK, NextOK
  <2>2. CASE q # p
    BY <2>2, <1>1, BeginFields DEF TypeInv, FoundOK, NextOK
  <2> QED
    BY <2>1, <2>2
<1>3. runs' \in 0..MaxRuns
  <2>1. runs < MaxRuns /\ runs' = runs + 1
    BY DEF Begin
  <2> QED
    BY <1>1, <2>1 DEF TypeOK
<1>4. TypeOK'
  BY <1>1, <1>3, BeginFields DEF Begin, TypeOK, installed, user, history
<1> QED
  BY <1>2, <1>4 DEF TypeInv

LEMMA EndTypes ==
    ASSUME TypeInv, NEW p \in Procs, Exit(p) \/ Die(p)
    PROVE  TypeInv'
<1>1. TypeOK
  BY DEF TypeInv
<1>2. Becomes(p, Idle) /\ UNCHANGED <<installed, user, runs, history>>
  BY DEF Exit, Die
<1> QED
  BY <1>1, <1>2, FailTypes DEF TypeOK, installed, user

LEMMA TypesStep == TypeInv /\ [Next]_vars => TypeInv'
<1> SUFFICES ASSUME TypeInv, [Next]_vars
             PROVE  TypeInv'
  OBVIOUS
<1>1. ASSUME NEW p \in Procs, Begin(p) \/ Step(p) \/ Die(p)
      PROVE  TypeInv'
  BY <1>1, BeginTypes, CleanTypes, CopyTypes, ManifestTypes, VenvTypes, KeyTypes,
     SettingsTypes, EndTypes DEF Step
<1>2. CASE UNCHANGED vars
  BY <1>2 DEF vars, TypeInv, TypeOK, FoundOK, NextOK
<1> QED
  BY <1>1, <1>2 DEF Next

(* Every variable of every installer stays in its type. *)
THEOREM TypesHold == Spec => []TypeOK
<1>1. TypeInv => TypeOK
  BY DEF TypeInv
<1> QED
  BY <1>1, TypesInit, TypesStep, PTL DEF Spec

-----------------------------------------------------------------------------
(* The settings.  Only the last five steps are about them.                 *)
MergePcs == {"backup", "write_backup", "resolve", "write"}

SettingsStep(p) ==
    ReadSettings(p) \/ CheckBackup(p) \/ WriteBackup(p) \/ Resolve(p) \/ WriteSettings(p)

(* What an installer in the midst of them knows does not change. *)
Keeps(q) ==
    run'[q].pc \in MergePcs =>
        run'[q].pc = run[q].pc /\ run'[q].found = run[q].found /\ run'[q].env = run[q].env

(* Where p goes when it is elsewhere. *)
LEMMA PlaceElsewhere ==
    ASSUME TypeInv, NEW p \in Procs, Step(p) \/ Die(p), ~SettingsStep(p)
    PROVE  /\ UNCHANGED <<settings, backup, original, decided>>
           /\ run'[p].pc \notin MergePcs
           /\ \A q \in Procs \ {p} : run'[q] = run[q]
           /\ run'[p].pc = "out" \/ run'[p].alone = run[p].alone
<1> DEFINE Moves == /\ run'[p].pc \notin MergePcs
                    /\ \A q \in Procs \ {p} : run'[q] = run[q]
                    /\ run'[p].pc = "out" \/ run'[p].alone = run[p].alone
<1>1. run \in [Procs -> Installers] /\ run[p] \in Installers
  BY DEF TypeInv, TypeOK
<1>2. ASSUME NEW l \in Pcs \ MergePcs, Goto(p, l)
      PROVE  Moves
  BY <1>1, <1>2, GotoFields
<1>3. ASSUME Fail(p) \/ Becomes(p, Idle)
      PROVE  Moves
  BY <1>1, <1>3, FailFields DEF MergePcs
<1>4. ASSUME NEW r, Becomes(p, r), r.pc \notin MergePcs, r.alone = run[p].alone
      PROVE  Moves
  BY <1>1, <1>4, BecomesOne
<1>5. CASE Ask(p) \/ CleanEntry(p)
  <2>1. UNCHANGED <<settings, backup, original, decided>>
    BY <1>5 DEF Ask, CleanEntry, user, history
  <2>2. ASSUME NEW todo, Cleans(p, todo)
        PROVE  Moves
    <3> DEFINE r == [run[p] EXCEPT !.todo = todo, !.pc = IF todo = {} THEN "copy" ELSE "clean"]
    <3>1. r.pc \in {"copy", "clean"} /\ r.alone = run[p].alone
      BY <1>1 DEF Installers
    <3> QED
      BY <1>4, <2>2, <3>1 DEF Cleans, MergePcs
  <2> QED
    BY <1>3, <1>5, <2>1, <2>2 DEF Ask, CleanEntry
<1>6. CASE Copy(p) \/ CopyTree(p)
  <2>1. UNCHANGED <<settings, backup, original, decided>>
    BY <1>6 DEF Copy, CopyTree, user, history
  <2>2. Goto(p, "copying") \/ Goto(p, "copytree") \/ Fail(p)
    BY <1>6 DEF Copy, CopyTree
  <2> QED
    BY <1>2, <1>3, <2>1, <2>2 DEF Pcs, MergePcs
<1>7. CASE Copied(p)
  <2> DEFINE r == [run[p] EXCEPT !.next = @ + 1,
                      !.pc = IF run[p].next = Len(Payload) THEN "list" ELSE "copy"]
  <2>1. UNCHANGED <<settings, backup, original, decided>> /\ (Fail(p) \/ Becomes(p, r))
    BY <1>7 DEF Copied, user, history
  <2>2. r.pc \in {"list", "copy"} /\ r.alone = run[p].alone
    BY <1>1 DEF Installers
  <2> QED
    BY <1>3, <1>4, <2>1, <2>2 DEF MergePcs
<1>8. CASE ListFiles(p) \/ HashFiles(p) \/ Record(p)
  <2>1. UNCHANGED <<settings, backup, original, decided>>
    BY <1>8 DEF ListFiles, HashFiles, Record, user, history
  <2>2. CASE ListFiles(p)
    <3> DEFINE r == [run[p] EXCEPT !.pc = "hash", !.todo = ManifestFiles]
    <3>1. r.pc = "hash" /\ r.alone = run[p].alone /\ Becomes(p, r)
      BY <1>1, <2>2 DEF ListFiles, Installers
    <3> QED
      BY <1>4, <2>1, <3>1 DEF MergePcs
  <2>3. CASE HashFiles(p)
    <3> DEFINE r == [run[p] EXCEPT !.pc = "record", !.found = [x \in run[p].todo |-> Content(x)]]
    <3>1. r.pc = "record" /\ r.alone = run[p].alone /\ (Becomes(p, r) \/ Goto(p, "venv"))
      BY <1>1, <2>3 DEF HashFiles, Installers
    <3> QED
      BY <1>2, <1>4, <2>1, <3>1 DEF MergePcs, Pcs
  <2>4. CASE Record(p)
    <3> DEFINE r == [run[p] EXCEPT !.pc = "venv", !.todo = {}, !.found = None]
    <3>1. r.pc = "venv" /\ r.alone = run[p].alone /\ Becomes(p, r)
      BY <1>1, <2>4 DEF Record, Installers
    <3> QED
      BY <1>4, <2>1, <3>1 DEF MergePcs
  <2> QED
    BY <1>8, <2>2, <2>3, <2>4
<1>9. CASE ProbeVenv(p) \/ CreateVenv(p) \/ VenvCreated(p) \/ InstallRequirements(p)
  <2>1. UNCHANGED <<settings, backup, original, decided>>
    BY <1>9 DEF ProbeVenv, CreateVenv, VenvCreated, InstallRequirements, user, history
  <2>2. \/ Goto(p, "legacy") \/ Goto(p, "create") \/ Goto(p, "creating") \/ Goto(p, "pip")
        \/ Fail(p)
    BY <1>9 DEF ProbeVenv, CreateVenv, VenvCreated, InstallRequirements
  <2> QED
    BY <1>2, <1>3, <2>1, <2>2 DEF Pcs, MergePcs
<1>10. CASE ReadLegacy(p) \/ DeleteLegacy(p) \/ PromptKey(p)
  <2>1. UNCHANGED <<settings, backup, original, decided>>
    BY <1>10 DEF ReadLegacy, DeleteLegacy, PromptKey, user, history
  <2>2. CASE Goto(p, "prompt") \/ Goto(p, "read") \/ Goto(p, "installed")
    BY <1>2, <2>1, <2>2 DEF Pcs, MergePcs
  <2>3. CASE \E b, l : l \in {"delete", "read"} /\ Becomes(p, [run[p] EXCEPT !.pc = l, !.buffer = b])
    <3> PICK b, l : l \in {"delete", "read"} /\ Becomes(p, [run[p] EXCEPT !.pc = l, !.buffer = b])
      BY <2>3
    <3>1. /\ [run[p] EXCEPT !.pc = l, !.buffer = b].pc = l
          /\ [run[p] EXCEPT !.pc = l, !.buffer = b].alone = run[p].alone
      BY <1>1 DEF Installers
    <3> QED
      BY <1>4, <2>1, <3>1 DEF MergePcs
  <2> QED
    BY <1>10, <2>2, <2>3 DEF ReadLegacy, DeleteLegacy, PromptKey
<1>11. CASE Exit(p) \/ Die(p)
  BY <1>3, <1>11 DEF Exit, Die, user, history
<1> QED
  BY <1>5, <1>6, <1>7, <1>8, <1>9, <1>10, <1>11 DEF Step, SettingsStep

LEMMA Elsewhere ==
    ASSUME TypeInv, NEW p \in Procs, Begin(p) \/ Step(p) \/ Die(p), ~SettingsStep(p)
    PROVE  UNCHANGED <<settings, backup, original, decided>> /\ \A q \in Procs : Keeps(q)
<1>1. CASE Step(p) \/ Die(p)
  BY <1>1, PlaceElsewhere DEF Keeps
<1>2. CASE Begin(p)
  <2>1. UNCHANGED <<settings, backup, original, decided>>
    BY <1>2 DEF Begin, user, history
  <2>2. run \in [Procs -> Installers]
    BY DEF TypeInv, TypeOK
  <2> QED
    BY <2>1, <2>2, <1>2, BeginFields DEF Keeps, MergePcs
<1> QED
  BY <1>1, <1>2

(* s has the values of the user where he gave no other, or the .env's. *)
KeptIn(s, o, d) ==
    IF o \in Unreadable THEN s = o
    ELSE \A k \in DOMAIN o \ d : k \in DOMAIN s /\ s[k] \in {o[k], Text(o[k]), "legacy"}

Kept(s) == KeptIn(s, original, decided)

(* Where a backup is made of what was found, nobody has written yet.       *)
Knows(p) ==
    /\ run[p].pc = "backup" => backup # None \/ run[p].found = original
    /\ run[p].pc = "write_backup" => run[p].found = original
    /\ run[p].pc \in {"resolve", "write"} => backup # None
    /\ run[p].pc \in {"backup", "write_backup", "resolve"} =>
          run[p].found # None /\ Kept(run[p].found)
    /\ run[p].pc = "write" => Kept(run[p].env)

UserInv ==
    original # None =>
        /\ settings # None /\ Kept(settings)
        /\ backup \in {None, original}
        /\ backup = None => settings = original
        /\ \A p \in Procs : Knows(p)

LEMMA UserInit == Init => UserInv
<1> SUFFICES ASSUME Init, original # None
             PROVE  UserInv
  BY DEF UserInv
<1>1. settings = original /\ backup = None /\ Kept(settings)
  BY DEF Init, Kept, KeptIn
<1>2. \A p \in Procs : run[p].pc = "out"
  BY IdleFields DEF Init
<1> QED
  BY <1>1, <1>2 DEF UserInv, Knows

(* A merge replaces only values that it was told to replace. *)
LEMMA MergedKeeps ==
    ASSUME NEW e \in Envs, NEW b \in Buffers, NEW replaced, Kept(e),
           original \notin Unreadable, original' = original,
           decided' = decided \cup replaced \cup Typed(b)
    PROVE  KeptIn(Merged(e, b, replaced), original, decided')
<1> SUFFICES ASSUME NEW k \in DOMAIN original \ decided'
             PROVE  /\ k \in DOMAIN Merged(e, b, replaced)
                    /\ Merged(e, b, replaced)[k] \in {original[k], Text(original[k]), "legacy"}
  BY DEF Kept, KeptIn
<1>1. /\ k \in DOMAIN e /\ k \notin replaced /\ k \notin Typed(b)
      /\ e[k] \in {original[k], Text(original[k]), "legacy"}
  BY DEF Kept, KeptIn
<1>2. k \in PreResolved(b) => b[k] = "legacy"
  BY <1>1, BuffersAre DEF PreResolved, Typed
<1>3. Text(e[k]) \in {Text(original[k]), "legacy"}
  BY <1>1 DEF Text
<1>4. Merged(e, b, replaced)[k] = IF k \in PreResolved(b) THEN b[k] ELSE Text(e[k])
  BY <1>1 DEF Merged
<1> QED
  BY <1>1, <1>2, <1>3, <1>4 DEF Merged

(* A step of p, after which only p knows something new. *)
LEMMA OneLearns ==
    ASSUME UserInv, original # None, NEW p \in Procs,
           \A q \in Procs \ {p} : run'[q] = run[q],
           UNCHANGED <<original, decided>>,
           backup # None => backup' # None,
           settings' # None, Kept(settings)', backup' \in {None, original},
           backup' = None => settings' = original,
           Knows(p)'
    PROVE  UserInv'
<1>1. \A q \in Procs \ {p} : Knows(q)'
  BY DEF UserInv, Knows, Kept, KeptIn
<1> QED
  BY <1>1 DEF UserInv

LEMMA UserStep == TypeInv /\ UserInv /\ [Next]_vars => UserInv'
<1> SUFFICES ASSUME TypeInv, UserInv, [Next]_vars, original' # None
             PROVE  UserInv'
  BY DEF UserInv
<1>1. original' = original /\ original # None
  BY DEF Next, Begin, Step, Die, Ask, CleanEntry, Copy, CopyTree, Copied, ListFiles,
     HashFiles, Record, ProbeVenv, CreateVenv, VenvCreated, InstallRequirements,
     ReadLegacy, DeleteLegacy, PromptKey, ReadSettings, CheckBackup, WriteBackup,
     Resolve, WriteSettings, Exit, history, vars
<1>2. /\ settings # None /\ Kept(settings) /\ backup \in {None, original}
      /\ backup = None => settings = original
      /\ \A p \in Procs : Knows(p)
  BY <1>1 DEF UserInv
<1>3. TypeOK /\ run \in [Procs -> Installers] /\ \A p \in Procs : run[p] \in Installers /\ FoundOK(p)
  BY DEF TypeInv, TypeOK
<1>4. ASSUME NEW p \in Procs, Begin(p) \/ Step(p) \/ Die(p), ~SettingsStep(p)
      PROVE  UserInv'
  <2>1. UNCHANGED <<settings, backup, original, decided>> /\ \A q \in Procs : Keeps(q)
    BY <1>4, Elsewhere
  <2>2. \A q \in Procs : Knows(q)'
    BY <1>2, <2>1 DEF Knows, Keeps, MergePcs, Kept, KeptIn
  <2> QED
    BY <1>2, <2>1, <2>2 DEF UserInv, Kept, KeptIn
<1>5. ASSUME NEW p \in Procs, Fail(p), UNCHANGED <<settings, backup, original, decided>>
      PROVE  UserInv'
  <2>1. run'[p].pc = "out" /\ \A q \in Procs \ {p} : run'[q] = run[q]
    BY <1>3, <1>5, FailFields
  <2>2. Knows(p)'
    BY <2>1 DEF Knows
  <2> QED
    BY <1>1, <1>2, <1>5, <2>1, <2>2, OneLearns DEF Kept, KeptIn
<1>6. ASSUME NEW p \in Procs, ReadSettings(p), ~Fail(p)
      PROVE  UserInv'
  <2> DEFINE r == [run[p] EXCEPT !.found = settings,
                                 !.pc = IF settings = None THEN "resolve" ELSE "backup"]
  <2>1. Becomes(p, r) /\ UNCHANGED <<settings, backup, original, decided>>
    BY <1>6 DEF ReadSettings, user, history
  <2>2. r.pc = "backup" /\ r.found = settings
    BY <1>2, <1>3 DEF Installers
  <2>3. run'[p] = r /\ \A q \in Procs \ {p} : run'[q] = run[q]
    BY <1>3, <2>1, BecomesOne
  <2>4. Knows(p)'
    BY <1>2, <2>1, <2>2, <2>3 DEF Knows, Kept, KeptIn
  <2> QED
    BY <1>1, <1>2, <2>1, <2>3, <2>4, OneLearns DEF Kept, KeptIn
<1>7. ASSUME NEW p \in Procs, CheckBackup(p)
      PROVE  UserInv'
  <2>1. /\ run[p].pc = "backup" /\ UNCHANGED <<settings, backup, original, decided>>
        /\ Goto(p, IF backup = None THEN "write_backup" ELSE "resolve")
    BY <1>7 DEF CheckBackup, user, history
  <2>2. /\ run'[p].pc = (IF backup = None THEN "write_backup" ELSE "resolve")
        /\ run'[p].found = run[p].found /\ \A q \in Procs \ {p} : run'[q] = run[q]
    BY <1>3, <2>1, GotoFields DEF Pcs
  <2>3. Knows(p)'
    BY <1>2, <2>1, <2>2 DEF Knows, Kept, KeptIn
  <2> QED
    BY <1>1, <1>2, <2>1, <2>2, <2>3, OneLearns DEF Kept, KeptIn
<1>8. ASSUME NEW p \in Procs, WriteBackup(p)
      PROVE  UserInv'
  <2>1. /\ run[p].pc = "write_backup" /\ backup' = run[p].found /\ Goto(p, "resolve")
        /\ UNCHANGED <<settings, original, decided>>
    BY <1>8 DEF WriteBackup, history
  <2>2. run[p].found = original
    BY <1>2, <2>1 DEF Knows
  <2>3. /\ run'[p].pc = "resolve" /\ run'[p].found = run[p].found
        /\ \A q \in Procs \ {p} : run'[q] = run[q]
    BY <1>3, <2>1, GotoFields DEF Pcs
  <2>4. Knows(p)'
    BY <1>1, <1>2, <2>1, <2>2, <2>3 DEF Knows, Kept, KeptIn
  <2> QED
    BY <1>1, <1>2, <2>1, <2>2, <2>3, <2>4, OneLearns DEF Kept, KeptIn
<1>9. ASSUME NEW p \in Procs, Resolve(p), ~(Fail(p) /\ UNCHANGED decided)
      PROVE  UserInv'
  <2> DEFINE e == IF run[p].found = None THEN Empty ELSE run[p].found
             b == run[p].buffer
             conflicts == IF run[p].asks THEN Conflicts(e, b) ELSE {}
  <2>1. PICK replaced \in SUBSET conflicts :
            /\ Becomes(p, [run[p] EXCEPT !.pc = "write", !.buffer = Empty,
                                         !.found = None, !.env = Merged(e, b, replaced)])
            /\ decided' = decided \cup replaced \cup Typed(b)
    BY <1>9 DEF Resolve
  <2>2. /\ run[p].pc = "resolve" /\ run[p].found # BadEnv
        /\ UNCHANGED <<settings, backup, original>>
    BY <1>9 DEF Resolve, user
  <2>3. run[p].found # None /\ Kept(run[p].found) /\ backup # None
    BY <1>2, <2>2 DEF Knows
  <2>4. e = run[p].found /\ e \in Envs /\ b \in Buffers
    BY <1>3, <2>2, <2>3 DEF FoundOK, Installers
  <2>5. original \notin Unreadable
    BY <2>3, <2>4, EnvsAre DEF Kept, KeptIn
  <2> DEFINE m == Merged(e, b, replaced)
  <2>6. KeptIn(m, original, decided')
    <3>1. Kept(e)
      BY <2>3, <2>4
    <3> HIDE DEF e, b, conflicts
    <3> QED
      BY <2>1, <2>2, <2>4, <2>5, <3>1, MergedKeeps
  <2>7. m \in Envs
    BY <2>4, MergedIsEnv
  <2>8. /\ run'[p].pc = "write" /\ run'[p].env = m
        /\ \A q \in Procs \ {p} : run'[q] = run[q]
    <3>1. Becomes(p, [run[p] EXCEPT !.pc = "write", !.buffer = Empty, !.found = None, !.env = m])
      BY <2>1
    <3> HIDE DEF m
    <3> DEFINE r == [run[p] EXCEPT !.pc = "write", !.buffer = Empty, !.found = None, !.env = m]
    <3>2. r \in Installers /\ r.pc = "write" /\ r.env = m
      BY <1>3, <2>7, ResolvedMake
    <3>3. run'[p] = r /\ \A q \in Procs \ {p} : run'[q] = run[q]
      BY <1>3, <3>1, BecomesOne
    <3> QED
      BY <3>2, <3>3
  <2>9. Knows(p)'
    <3>1. Kept(run[p].env)'
      BY <2>2, <2>6, <2>8 DEF Kept
    <3> QED
      BY <2>2, <2>3, <2>8, <3>1 DEF Knows
  <2>11. ASSUME NEW q \in Procs \ {p} PROVE Knows(q)'
    <3>1. run'[q] = run[q] /\ Knows(q)
      BY <1>2, <2>8
    <3>2. Kept(run[q].found) => Kept(run[q].found)'
      BY <2>1, <2>2, <3>1 DEF Kept, KeptIn
    <3>3. Kept(run[q].env) => Kept(run[q].env)'
      BY <2>1, <2>2, <3>1 DEF Kept, KeptIn
    <3> QED
      BY <2>2, <3>1, <3>2, <3>3 DEF Knows
  <2>12. Kept(settings)'
    BY <1>2, <2>1, <2>2 DEF Kept, KeptIn
  <2> QED
    BY <1>1, <1>2, <2>2, <2>9, <2>11, <2>12 DEF UserInv
<1>10. ASSUME NEW p \in Procs, WriteSettings(p)
      PROVE  UserInv'
  <2> DEFINE r == [run[p] EXCEPT !.pc = "installed", !.env = Empty]
  <2>1. /\ run[p].pc = "write" /\ settings' = run[p].env /\ Becomes(p, r)
        /\ UNCHANGED <<backup, original, decided>>
    BY <1>10 DEF WriteSettings, history
  <2>2. r.pc = "installed" /\ run[p].env \in Envs
    BY <1>3 DEF Installers
  <2>3. run'[p] = r /\ \A q \in Procs \ {p} : run'[q] = run[q]
    BY <1>3, <2>1, BecomesOne
  <2>4. backup # None /\ Kept(run[p].env)
    BY <1>2, <2>1 DEF Knows
  <2>5. Knows(p)'
    BY <2>2, <2>3 DEF Knows
  <2>6. settings' # None /\ Kept(settings)'
    BY <2>1, <2>2, <2>4, EnvsAre DEF Kept, KeptIn
  <2> QED
    BY <1>1, <1>2, <2>1, <2>3, <2>4, <2>5, <2>6, OneLearns
<1>11. ASSUME NEW p \in Procs, SettingsStep(p)
       PROVE  UserInv'
  <2>1. ReadSettings(p) /\ Fail(p) => UNCHANGED <<settings, backup, original, decided>>
    BY DEF ReadSettings, user, history
  <2>2. Resolve(p) /\ Fail(p) /\ UNCHANGED decided => UNCHANGED <<settings, backup, original, decided>>
    BY DEF Resolve, user
  <2> QED
    BY <1>5, <1>6, <1>7, <1>8, <1>9, <1>10, <1>11, <2>1, <2>2 DEF SettingsStep
<1>12. CASE UNCHANGED vars
  BY <1>12 DEF vars, UserInv, Knows, Kept, KeptIn
<1> QED
  BY <1>4, <1>11, <1>12 DEF Next

LEMMA UserHolds == Spec => [](TypeInv /\ UserInv)
BY TypesInit, TypesStep, UserInit, UserStep, PTL DEF Spec

(* settings_merge.py: however many installers run and die, at the same     *)
(* time or one after the other, the backup is of the settings that were    *)
(* there before all of them.                                               *)
THEOREM BackupsAreOriginal == Spec => []BackupIsOriginal
<1>1. UserInv => BackupIsOriginal
  BY DEF UserInv, BackupIsOriginal
<1> QED
  BY <1>1, UserHolds, PTL

(* settings_merge.py: no interleaving of reads, prompts and writes loses a *)
(* value that settings.json had, but to the user's own choice or to the    *)
(* legacy .env; what is no string becomes one.                             *)
THEOREM ValuesAreKept == Spec => []UserValuesKept
<1>1. ASSUME TypeInv, UserInv PROVE UserValuesKept
  BY <1>1 DEF UserInv, UserValuesKept, Kept, KeptIn, TypeInv, TypeOK, Unreadable
<1> QED
  BY <1>1, UserHolds, PTL

-----------------------------------------------------------------------------
(* The installation. *)
After == {"legacy", "delete", "prompt", "read", "installed"} \cup MergePcs
VenvDone == {"create", "pip"} \cup After
Late == {"list", "hash", "record", "venv", "creating"} \cup VenvDone

MadeOf(m, v) == \A x \in Range(Payload) : x \in DOMAIN m /\ m[x] = v

(* How far an installer is that nobody has disturbed. *)
Undisturbed(p) ==
    /\ run[p].pc = "clean" => Entries \subseteq run[p].todo
    /\ run[p].pc \in {"copy", "copytree", "copying"} \cup Late =>
          /\ \A x \in Stale : tree[x] = "absent"
          /\ \A i \in 1..(run[p].next - 1) : tree[Payload[i]] = "new"
    /\ run[p].pc \in Late => run[p].next = Len(Payload) + 1
    /\ run[p].pc = "hash" => Range(Payload) \subseteq run[p].todo
    /\ run[p].pc = "record" => MadeOf(run[p].found, "new")
    /\ run[p].pc \in VenvDone => venv \notin {"partial", "broken"}

Alone(p) == run[p].pc # "out" /\ run[p].alone

Solo == \A p \in Procs : Alone(p) => \A q \in Procs \ {p} : run[q].pc = "out"

There ==
    /\ ~exists => \A x \in Paths : tree[x] = "absent"
    /\ \A p \in Procs : run[p].pc \in {"copytree", "copying"} => exists

ManifestOK ==
    manifest \notin {None, Torn} /\ sound => \E v \in {"old", "new"} : MadeOf(manifest, v)

InstallInv ==
    /\ Solo /\ There /\ ManifestOK
    /\ \A p \in Procs : Alone(p) => Undisturbed(p)

LEMMA InstallInit == Init => InstallInv
<1> SUFFICES ASSUME Init
             PROVE  InstallInv
  OBVIOUS
<1>1. \A p \in Procs : run[p].pc = "out"
  BY IdleFields DEF Init
<1>2. There
  BY <1>1 DEF There, Init
<1>3. ManifestOK
  BY PayloadPaths DEF ManifestOK, Init, MadeOf
<1> QED
  BY <1>1, <1>2, <1>3 DEF InstallInv, Solo, Alone

(* When p moves and is alone, only p has to be looked at; when it is not,  *)
(* nobody is alone.                                                        *)
LEMMA OneInstalls ==
    ASSUME TypeInv, InstallInv, NEW p \in Procs, run[p].pc # "out",
           \A q \in Procs \ {p} : run'[q] = run[q],
           run'[p].pc = "out" \/ run'[p].alone = run[p].alone,
           There', ManifestOK',
           Alone(p) /\ run'[p].pc # "out" => Undisturbed(p)'
    PROVE  InstallInv'
<1>1. ASSUME NEW q \in Procs, Alone(q)'
      PROVE  Undisturbed(q)' /\ \A o \in Procs \ {q} : run'[o].pc = "out"
  <2>1. CASE q = p
    BY <1>1, <2>1 DEF Alone, InstallInv, Solo
  <2>2. CASE q # p
    BY <1>1, <2>2 DEF Alone, InstallInv, Solo
  <2> QED
    BY <2>1, <2>2
<1> QED
  BY <1>1 DEF InstallInv, Solo

LEMMA FailInstall ==
    ASSUME TypeInv, InstallInv, NEW p \in Procs, run[p].pc # "out",
           Fail(p) \/ Becomes(p, Idle), ManifestOK', exists' = exists,
           exists \/ UNCHANGED tree
    PROVE  InstallInv'
<1>1. run'[p].pc = "out" /\ \A q \in Procs \ {p} : run'[q] = run[q]
  BY FailFields DEF TypeInv, TypeOK
<1>2. There'
  BY <1>1 DEF InstallInv, There
<1> QED
  BY <1>1, <1>2, OneInstalls

LEMMA BeginInstall ==
    ASSUME TypeInv, InstallInv, NEW p \in Procs, Begin(p)
    PROVE  InstallInv'
<1>1. run \in [Procs -> Installers]
  BY DEF TypeInv, TypeOK
<1>2. UNCHANGED <<exists, tree, manifest, venv, sound>> /\ run[p].pc = "out"
  BY DEF Begin, installed, history
<1>3. ManifestOK'
  BY <1>2 DEF InstallInv, ManifestOK, MadeOf
<1>4. There'
  <2>1. ASSUME NEW q \in Procs, run'[q].pc \in {"copytree", "copying"}
        PROVE  run[q].pc = run'[q].pc
    BY <1>1, <2>1, BeginFields
  <2> QED
    BY <1>2, <2>1 DEF InstallInv, There
<1>5. \A q \in Procs \ {p} : ~Alone(q)'
  BY <1>1, BeginFields DEF Alone
<1>6. ASSUME Alone(p)'
      PROVE  Undisturbed(p)' /\ \A q \in Procs \ {p} : run'[q].pc = "out"
  <2>1. \A q \in Procs \ {p} : run'[q].pc = "out"
    BY <1>1, <1>6, BeginFields DEF Alone
  <2>2. run'[p].next = 1 /\ run'[p].pc = (IF exists THEN "ask" ELSE "copy")
    BY <1>1, BeginFields
  <2>3. ~exists => \A x \in Stale : tree[x] = "absent"
    BY PayloadPaths DEF InstallInv, There
  <2>4. Undisturbed(p)'
    BY <1>2, <2>2, <2>3 DEF Undisturbed, Late, VenvDone, After, MergePcs
  <2> QED
    BY <2>1, <2>4
<1> QED
  BY <1>3, <1>4, <1>5, <1>6 DEF InstallInv, Solo

LEMMA CleanInstall ==
    ASSUME TypeInv, InstallInv, NEW p \in Procs, Ask(p) \/ CleanEntry(p)
    PROVE  InstallInv'
<1>1. /\ run \in [Procs -> Installers] /\ run[p] \in Installers
      /\ run[p].pc \in {"ask", "clean"} /\ run[p].next = 1 /\ run[p].next \in 1..Len(Payload)
      /\ tree \in [Paths -> {"absent", "torn", "old", "new"}]
  BY DEF TypeInv, TypeOK, NextOK, Ask, CleanEntry
<1>2. exists' = exists /\ venv' = venv /\ sound' = sound
  BY DEF Ask, CleanEntry, installed, history
<1>3. manifest' \in {None, manifest}
  BY DEF Ask, CleanEntry, installed
<1>4. ManifestOK'
  BY <1>2, <1>3 DEF InstallInv, ManifestOK, MadeOf
<1>5. exists \/ UNCHANGED tree
  <2> SUFFICES ASSUME ~exists
               PROVE  tree' = tree
    OBVIOUS
  <2>1. \A x \in Paths : tree[x] = "absent"
    BY DEF InstallInv, There
  <2>2. Dirs \cap Entries = {}
    BY <2>1, PayloadPaths DEF Entries
  <2> QED
    BY <1>1, <2>1, <2>2 DEF Ask, CleanEntry, installed
<1>6. CASE Fail(p) \/ Becomes(p, Idle)
  BY <1>1, <1>2, <1>4, <1>5, <1>6, FailInstall
<1>7. ASSUME NEW todo \in SUBSET (Paths \cup {".env", "manifest"}), Cleans(p, todo),
             Alone(p) => Entries' \subseteq todo
      PROVE  InstallInv'
  <2>1. /\ run'[p].pc = (IF todo = {} THEN "copy" ELSE "clean") /\ run'[p].todo = todo
        /\ run'[p].next = run[p].next /\ run'[p].alone = run[p].alone
        /\ \A q \in Procs \ {p} : run'[q] = run[q]
    BY <1>1, <1>7, CleansFields
  <2>2. There'
    BY <1>2, <1>5, <2>1 DEF InstallInv, There
  <2>3. ASSUME Alone(p)
        PROVE  Undisturbed(p)'
    <3>1. Entries' \subseteq todo
      BY <1>7, <2>3
    <3>2. todo = {} => \A x \in Paths : tree'[x] = "absent"
      BY <3>1 DEF Entries
    <3>3. todo = {} => /\ \A x \in Stale : tree'[x] = "absent"
                       /\ \A i \in 1..(run'[p].next - 1) : tree'[Payload[i]] = "new"
      BY <1>1, <2>1, <3>2, PayloadPaths
    <3> QED
      BY <2>1, <3>1, <3>3 DEF Undisturbed, Late, VenvDone, After, MergePcs
  <2> QED
    BY <1>1, <1>4, <2>1, <2>2, <2>3, OneInstalls
<1>8. CASE Ask(p) /\ ~Becomes(p, Idle)
  <2>1. Cleans(p, Entries) /\ Entries' = Entries
    BY <1>8 DEF Ask, installed, Entries
  <2> QED
    BY <1>7, <2>1, EntriesAre
<1>9. CASE CleanEntry(p) /\ ~Fail(p)
  <2>1. PICK x \in run[p].todo :
            /\ Cleans(p, run[p].todo \ {x})
            /\ tree' = [y \in Paths |-> IF y = x THEN "absent" ELSE tree[y]]
            /\ manifest' = IF x = "manifest" THEN None ELSE manifest
    BY <1>9 DEF CleanEntry
  <2>2. run[p].todo \ {x} \in SUBSET (Paths \cup {".env", "manifest"})
    BY <1>1 DEF Installers
  <2>3. ASSUME Alone(p)
        PROVE  Entries' \subseteq run[p].todo \ {x}
    <3>1. Entries \subseteq run[p].todo
      BY <1>9, <2>3 DEF InstallInv, Undisturbed, CleanEntry
    <3>2. Entries' \subseteq Entries \ {x}
      BY <2>1 DEF Entries
    <3> QED
      BY <3>1, <3>2
  <2> QED
    BY <1>7, <2>1, <2>2, <2>3
<1> QED
  BY <1>6, <1>8, <1>9 DEF Ask

LEMMA CopyInstall ==
    ASSUME TypeInv, InstallInv, NEW p \in Procs, Copy(p) \/ CopyTree(p) \/ Copied(p)
    PROVE  InstallInv'
<1> DEFINE n == run[p].next
           x == Payload[n]
<1>1. /\ run \in [Procs -> Installers] /\ run[p] \in Installers
      /\ tree \in [Paths -> {"absent", "torn", "old", "new"}]
      /\ run[p].pc \in {"copy", "copytree", "copying"}
      /\ n \in 1..Len(Payload) /\ x \in Range(Payload) /\ x \in Paths
  <2>1. run[p].pc \in {"copy", "copytree", "copying"}
    BY DEF Copy, CopyTree, Copied
  <2> QED
    BY <2>1, PayloadNext DEF TypeInv, TypeOK
<1>2. UNCHANGED <<manifest, venv, sound>>
  BY DEF Copy, CopyTree, Copied, history
<1>3. exists' = TRUE
  BY DEF Copy, CopyTree, Copied, InstallInv, There, TypeInv, TypeOK
<1>4. There' /\ ManifestOK'
  BY <1>2, <1>3 DEF There, ManifestOK, MadeOf, InstallInv
<1>5. /\ x \notin Stale
      /\ \A i \in 1..Len(Payload) : Payload[i] = x => i = n
      /\ \A i \in 1..Len(Payload) : Payload[i] \in Paths
      /\ Stale \subseteq Paths
  BY <1>1, PayloadPaths
<1>6. CASE Fail(p)
  <2>1. run'[p].pc = "out" /\ \A q \in Procs \ {p} : run'[q] = run[q]
    BY <1>1, <1>6, FailFields
  <2> QED
    BY <1>1, <1>4, <2>1, OneInstalls
<1>7. CASE Goto(p, "copying") \/ Goto(p, "copytree")
  <2>1. /\ run'[p].pc \in {"copying", "copytree"} /\ run'[p].next = n
        /\ run'[p].alone = run[p].alone /\ \A q \in Procs \ {p} : run'[q] = run[q]
    BY <1>1, <1>7, GotoFields DEF Pcs
  <2>2. \A y \in Paths \ {x} : tree'[y] = tree[y]
    BY <1>1, <1>7 DEF Copy, CopyTree, Copied
  <2>3. ASSUME Alone(p)
        PROVE  Undisturbed(p)'
    <3>1. /\ \A y \in Stale : tree[y] = "absent"
          /\ \A i \in 1..(n - 1) : tree[Payload[i]] = "new"
      BY <1>1, <2>3 DEF InstallInv, Undisturbed
    <3>2. \A y \in Stale : tree'[y] = "absent"
      BY <1>5, <2>2, <3>1
    <3>3. \A i \in 1..(n - 1) : tree'[Payload[i]] = "new"
      <4> TAKE i \in 1..(n - 1)
      <4>1. i \in 1..Len(Payload) /\ i # n
        BY <1>1, PayloadPaths
      <4> QED
        BY <1>5, <2>2, <3>1, <4>1
    <3> QED
      BY <2>1, <3>2, <3>3 DEF Undisturbed, Late, VenvDone, After, MergePcs
  <2> QED
    BY <1>1, <1>4, <2>1, <2>3, OneInstalls
<1>8. CASE Copied(p) /\ ~Fail(p)
  <2> DEFINE r == [run[p] EXCEPT !.next = @ + 1,
                      !.pc = IF run[p].next = Len(Payload) THEN "list" ELSE "copy"]
  <2>1. /\ Becomes(p, r)
        /\ \/ tree' = [tree EXCEPT ![x] = "new"]
           \/ ~run[p].alone /\ tree' = [tree EXCEPT ![x] = "torn"]
    BY <1>8 DEF Copied
  <2>2. /\ r.pc = (IF n = Len(Payload) THEN "list" ELSE "copy") /\ r.next = n + 1
        /\ r.alone = run[p].alone
    BY <1>1 DEF Installers
  <2>3. run'[p] = r /\ \A q \in Procs \ {p} : run'[q] = run[q]
    BY <1>1, <2>1, BecomesOne
  <2>4. ASSUME Alone(p)
        PROVE  Undisturbed(p)'
    <3>1. /\ \A y \in Stale : tree[y] = "absent"
          /\ \A i \in 1..(n - 1) : tree[Payload[i]] = "new"
      BY <1>1, <2>4 DEF InstallInv, Undisturbed
    <3>2. tree'[x] = "new" /\ \A y \in Paths \ {x} : tree'[y] = tree[y]
      BY <1>1, <2>1, <2>4 DEF Alone
    <3>3. \A y \in Stale : tree'[y] = "absent"
      BY <1>5, <3>1, <3>2
    <3>4. \A i \in 1..n : tree'[Payload[i]] = "new"
      <4> TAKE i \in 1..n
      <4>1. i \in 1..Len(Payload) /\ (i = n \/ i \in 1..(n - 1))
        BY <1>1, PayloadPaths
      <4> QED
        BY <1>5, <3>1, <3>2, <4>1
    <3>5. run'[p].next = n + 1 /\ n + 1 - 1 = n /\ n \in Nat
      BY <1>1, <2>2, <2>3
    <3>6. \A i \in 1..(run'[p].next - 1) : tree'[Payload[i]] = "new"
      BY <3>4, <3>5
    <3>7. run'[p].pc = "copy" \/ (run'[p].pc = "list" /\ run'[p].next = Len(Payload) + 1)
      BY <2>2, <2>3
    <3> HIDE DEF n, x, r
    <3> QED
      BY <3>3, <3>6, <3>7 DEF Undisturbed, Late, VenvDone, After, MergePcs
  <2> QED
    BY <1>1, <1>4, <2>2, <2>3, <2>4, OneInstalls
<1> QED
  BY <1>6, <1>7, <1>8 DEF Copy, CopyTree, Copied

(* From the listing of the files on, the payload of an installer that is   *)
(* alone is there.                                                         *)
LEMMA AllNew ==
    ASSUME InstallInv, NEW p \in Procs, Alone(p), run[p].pc \in Late
    PROVE  /\ \A x \in Range(Payload) : tree[x] = "new" /\ Content(x) = "new"
           /\ Range(Payload) \subseteq ManifestFiles
<1>1. run[p].next = Len(Payload) + 1 /\ Len(Payload) + 1 - 1 = Len(Payload)
  BY PayloadPaths DEF InstallInv, Undisturbed
<1>2. \A i \in 1..Len(Payload) : tree[Payload[i]] = "new"
  BY <1>1 DEF InstallInv, Undisturbed
<1>3. \A x \in Range(Payload) : tree[x] = "new" /\ x \in Paths /\ x # ".env"
  BY <1>2, PayloadPaths
<1> QED
  BY <1>3 DEF Content, ManifestFiles

(* A step after the copying, which leaves the files alone. *)
LEMMA LateInstalls ==
    ASSUME TypeInv, InstallInv, NEW p \in Procs, run[p].pc \in Late,
           UNCHANGED <<exists, tree>>, ManifestOK',
           \A q \in Procs \ {p} : run'[q] = run[q],
           \/ run'[p].pc = "out"
           \/ /\ run'[p].pc \in Late /\ run'[p].alone = run[p].alone
              /\ run'[p].next = run[p].next,
           Alone(p) /\ run'[p].pc = "hash" => Range(Payload) \subseteq run'[p].todo,
           Alone(p) /\ run'[p].pc = "record" => MadeOf(run'[p].found, "new"),
           Alone(p) /\ run'[p].pc \in VenvDone => venv' \notin {"partial", "broken"}
    PROVE  InstallInv'
<1>1. run[p].pc # "out" /\ \A l \in Late : l \notin {"out", "clean", "copytree", "copying"}
  BY DEF Late, VenvDone, After, MergePcs
<1>2. There'
  BY <1>1 DEF InstallInv, There
<1>3. ASSUME Alone(p), run'[p].pc # "out"
      PROVE  Undisturbed(p)'
  <2>1. /\ \A x \in Stale : tree[x] = "absent"
        /\ \A i \in 1..(run[p].next - 1) : tree[Payload[i]] = "new"
        /\ run[p].next = Len(Payload) + 1
    BY <1>3 DEF InstallInv, Undisturbed
  <2> QED
    BY <1>1, <1>3, <2>1 DEF Undisturbed, MadeOf
<1> QED
  BY <1>1, <1>2, <1>3, OneInstalls

LEMMA ManifestInstall ==
    ASSUME TypeInv, InstallInv, NEW p \in Procs, ListFiles(p) \/ HashFiles(p) \/ Record(p)
    PROVE  InstallInv'
<1>1. /\ run \in [Procs -> Installers] /\ run[p] \in Installers
      /\ run[p].pc \in {"list", "hash", "record"} /\ run[p].pc \in Late
  BY DEF TypeInv, TypeOK, ListFiles, HashFiles, Record, Late
<1>2. UNCHANGED <<exists, tree, venv>>
  BY DEF ListFiles, HashFiles, Record, installed
<1>3. "venv" \in Late \ VenvDone /\ "hash" \in Late \ VenvDone /\ "record" \in Late \ VenvDone
  BY DEF Late, VenvDone, After, MergePcs
<1>4. CASE ListFiles(p)
  <2> DEFINE r == [run[p] EXCEPT !.pc = "hash", !.todo = ManifestFiles]
  <2>1. Becomes(p, r) /\ UNCHANGED <<manifest, sound>>
    BY <1>4 DEF ListFiles, installed, history
  <2>2. /\ r.pc = "hash" /\ r.todo = ManifestFiles /\ r.alone = run[p].alone
        /\ r.next = run[p].next
    BY <1>1 DEF Installers
  <2>3. run'[p] = r /\ \A q \in Procs \ {p} : run'[q] = run[q]
    BY <1>1, <2>1, BecomesOne
  <2>4. Alone(p) => Range(Payload) \subseteq ManifestFiles
    BY <1>1, AllNew
  <2>5. ManifestOK'
    BY <2>1 DEF InstallInv, ManifestOK, MadeOf
  <2> HIDE DEF r
  <2> QED
    BY <1>1, <1>2, <1>3, <2>2, <2>3, <2>4, <2>5, LateInstalls
<1>5. CASE HashFiles(p) /\ ~(Goto(p, "venv") /\ UNCHANGED manifest)
  <2> DEFINE m == [x \in run[p].todo |-> Content(x)]
             r == [run[p] EXCEPT !.pc = "record", !.found = m]
  <2>1. Becomes(p, r) /\ manifest' = Torn /\ run[p].pc = "hash"
    BY <1>5 DEF HashFiles
  <2>2. r.pc = "record" /\ r.found = m /\ r.alone = run[p].alone /\ r.next = run[p].next
    <3> HIDE DEF m
    <3> QED
      BY <1>1 DEF Installers
  <2>3. run'[p] = r /\ \A q \in Procs \ {p} : run'[q] = run[q]
    BY <1>1, <2>1, BecomesOne
  <2>4. Alone(p) => MadeOf(m, "new")
    <3>1. Alone(p) => Range(Payload) \subseteq run[p].todo
      BY <2>1 DEF InstallInv, Undisturbed
    <3>2. Alone(p) => \A x \in Range(Payload) : Content(x) = "new"
      BY <1>1, AllNew
    <3> QED
      BY <3>1, <3>2 DEF MadeOf
  <2>5. ManifestOK'
    BY <2>1 DEF ManifestOK
  <2> HIDE DEF r, m
  <2> QED
    BY <1>1, <1>2, <1>3, <2>2, <2>3, <2>4, <2>5, LateInstalls
<1>6. CASE HashFiles(p) /\ Goto(p, "venv") /\ UNCHANGED manifest
  <2>1. /\ run'[p].pc = "venv" /\ run'[p].alone = run[p].alone /\ run'[p].next = run[p].next
        /\ \A q \in Procs \ {p} : run'[q] = run[q]
    BY <1>1, <1>6, GotoFields DEF Pcs
  <2>2. ManifestOK'
    BY <1>6 DEF HashFiles, history, InstallInv, ManifestOK, MadeOf
  <2> QED
    BY <1>1, <1>2, <1>3, <2>1, <2>2, LateInstalls
<1>7. CASE Record(p)
  <2> DEFINE r == [run[p] EXCEPT !.pc = "venv", !.todo = {}, !.found = None]
  <2>1. /\ Becomes(p, r) /\ run[p].pc = "record"
        /\ \/ manifest' = run[p].found /\ sound' = run[p].alone
           \/ UNCHANGED <<manifest, sound>>
    BY <1>7 DEF Record
  <2>2. r.pc = "venv" /\ r.alone = run[p].alone /\ r.next = run[p].next
    BY <1>1 DEF Installers
  <2>3. run'[p] = r /\ \A q \in Procs \ {p} : run'[q] = run[q]
    BY <1>1, <2>1, BecomesOne
  <2>4. run[p].alone => MadeOf(run[p].found, "new")
    BY <1>1, <2>1 DEF InstallInv, Undisturbed, Alone
  <2>5. ManifestOK'
    <3>1. CASE manifest' = run[p].found /\ sound' = run[p].alone
      BY <2>4, <3>1 DEF ManifestOK, MadeOf
    <3>2. CASE UNCHANGED <<manifest, sound>>
      BY <3>2 DEF InstallInv, ManifestOK, MadeOf
    <3> QED
      BY <2>1, <3>1, <3>2
  <2> HIDE DEF r
  <2> QED
    BY <1>1, <1>2, <1>3, <2>2, <2>3, <2>5, LateInstalls
<1> QED
  BY <1>4, <1>5, <1>6, <1>7

LEMMA VenvInstall ==
    ASSUME TypeInv, InstallInv, NEW p \in Procs,
           ProbeVenv(p) \/ CreateVenv(p) \/ VenvCreated(p) \/ InstallRequirements(p)
    PROVE  InstallInv'
<1>1. /\ run \in [Procs -> Installers]
      /\ run[p].pc \in {"venv", "create", "creating", "pip"} /\ run[p].pc \in Late
  BY DEF TypeInv, TypeOK, ProbeVenv, CreateVenv, VenvCreated, InstallRequirements,
     Late, VenvDone
<1>2. UNCHANGED <<exists, tree, manifest, sound>>
  BY DEF ProbeVenv, CreateVenv, VenvCreated, InstallRequirements, history
<1>3. ManifestOK'
  BY <1>2 DEF InstallInv, ManifestOK, MadeOf
<1>4. CASE Fail(p)
  <2>1. run[p].pc # "out"
    BY <1>1
  <2> QED
    BY <1>2, <1>3, <1>4, <2>1, FailInstall
<1>5. ASSUME NEW l \in {"legacy", "create", "creating", "pip"}, Goto(p, l),
             Alone(p) /\ l # "creating" => venv' \notin {"partial", "broken"}
      PROVE  InstallInv'
  <2>1. /\ run'[p].pc = l /\ run'[p].alone = run[p].alone /\ run'[p].next = run[p].next
        /\ \A q \in Procs \ {p} : run'[q] = run[q]
    BY <1>1, <1>5, GotoFields DEF Pcs
  <2>2. l \in Late /\ l \notin {"hash", "record"} /\ "creating" \notin VenvDone
    BY DEF Late, VenvDone, After, MergePcs
  <2> QED
    BY <1>1, <1>2, <1>3, <1>5, <2>1, <2>2, LateInstalls
<1>6. Alone(p) => tree[Requirements] # "absent"
  BY <1>1, AllNew
<1>7. Alone(p) /\ run[p].pc \in {"create", "pip"} => venv \notin {"partial", "broken"}
  BY DEF InstallInv, Undisturbed, VenvDone
<1>8. CASE ProbeVenv(p)
  BY <1>4, <1>5, <1>6, <1>8 DEF ProbeVenv
<1>9. CASE CreateVenv(p)
  BY <1>5, <1>7, <1>9 DEF CreateVenv
<1>10. CASE VenvCreated(p)
  BY <1>5, <1>10 DEF VenvCreated
<1>11. CASE InstallRequirements(p)
  BY <1>4, <1>5, <1>7, <1>11 DEF InstallRequirements
<1> QED
  BY <1>8, <1>9, <1>10, <1>11

LEMMA AfterInstall ==
    ASSUME TypeInv, InstallInv, NEW p \in Procs,
           \/ ReadLegacy(p) \/ DeleteLegacy(p) \/ PromptKey(p)
           \/ SettingsStep(p) \/ Exit(p)
    PROVE  InstallInv'
<1>1. run \in [Procs -> Installers] /\ run[p] \in Installers
  BY DEF TypeInv, TypeOK
<1>2. run[p].pc \in After
  BY DEF ReadLegacy, DeleteLegacy, PromptKey, SettingsStep, ReadSettings, CheckBackup,
     WriteBackup, Resolve, WriteSettings, Exit, After, MergePcs
<1>3. UNCHANGED <<exists, tree, manifest, venv, sound>>
  BY DEF ReadLegacy, DeleteLegacy, PromptKey, SettingsStep, ReadSettings, CheckBackup,
     WriteBackup, Resolve, WriteSettings, Exit, installed, history
<1>4. ManifestOK'
  BY <1>3 DEF InstallInv, ManifestOK, MadeOf
<1>5. /\ After \subseteq VenvDone /\ VenvDone \subseteq Late /\ run[p].pc # "out"
      /\ "hash" \notin VenvDone /\ "record" \notin VenvDone
  BY <1>2 DEF After, VenvDone, Late, MergePcs
<1>6. ASSUME NEW r, Becomes(p, r), r.pc \in After, r.alone = run[p].alone,
             r.next = run[p].next
      PROVE  InstallInv'
  <2>1. run'[p] = r /\ \A q \in Procs \ {p} : run'[q] = run[q]
    BY <1>1, <1>6, BecomesOne
  <2>2. Alone(p) => venv' \notin {"partial", "broken"}
    BY <1>2, <1>3, <1>5 DEF InstallInv, Undisturbed
  <2> QED
    BY <1>2, <1>3, <1>4, <1>5, <1>6, <2>1, <2>2, LateInstalls
<1>7. ASSUME NEW l \in After, Goto(p, l)
      PROVE  InstallInv'
  <2> DEFINE r == [run[p] EXCEPT !.pc = l]
  <2>1. r.pc = l /\ r.alone = run[p].alone /\ r.next = run[p].next
    BY <1>1 DEF Installers
  <2> QED
    BY <1>6, <1>7, <2>1 DEF Goto
<1>8. CASE Fail(p) \/ Becomes(p, Idle)
  BY <1>3, <1>4, <1>5, <1>8, FailInstall
<1>9. CASE ReadLegacy(p)
  <2>1. CASE dotenv = None
    BY <1>7, <1>9, <2>1 DEF ReadLegacy, After
  <2>2. CASE dotenv # None
    <3> DEFINE r == [run[p] EXCEPT !.pc = "delete", !.buffer = dotenv]
    <3>1. r.pc = "delete" /\ r.alone = run[p].alone /\ r.next = run[p].next
      BY <1>1 DEF Installers
    <3>2. Becomes(p, r)
      BY <1>9, <2>2 DEF ReadLegacy
    <3> QED
      BY <1>6, <3>1, <3>2 DEF After
  <2> QED
    BY <2>1, <2>2
<1>10. CASE DeleteLegacy(p)
  BY <1>7, <1>10 DEF DeleteLegacy, After
<1>11. CASE PromptKey(p)
  <2>1. CASE Goto(p, "read") \/ Goto(p, "installed")
    BY <1>7, <2>1 DEF After
  <2>2. CASE \E b : Becomes(p, [run[p] EXCEPT !.pc = "read", !.buffer = b])
    <3> PICK b : Becomes(p, [run[p] EXCEPT !.pc = "read", !.buffer = b])
      BY <2>2
    <3> DEFINE r == [run[p] EXCEPT !.pc = "read", !.buffer = b]
    <3>1. r.pc = "read" /\ r.alone = run[p].alone /\ r.next = run[p].next
      BY <1>1 DEF Installers
    <3> QED
      BY <1>6, <3>1 DEF After
  <2> QED
    BY <1>11, <2>1, <2>2 DEF PromptKey
<1>12. CASE ReadSettings(p) /\ ~Fail(p)
  <2> DEFINE r == [run[p] EXCEPT !.found = settings,
                                 !.pc = IF settings = None THEN "resolve" ELSE "backup"]
  <2>1. r.pc \in {"resolve", "backup"} /\ r.alone = run[p].alone /\ r.next = run[p].next
    BY <1>1 DEF Installers
  <2>2. Becomes(p, r)
    BY <1>12 DEF ReadSettings
  <2> QED
    BY <1>6, <2>1, <2>2 DEF After, MergePcs
<1>13. CASE CheckBackup(p) \/ WriteBackup(p)
  BY <1>7, <1>13 DEF CheckBackup, WriteBackup, After, MergePcs
<1>14. CASE Resolve(p) /\ ~Fail(p)
  <2>1. PICK m : Becomes(p, [run[p] EXCEPT !.pc = "write", !.buffer = Empty,
                                           !.found = None, !.env = m])
    BY <1>14 DEF Resolve
  <2> DEFINE r == [run[p] EXCEPT !.pc = "write", !.buffer = Empty, !.found = None, !.env = m]
  <2>2. r.pc = "write" /\ r.alone = run[p].alone /\ r.next = run[p].next
    BY <1>1 DEF Installers
  <2> QED
    BY <1>6, <2>1, <2>2 DEF After, MergePcs
<1>15. CASE WriteSettings(p)
  <2> DEFINE r == [run[p] EXCEPT !.pc = "installed", !.env = Empty]
  <2>1. r.pc = "installed" /\ r.alone = run[p].alone /\ r.next = run[p].next
    BY <1>1 DEF Installers
  <2> QED
    BY <1>6, <1>15, <2>1 DEF WriteSettings, After
<1>16. CASE Exit(p)
  BY <1>8, <1>16 DEF Exit
<1> QED
  BY <1>8, <1>9, <1>10, <1>11, <1>12, <1>13, <1>14, <1>15, <1>16 DEF SettingsStep

LEMMA DieInstall ==
    ASSUME TypeInv, InstallInv, NEW p \in Procs, Die(p)
    PROVE  InstallInv'
<1>1. /\ UNCHANGED <<exists, tree, manifest, sound>> /\ Becomes(p, Idle)
      /\ run[p].pc # "out"
  BY DEF Die, installed, history
<1>2. ManifestOK'
  BY <1>1 DEF InstallInv, ManifestOK, MadeOf
<1> QED
  BY <1>1, <1>2, FailInstall

LEMMA InstallStep == TypeInv /\ InstallInv /\ [Next]_vars => InstallInv'
<1> SUFFICES ASSUME TypeInv, InstallInv, [Next]_vars
             PROVE  InstallInv'
  OBVIOUS
<1>1. ASSUME NEW p \in Procs, Begin(p) \/ Step(p) \/ Die(p)
      PROVE  InstallInv'
  BY <1>1, BeginInstall, CleanInstall, CopyInstall, ManifestInstall, VenvInstall,
     AfterInstall, DieInstall DEF Step, SettingsStep
<1>2. CASE UNCHANGED vars
  BY <1>2 DEF vars, InstallInv, Solo, There, ManifestOK, MadeOf, Alone, Undisturbed, Entries
<1> QED
  BY <1>1, <1>2 DEF Next

LEMMA InstallHolds == Spec => [](TypeInv /\ InstallInv)
BY TypesInit, TypesStep, InstallInit, InstallStep, PTL DEF Spec

(* install_main.py: whatever earlier installers left behind when they were *)
(* killed or got into each other's way, one that runs to its end without   *)
(* another leaves the whole payload and none of an older one.              *)
THEOREM InstallationsAreComplete == Spec => []InstalledIsComplete
<1>1. InstallInv => InstalledIsComplete
  <2> SUFFICES ASSUME InstallInv, NEW p \in Procs, run[p].pc = "installed", run[p].alone
               PROVE  /\ \A x \in Range(Payload) : tree[x] = "new"
                      /\ \A x \in Stale : tree[x] = "absent"
                      /\ venv \notin {"partial", "broken"}
    BY DEF InstalledIsComplete
  <2>1. Alone(p) /\ run[p].pc \in VenvDone /\ run[p].pc \in Late
    BY DEF Alone, VenvDone, Late, After
  <2>2. Undisturbed(p)
    BY <2>1 DEF InstallInv
  <2> QED
    BY <2>1, <2>2, AllNew DEF Undisturbed
<1> QED
  BY <1>1, InstallHolds, PTL

(* health_main.py: as long as the manifest is one that an installer wrote  *)
(* alone, the health check finds no drift only where the files are all of  *)
(* one version.                                                            *)
THEOREM VerdictsAreRight == Spec => []CleanVerdictIsRight
<1>1. InstallInv => CleanVerdictIsRight
  <2> SUFFICES ASSUME InstallInv, Verdict = "verified", sound
               PROVE  \E v \in {"old", "new"} : \A x \in Range(Payload) : tree[x] = v
    BY DEF CleanVerdictIsRight
  <2>1. manifest \notin {None, Torn} /\ Mismatches = {}
    BY DEF Verdict
  <2>2. PICK v \in {"old", "new"} : MadeOf(manifest, v)
    BY <2>1 DEF InstallInv, ManifestOK
  <2>3. \A x \in Range(Payload) : Content(x) = v
    BY <2>1, <2>2 DEF Mismatches, MadeOf
  <2>4. \A x \in Range(Payload) : Content(x) = tree[x]
    BY PayloadPaths DEF Content
  <2> QED
    BY <2>3, <2>4
<1> QED
  BY <1>1, InstallHolds, PTL
=============================================================================
