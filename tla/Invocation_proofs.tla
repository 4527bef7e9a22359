------------------------- MODULE Invocation_proofs -------------------------
(***************************************************************************)
(* What holds of every invocation: for any keys, values, files and writes  *)
(* by others, any interpreters, any set of command lines, any number of    *)
(* images and of messages of a live server.                                *)
(***************************************************************************)
EXTENDS Invocation, FiniteSetTheorems, WellFoundedInduction, TLAPS

(* The three parts of an invocation take turns. *)
LEMMA StepsOfTheParts ==
    ASSUME [Next]_vars
    PROVE  /\ [LaunchNext]_launchVars
           /\ [DispatchNext \/ SessionReturns]_dispatchVars
           /\ [LiveNext]_liveVars
BY DEF Next, Launch, Run, Live, SessionReturns, vars

-----------------------------------------------------------------------------
(* The launcher. *)
Rounds ==
    /\ path \in {"host", "venv"}
    /\ path = "host" => launches = 1
    /\ path = "venv" => launches = 2

LEMMA RoundsInit == LaunchInit => Rounds
BY DEF LaunchInit, Rounds

(* Under the path of .venv both sides of the comparison are the same. *)
LEMMA RoundsStep == Rounds /\ [LaunchNext]_launchVars => Rounds'
<1> SUFFICES ASSUME Rounds, [LaunchNext]_launchVars
             PROVE  Rounds'
  OBVIOUS
<1>1. CASE ReExec
  BY <1>1 DEF ReExec, Rounds, SameInterpreter, Resolved, LaunchCap
<1>2. CASE LaunchNext /\ ~ReExec
  <2>1. UNCHANGED <<path, launches>>
    BY <1>2 DEF LaunchNext, LaunchStep, StartBootstrap, ReadSource, SourceVanishes,
                ApplyEnvironment, CallMain, Edit
  <2> QED
    BY <2>1 DEF Rounds
<1>3. CASE UNCHANGED launchVars
  BY <1>3 DEF Rounds, launchVars
<1> QED
  BY <1>1, <1>2, <1>3

(* gemini_run.py: the launcher replaces itself once at most, whatever files *)
(* the two interpreters are and however the environment changes.           *)
THEOREM NoEndlessReExec == Spec => []LaunchesAtMostTwice
<1>1. Init => Rounds
  BY RoundsInit DEF Init
<1>2. Rounds /\ [Next]_vars => Rounds'
  BY RoundsStep, StepsOfTheParts
<1>3. Rounds => LaunchesAtMostTwice
  BY DEF Rounds, LaunchesAtMostTwice
<1> QED
  BY <1>1, <1>2, <1>3, PTL DEF Spec

-----------------------------------------------------------------------------
(* The environment. *)
LEMMA SourcesAreFour ==
    /\ \A i \in 1..4 : Sources[i] \in SourceNames
    /\ \A i, j \in 1..4 : Sources[i] = Sources[j] => i = j
<1>1. /\ Sources[1] = "user settings" /\ Sources[2] = "project settings"
      /\ Sources[3] = "local settings" /\ Sources[4] = "dotenv"
  BY DEF Sources
<1>2. \A i \in 1..4 : i = 1 \/ i = 2 \/ i = 3 \/ i = 4
  OBVIOUS
<1> QED
  BY <1>1, <1>2 DEF SourceNames

(* What the sources read so far, and below them the environment that the   *)
(* launcher has inherited, make of each key.                               *)
Resolves(e) ==
    \A k \in Keys :
        IF Holders(k) = {}
        THEN /\ k \in DOMAIN e <=> k \in DOMAIN inherited
             /\ k \in DOMAIN e => e[k] = inherited[k]
        ELSE \E i \in Holders(k) : /\ \A j \in Holders(k) : j <= i
                                   /\ k \in DOMAIN e
                                   /\ e[k] = asRead[Sources[i]][k]

FilesOK ==
    /\ files \in [SourceNames -> Contents]
    /\ asRead \in [SourceNames -> Contents]
    /\ next \in 1..5
    /\ stage \in Stages

(* While they are read, nothing is known of the sources ahead. *)
InReading ==
    stage = "reading" =>
        /\ environ = inherited
        /\ Resolves(resolved)
        /\ \A i \in 1..4 : next <= i => asRead[Sources[i]] = NoFile

NothingBad == stage # "error" => \A s \in SourceNames : asRead[s] # BadFile

NothingReadYet == stage = "bootstrap" => \A s \in SourceNames : asRead[s] = NoFile

Applied == stage \in {"launch", "main"} => Resolves(environ)

EnvInv == FilesOK /\ InReading /\ NothingBad /\ NothingReadYet /\ Applied

LEMMA EnvInit == LaunchInit => EnvInv
<1> SUFFICES ASSUME LaunchInit
             PROVE  EnvInv
  OBVIOUS
<1>1. FilesOK
  BY ContentsAssumption DEF LaunchInit, FilesOK, Stages
<1>2. InReading /\ NothingBad /\ NothingReadYet /\ Applied
  BY ContentsAssumption DEF LaunchInit, InReading, NothingBad, NothingReadYet, Applied
<1> QED
  BY <1>1, <1>2 DEF EnvInv

(* One more file read: it is the only holder that is new, and the last. *)
LEMMA ReadKeepsResolving ==
    ASSUME FilesOK, InReading, stage = "reading", next <= 4,
           files[Sources[next]] # BadFile,
           asRead' = [asRead EXCEPT ![Sources[next]] = files[Sources[next]]],
           resolved' = Merged(resolved, files[Sources[next]]),
           inherited' = inherited
    PROVE  Resolves(resolved)'
<1> DEFINE content == files[Sources[next]]
<1>1. next \in 1..4 /\ content \in Settings \cup {NoFile}
  BY SourcesAreFour, ContentsAssumption DEF FilesOK
<1>2. \A i \in 1..4 : asRead'[Sources[i]] = IF i = next THEN content ELSE asRead[Sources[i]]
  BY <1>1, SourcesAreFour DEF FilesOK
<1>3. asRead[Sources[next]] = NoFile
  BY <1>1 DEF InReading
<1> SUFFICES ASSUME NEW k \in Keys
             PROVE  IF Holders(k)' = {}
                    THEN /\ k \in DOMAIN resolved' <=> k \in DOMAIN inherited'
                         /\ k \in DOMAIN resolved' => resolved'[k] = inherited'[k]
                    ELSE \E i \in Holders(k)' : /\ \A j \in Holders(k)' : j <= i
                                                /\ k \in DOMAIN resolved'
                                                /\ resolved'[k] = asRead'[Sources[i]][k]
  BY DEF Resolves
<1>4. Holders(k) \subseteq 1..(next - 1)
  BY <1>1, ContentsAssumption DEF Holders, InReading
<1>5. IF Holders(k) = {}
      THEN /\ k \in DOMAIN resolved <=> k \in DOMAIN inherited
           /\ k \in DOMAIN resolved => resolved[k] = inherited[k]
      ELSE \E i \in Holders(k) : /\ \A j \in Holders(k) : j <= i
                                 /\ k \in DOMAIN resolved
                                 /\ resolved[k] = asRead[Sources[i]][k]
  BY DEF InReading, Resolves
<1>6. CASE content = NoFile \/ k \notin DOMAIN content
  <2>1. Holders(k)' = Holders(k)
    BY <1>1, <1>2, <1>3, <1>6, ContentsAssumption DEF Holders
  <2>2. /\ k \in DOMAIN resolved' <=> k \in DOMAIN resolved
        /\ k \in DOMAIN resolved => resolved'[k] = resolved[k]
    BY <1>6 DEF Merged, Updated
  <2>3. \A i \in Holders(k) : asRead'[Sources[i]] = asRead[Sources[i]]
    BY <1>1, <1>2, <1>4 DEF Holders
  <2> QED
    BY <1>5, <2>1, <2>2, <2>3
<1>7. CASE content # NoFile /\ k \in DOMAIN content
  <2>1. Holders(k)' = Holders(k) \cup {next}
    BY <1>1, <1>2, <1>3, <1>7, ContentsAssumption DEF Holders
  <2>2. \A j \in Holders(k)' : j <= next
    BY <2>1, <1>1, <1>4
  <2>3. k \in DOMAIN resolved' /\ resolved'[k] = content[k]
    BY <1>7 DEF Merged, Updated
  <2> QED
    BY <2>1, <2>2, <2>3, <1>1, <1>2
<1> QED
  BY <1>6, <1>7

LEMMA EnvStep == EnvInv /\ [LaunchNext]_launchVars => EnvInv'
<1> SUFFICES ASSUME EnvInv, [LaunchNext]_launchVars
             PROVE  EnvInv'
  OBVIOUS
<1> USE DEF EnvInv
<1>1. CASE StartBootstrap
  <2>1. FilesOK'
    BY <1>1 DEF StartBootstrap, FilesOK, Stages
  <2>2. \A k \in Keys : Holders(k)' = {}
    BY <1>1, SourcesAreFour, ContentsAssumption DEF StartBootstrap, Holders, NothingReadYet
  <2>3. Resolves(resolved)'
    BY <1>1, <2>2 DEF StartBootstrap, Resolves
  <2>4. InReading'
    BY <1>1, <2>3, SourcesAreFour DEF StartBootstrap, InReading, NothingReadYet
  <2>5. NothingBad' /\ NothingReadYet' /\ Applied'
    BY <1>1 DEF StartBootstrap, NothingBad, NothingReadYet, Applied
  <2> QED
    BY <2>1, <2>4, <2>5
<1>2. CASE ReadSource
  <2>1. next \in 1..4 /\ Sources[next] \in SourceNames
    BY <1>2, SourcesAreFour DEF ReadSource, FilesOK
  <2>2. FilesOK'
    BY <1>2, <2>1 DEF ReadSource, FilesOK, Stages
  <2>3. NothingBad'
    BY <1>2, <2>1 DEF ReadSource, NothingBad, FilesOK
  <2>4. InReading'
    <3> SUFFICES ASSUME stage' = "reading"
                 PROVE  InReading'
      BY DEF InReading
    <3>1. /\ files[Sources[next]] # BadFile
          /\ asRead' = [asRead EXCEPT ![Sources[next]] = files[Sources[next]]]
          /\ resolved' = Merged(resolved, files[Sources[next]])
          /\ next' = next + 1 /\ inherited' = inherited /\ environ' = environ
          /\ stage = "reading" /\ next <= 4
      BY <1>2 DEF ReadSource
    <3>2. Resolves(resolved)'
      BY <3>1, ReadKeepsResolving
    <3>3. \A i \in 1..4 : next' <= i => asRead'[Sources[i]] = NoFile
      BY <3>1, <2>1, SourcesAreFour DEF InReading, FilesOK
    <3> QED
      BY <3>1, <3>2, <3>3 DEF InReading
  <2>5. NothingReadYet' /\ Applied'
    BY <1>2 DEF ReadSource, NothingReadYet, Applied
  <2> QED
    BY <2>2, <2>3, <2>4, <2>5
<1>3. CASE SourceVanishes
  <2>1. FilesOK'
    BY <1>3, ContentsAssumption, SourcesAreFour DEF SourceVanishes, FilesOK, Stages
  <2> QED
    BY <1>3, <2>1 DEF SourceVanishes, InReading, NothingBad, NothingReadYet, Applied
<1>4. CASE ApplyEnvironment
  <2>1. FilesOK'
    BY <1>4 DEF ApplyEnvironment, FilesOK, Stages
  <2>2. \A k \in Keys : Holders(k)' = Holders(k)
    BY <1>4 DEF ApplyEnvironment, Holders
  <2>3. \A k \in Keys : /\ k \in DOMAIN environ' <=> k \in DOMAIN resolved
                        /\ k \in DOMAIN resolved => environ'[k] = resolved[k]
    <3> SUFFICES ASSUME NEW k \in Keys
                 PROVE  /\ k \in DOMAIN environ' <=> k \in DOMAIN resolved
                        /\ k \in DOMAIN resolved => environ'[k] = resolved[k]
      OBVIOUS
    <3>1. k \in DOMAIN inherited => k \in DOMAIN resolved
      BY <1>4 DEF ApplyEnvironment, InReading, Resolves
    <3> QED
      BY <1>4, <3>1 DEF ApplyEnvironment, Updated, InReading
  <2>4. Resolves(environ)'
    BY <1>4, <2>2, <2>3 DEF ApplyEnvironment, Resolves, InReading
  <2> QED
    BY <1>4, <2>1, <2>4 DEF ApplyEnvironment, InReading, NothingBad, NothingReadYet, Applied
<1>5. CASE ReExec
  <2>1. FilesOK'
    BY <1>5, ContentsAssumption DEF ReExec, FilesOK, Stages
  <2> QED
    BY <1>5, <2>1, ContentsAssumption DEF ReExec, InReading, NothingBad, NothingReadYet, Applied
<1>6. CASE CallMain
  <2>1. \A k \in Keys : Holders(k)' = Holders(k)
    BY <1>6 DEF CallMain, Holders
  <2>2. Applied'
    BY <1>6, <2>1 DEF CallMain, Applied, Resolves
  <2> QED
    BY <1>6, <2>2 DEF CallMain, FilesOK, Stages, InReading, NothingBad, NothingReadYet
<1>7. CASE \E s \in SourceNames, c \in Contents : Edit(s, c)
  <2> PICK s \in SourceNames, c \in Contents : Edit(s, c)
    BY <1>7
  <2>1. FilesOK'
    BY DEF Edit, FilesOK
  <2>2. \A k \in Keys : Holders(k)' = Holders(k)
    BY DEF Edit, Holders
  <2>3. (Resolves(resolved) => Resolves(resolved)') /\ (Resolves(environ) => Resolves(environ)')
    BY <2>2 DEF Edit, Resolves
  <2> QED
    BY <2>1, <2>3 DEF Edit, InReading, NothingBad, NothingReadYet, Applied
<1>8. CASE UNCHANGED launchVars
  <2>1. \A k \in Keys : Holders(k)' = Holders(k)
    BY <1>8 DEF launchVars, Holders
  <2>2. (Resolves(resolved) => Resolves(resolved)') /\ (Resolves(environ) => Resolves(environ)')
    BY <1>8, <2>1 DEF launchVars, Resolves
  <2> QED
    BY <1>8, <2>2 DEF launchVars, FilesOK, InReading, NothingBad, NothingReadYet, Applied
<1> QED
  BY <1>1, <1>2, <1>3, <1>4, <1>5, <1>6, <1>7, <1>8 DEF LaunchNext, LaunchStep

(* runtime_env.py: for every key the last source that holds it wins over   *)
(* the others and over what the process has inherited, after any writes by *)
(* others between the reads and in either interpreter; and a file that     *)
(* cannot be read is never passed over.                                    *)
THEOREM LastSourceWins == Spec => []PrecedenceHolds
<1>1. Init => EnvInv
  BY EnvInit DEF Init
<1>2. EnvInv /\ [Next]_vars => EnvInv'
  BY EnvStep, StepsOfTheParts
<1>3. EnvInv => PrecedenceHolds
  BY DEF EnvInv, NothingBad, Applied, Resolves, PrecedenceHolds
<1> QED
  BY <1>1, <1>2, <1>3, PTL DEF Spec

-----------------------------------------------------------------------------
(* The dispatcher. *)
Kinds == {"text", "media", "session", "download", "change", "read"}

WholeSoFar == \A i \in DOMAIN outputs : outputs[i].kind # "text" => outputs[i].content = "whole"

(* A sequence that grows by an entry keeps those it had. *)
LEMMA AppendedEntries ==
    ASSUME NEW Entries, NEW seq \in Seq(Entries), NEW entry \in Entries
    PROVE  \A i \in DOMAIN Append(seq, entry) :
               \/ Append(seq, entry)[i] = entry
               \/ i \in DOMAIN seq /\ Append(seq, entry)[i] = seq[i]
<1>1. DOMAIN Append(seq, entry) = 1 .. Len(seq) + 1 /\ DOMAIN seq = 1 .. Len(seq)
  OBVIOUS
<1>2. \A i \in 1 .. Len(seq) + 1 : i = Len(seq) + 1 \/ i \in 1 .. Len(seq)
  OBVIOUS
<1> QED
  BY <1>1, <1>2

Reports ==
    /\ outputs \in Seq([kind : Kinds, content : {"empty", "part", "whole"}])
    /\ reported \subseteq DOMAIN outputs
    /\ pc \in Pcs
    /\ pc # "end" => reported = {} /\ WholeSoFar
    /\ ReportedIsWhole

LEMMA ReportsInit == DispatchInit => Reports
BY DEF DispatchInit, Reports, WholeSoFar, ReportedIsWhole, Pcs


(* The kinds of operations. *)
LEMMA KindIsKnown == Kind \in Kinds
<1>1. \A c, a : OperationKind(c, a) \in Kinds
  BY Zenon DEF OperationKind, Kinds
<1> QED
  BY <1>1 DEF Kind

LEMMA ReportsStep == Reports /\ [DispatchNext \/ SessionReturns]_dispatchVars => Reports'
<1> SUFFICES ASSUME Reports, [DispatchNext \/ SessionReturns]_dispatchVars
             PROVE  Reports'
  OBVIOUS
<1> DEFINE File == [kind : Kinds, content : {"empty", "part", "whole"}]
<1>1. CASE SaveFile
  <2> DEFINE kind == IF EmitsText(Command, request.action) THEN "text" ELSE Kind
  <2>1. reported = {} /\ WholeSoFar /\ outputs \in Seq(File)
    BY <1>1 DEF SaveFile, Reports
  <2>0. kind \in Kinds
    BY KindIsKnown DEF Kinds
  <2>2. CASE End("failed") /\ UNCHANGED <<outputs, images, reported>>
    BY <2>1, <2>2 DEF End, Reports, ReportedIsWhole, Pcs
  <2>3. CASE \E content \in {"empty", "part"} :
               /\ outputs' = Append(outputs, [kind |-> kind, content |-> content])
               /\ End("failed") /\ UNCHANGED <<images, reported>>
    <3> PICK content \in {"empty", "part"} :
               /\ outputs' = Append(outputs, [kind |-> kind, content |-> content])
               /\ End("failed") /\ UNCHANGED <<images, reported>>
      BY <2>3
    <3>1. outputs' \in Seq(File)
      BY <2>0, <2>1
    <3> QED
      BY <2>1, <3>1 DEF End, Reports, ReportedIsWhole, Pcs
  <2>4. CASE \E content \in {"whole"} \cup (IF kind = "text" THEN {"part"} ELSE {}) :
               /\ outputs' = Append(outputs, [kind |-> kind, content |-> content])
               /\ images' = images - 1
               /\ IF images' = 0 THEN End("done") /\ reported' = DOMAIN outputs'
                                 ELSE Continue("save") /\ UNCHANGED reported
    <3> PICK content \in {"whole"} \cup (IF kind = "text" THEN {"part"} ELSE {}) :
               /\ outputs' = Append(outputs, [kind |-> kind, content |-> content])
               /\ IF images' = 0 THEN End("done") /\ reported' = DOMAIN outputs'
                                 ELSE Continue("save") /\ UNCHANGED reported
      BY <2>4
    <3>1. content \in {"part", "whole"} /\ (kind # "text" => content = "whole")
      OBVIOUS
    <3>2. outputs' \in Seq(File)
      BY <2>0, <2>1, <3>1
    <3>3. WholeSoFar'
      BY <2>1, <3>1 DEF WholeSoFar
    <3> QED
      BY <2>1, <3>2, <3>3 DEF End, Continue, Reports, ReportedIsWhole, WholeSoFar, Pcs
  <2> QED
    BY <1>1, <2>2, <2>3, <2>4 DEF SaveFile
<1>2. CASE ~SaveFile
  <2>1. UNCHANGED <<outputs, reported>> /\ pc' \in Pcs /\ (pc = "end" => pc' = "end")
    BY <1>2 DEF Reports, DispatchNext, dispatchVars, SessionReturns, Start, EnforcePolicy,
         ParseArguments, RunOperation, CannotCall, CallFails, CallReturns, OpenSession,
         MayCall, End, Continue, Pcs
  <2> QED
    BY <2>1 DEF Reports, WholeSoFar, ReportedIsWhole
<1> QED
  BY <1>1, <1>2

(* imagen.py, helpers.py: a path is printed only when every file of the    *)
(* answer has been written, each with all its bytes.                       *)
THEOREM ReportsAreWhole == Spec => []ReportedIsWhole
<1>1. Init => Reports
  BY ReportsInit DEF Init
<1>2. Reports /\ [Next]_vars => Reports'
  BY ReportsStep, StepsOfTheParts
<1>3. Reports => ReportedIsWhole
  BY DEF Reports
<1> QED
  BY <1>1, <1>2, <1>3, PTL DEF Spec

-----------------------------------------------------------------------------
(* The two lines of defence, each with the places behind it. *)
Passed == known => ~IsMutating(Command, args) \/ "--execute" \in ToSet(args)

Executed ==
    /\ ChecksDryRun(Command, request) => "--execute" \in request.seen
    /\ ~request.blank \/ Command \notin ActionCommands

Lines ==
    /\ pc \in Pcs
    /\ pc \in {"parse", "run", "call", "save", "live"} => Passed
    /\ pc \in {"call", "save", "live"} => Executed
    /\ pc \in {"start", "policy", "parse", "run"} => ~HasEffect
    /\ HasEffect => Passed /\ Executed

LEMMA LinesInit == DispatchInit => Lines
BY DEF DispatchInit, Lines, HasEffect, Pcs

LEMMA LinesStep == Lines /\ [DispatchNext \/ SessionReturns]_dispatchVars => Lines'
<1> SUFFICES ASSUME Lines, [DispatchNext \/ SessionReturns]_dispatchVars
             PROVE  Lines'
  OBVIOUS
<1>1. CASE Start
  BY <1>1 DEF Start, Lines, HasEffect, End, Continue, Pcs
<1>2. CASE EnforcePolicy
  <2>1. ~HasEffect'
    BY <1>2 DEF EnforcePolicy, Lines, HasEffect
  <2>2. pc' = "end" \/ (pc' = "parse" /\ (known' => Policy(Command, args) = "pass"))
    <3>1. known' \in BOOLEAN
      BY <1>2 DEF EnforcePolicy
    <3>2. CASE known' = TRUE
      <4>1. IF Policy(Command, args) = "pass" THEN pc' = "parse" ELSE pc' = "end"
        BY Zenon, <1>2, <3>2 DEF EnforcePolicy, End, Continue
      <4> QED
        BY <4>1
    <3>3. CASE known' = FALSE
      BY <1>2, <3>3 DEF EnforcePolicy, End, Continue
    <3> QED
      BY <3>1, <3>2, <3>3
  <2>3. Policy(Command, args) = "pass" => ~IsMutating(Command, args) \/ "--execute" \in ToSet(args)
    BY DEF Policy
  <2>4. Command' = Command /\ args' = args
    BY <1>2 DEF EnforcePolicy, Command
  <2> QED
    BY <2>1, <2>2, <2>3, <2>4 DEF Lines, Passed, Pcs
<1>3. CASE ParseArguments
  <2>1. ~HasEffect' /\ pc' \in {"run", "end"}
    BY <1>3 DEF ParseArguments, Lines, HasEffect, End, Continue
  <2>2. UNCHANGED Passed /\ Passed
    BY <1>3 DEF ParseArguments, Lines, Passed, Command
  <2> QED
    BY <2>1, <2>2 DEF Lines, Pcs
<1>4. CASE RunOperation
  <2>1. ~HasEffect' /\ pc' \in {"call", "end"}
    BY <1>4 DEF RunOperation, Lines, HasEffect, End, Continue
  <2>2. pc' = "call" => Executed
    BY <1>4 DEF RunOperation, Executed, End
  <2>3. UNCHANGED <<Command, args, request, known>>
    BY <1>4 DEF RunOperation, Command
  <2>4. Passed'
    <3>1. Passed
      BY <1>4 DEF Lines, RunOperation
    <3> QED
      BY <2>3, <3>1 DEF Passed
  <2>5. pc' = "call" => Executed'
    BY <2>2, <2>3 DEF Executed, ChecksDryRun, ReadBy
  <2> QED
    BY <2>1, <2>4, <2>5 DEF Lines, Pcs
<1>5. CASE CannotCall \/ CallFails \/ CallReturns \/ OpenSession \/ SaveFile \/ SessionReturns
  <2>1. /\ UNCHANGED <<Command, args, request, known>>
        /\ pc \in {"call", "save", "live"} /\ pc' \in {"call", "save", "live", "end"}
    BY <1>5 DEF CannotCall, CallFails, CallReturns, OpenSession, SaveFile, SessionReturns,
                MayCall, Command, End, Continue
  <2>2. Passed' /\ Executed'
    BY <2>1 DEF Lines, Passed, Executed, ChecksDryRun
  <2> QED
    BY <2>1, <2>2 DEF Lines, Pcs
<1>6. CASE UNCHANGED dispatchVars
  <2>1. UNCHANGED <<Command, args, request, known, pc, performed, outputs>>
    BY <1>6 DEF dispatchVars, Command
  <2>2. UNCHANGED <<Passed, Executed, HasEffect>>
    BY <2>1 DEF Passed, Executed, HasEffect, ChecksDryRun
  <2> QED
    BY <2>1, <2>2 DEF Lines
<1> QED
  BY <1>1, <1>2, <1>3, <1>4, <1>5, <1>6 DEF DispatchNext

(* dispatch.py, helpers.py: whatever a command line says, nothing is       *)
(* changed that the policy, where it can read the registry, took for a dry *)
(* run, and nothing in an adapter whose own check has not seen --execute.  *)
THEOREM BothLinesAlwaysHold == Spec => []BothLinesHold
<1>1. Init => Lines
  BY LinesInit DEF Init
<1>2. Lines /\ [Next]_vars => Lines'
  BY LinesStep, StepsOfTheParts
<1>3. Lines => BothLinesHold
  BY DEF Lines, Passed, Executed, BothLinesHold
<1> QED
  BY <1>1, <1>2, <1>3, PTL DEF Spec

-----------------------------------------------------------------------------
(* The live session: what is open is known from the place alone. *)
Open ==
    /\ at \in Places
    /\ session <=> at \in {"send", "receive", "close", "exit"}
    /\ stream => at \in {"receive", "close"}
    /\ session \in BOOLEAN /\ stream \in BOOLEAN

LEMMA OpenInit == LiveInit => Open
BY DEF LiveInit, Open, Places

LEMMA OpenStep ==
    ASSUME Open, [LiveNext]_liveVars
    PROVE  /\ Open'
           /\ session /\ ~session' => ~stream
<1>1. CASE Enter
  BY <1>1 DEF Enter, Open, Places
<1>2. CASE Connect
  <2>1. CASE session' = TRUE /\ at' = "send"
    BY <1>2, <2>1 DEF Connect, Open, Places
  <2>2. CASE session' = FALSE /\ at' = "ended"
    BY <1>2, <2>2 DEF Connect, Open, Places
  <2> QED
    BY <1>2, <2>1, <2>2 DEF Connect
<1>3. CASE Send
  <2>1. CASE stream' = TRUE /\ at' = "receive"
    BY <1>3, <2>1 DEF Send, Open, Places
  <2>2. CASE stream' = stream /\ at' = "exit"
    BY <1>3, <2>2 DEF Send, Open, Places
  <2> QED
    BY <1>3, <2>1, <2>2 DEF Send
<1>4. CASE Receive \/ StreamEnds \/ Interrupted
  BY <1>4 DEF Receive, StreamEnds, Interrupted, Open, Places
<1>5. CASE CloseStream
  BY <1>5 DEF CloseStream, Open, Places
<1>6. CASE Exit
  BY <1>6 DEF Exit, Open, Places
<1>7. CASE (\E m \in Messages : ServerSends(m)) \/ ServerEnds \/ UNCHANGED liveVars
  <2>1. UNCHANGED <<at, session, stream>>
    BY <1>7 DEF ServerSends, ServerEnds, liveVars
  <2> QED
    BY <2>1 DEF Open
<1> QED
  BY <1>1, <1>2, <1>3, <1>4, <1>5, <1>6, <1>7 DEF LiveNext, LiveStep

(* live.py: on every way out of the session, an error of any await and     *)
(* Ctrl-C included, the stream is closed, and after it the session.        *)
THEOREM EverythingIsClosed == Spec => ClosesEverything
<1>1. Init => Open
  BY OpenInit DEF Init
<1>2. Open /\ [Next]_vars => Open'
  BY OpenStep, StepsOfTheParts
<1>3. Open /\ [Next]_vars
        => [/\ at' = "ended" => ~session' /\ ~stream'
            /\ session /\ ~session' => ~stream]_liveVars
  BY OpenStep, StepsOfTheParts DEF Open
<1> QED
  BY <1>1, <1>2, <1>3, PTL DEF Spec, ClosesEverything

-----------------------------------------------------------------------------
(* The messages that the loop has seen. *)
Seen == Len(sent) - Len(inbox)

(* inbox is the rest of what was sent. *)
Queued ==
    /\ sent \in Seq(Messages) /\ inbox \in Seq(Messages)
    /\ Len(inbox) <= Len(sent)
    /\ \A i \in 1..Len(inbox) : inbox[i] = sent[Seen + i]

(* Only the last message seen may have completed the turn. *)
Turn ==
    /\ at \in Places
    /\ \A i \in 1..(Seen - 1) : ~sent[i].complete
    /\ at = "receive" => \A i \in 1..Seen : ~sent[i].complete
    /\ at \in {"idle", "connect", "send"} => outcome = "none" /\ Seen = 0

(* Printed are, in order, the texts seen. *)
Printed ==
    /\ printed \in Seq(Nat)
    /\ \A n \in DOMAIN printed : printed[n] \in 1..Seen /\ sent[printed[n]].text
    /\ \A m, n \in DOMAIN printed : m < n => printed[m] < printed[n]
    /\ \A i \in 1..Seen : sent[i].text => \E n \in DOMAIN printed : printed[n] = i

(* A turn that is left without an error is complete, or the stream ended. *)
Left ==
    at \in {"close", "exit", "ended"} /\ outcome # "raised" =>
        inbox = <<>> \/ (Seen > 0 /\ sent[Seen].complete)

Returned == outcome = "returned" => at = "ended"

TurnInv == Queued /\ Turn /\ Printed /\ Left /\ Returned

LEMMA TurnInit == LiveInit => TurnInv
BY DEF LiveInit, TurnInv, Queued, Turn, Printed, Left, Returned, Seen, Places

(* What one message does to the queue. *)
LEMMA ReceiveQueue ==
    ASSUME Queued, inbox # <<>>, inbox' = Tail(inbox), UNCHANGED sent
    PROVE  /\ Queued'
           /\ Seen \in Nat /\ Seen' = Seen + 1 /\ Seen' \in 1..Len(sent)
           /\ Head(inbox) = sent[Seen']
<1>1. /\ Len(inbox) \in Nat \ {0} /\ Len(inbox') = Len(inbox) - 1
      /\ inbox' \in Seq(Messages) /\ Head(inbox) = inbox[1]
      /\ \A i \in 1..Len(inbox') : inbox'[i] = inbox[i + 1]
  BY DEF Queued
<1>2. Len(sent) \in Nat /\ Len(sent') = Len(sent)
  BY DEF Queued
<1>3. Seen \in Nat /\ Seen' = Seen + 1 /\ Seen' \in 1..Len(sent)
  BY <1>1, <1>2 DEF Seen, Queued
<1>4. inbox[1] = sent[Seen + 1]
  BY <1>1 DEF Queued
<1>5. \A i \in 1..Len(inbox') : inbox'[i] = sent'[Seen' + i]
  <2> TAKE i \in 1..Len(inbox')
  <2>1. i + 1 \in 1..Len(inbox) /\ inbox'[i] = inbox[i + 1]
    BY <1>1
  <2>2. inbox[i + 1] = sent[Seen + (i + 1)]
    BY <2>1 DEF Queued
  <2> QED
    BY <2>1, <2>2, <1>3
<1>6. Len(inbox') <= Len(sent') /\ sent' \in Seq(Messages)
  BY <1>1, <1>2 DEF Queued
<1>7. Queued'
  BY <1>1, <1>5, <1>6 DEF Queued
<1> QED
  BY <1>1, <1>3, <1>4, <1>7

(* A message more leaves those that were seen as they are. *)
LEMMA SendQueue ==
    ASSUME Queued, NEW m \in Messages,
           inbox' = Append(inbox, m), sent' = Append(sent, m)
    PROVE  /\ Queued' /\ Seen' = Seen /\ Seen \in 0..Len(sent)
           /\ \A i \in 1..Seen : sent'[i] = sent[i]
<1>0. /\ Len(inbox) \in Nat /\ Len(inbox') = Len(inbox) + 1 /\ inbox' \in Seq(Messages)
      /\ Len(sent) \in Nat /\ Len(sent') = Len(sent) + 1 /\ sent' \in Seq(Messages)
  BY DEF Queued
<1>1. /\ \A i \in 1..Len(inbox) : inbox'[i] = inbox[i]
      /\ \A i \in 1..Len(sent) : sent'[i] = sent[i]
      /\ inbox'[Len(inbox) + 1] = m /\ sent'[Len(sent) + 1] = m
  BY DEF Queued
<1>2. Seen' = Seen /\ Seen \in 0..Len(sent) /\ Seen + Len(inbox) = Len(sent)
  BY <1>0 DEF Seen, Queued
<1>3. \A i \in 1..Len(inbox') : inbox'[i] = sent'[Seen' + i]
  <2> TAKE i \in 1..Len(inbox')
  <2>1. CASE i \in 1..Len(inbox)
    <3>1. Seen + i \in 1..Len(sent) /\ inbox[i] = sent[Seen + i]
      BY <2>1, <1>0, <1>2 DEF Queued
    <3> QED
      BY <2>1, <3>1, <1>1, <1>2
  <2>2. CASE i = Len(inbox) + 1
    <3>1. Seen' + i = Len(sent) + 1
      BY <2>2, <1>0, <1>2
    <3> QED
      BY <2>2, <3>1, <1>1
  <2>3. i \in 1..Len(inbox) \/ i = Len(inbox) + 1
    BY <1>0
  <2> QED
    BY <2>1, <2>2, <2>3
<1>4. \A i \in 1..Seen : sent'[i] = sent[i]
  BY <1>0, <1>1, <1>2
<1>5. Len(inbox') <= Len(sent')
  BY <1>0 DEF Queued
<1>6. Queued'
  BY <1>0, <1>3, <1>5 DEF Queued
<1> QED
  BY <1>2, <1>4, <1>6

(* A step that leaves the messages alone. *)
LEMMA QuietStep ==
    ASSUME TurnInv, UNCHANGED <<inbox, sent, printed>>
    PROVE  Queued' /\ Printed' /\ Seen' = Seen
BY DEF TurnInv, Queued, Printed, Seen

LEMMA TurnStep == TurnInv /\ [LiveNext]_liveVars => TurnInv'
<1> SUFFICES ASSUME TurnInv, [LiveNext]_liveVars
             PROVE  TurnInv'
  OBVIOUS
<1> USE DEF TurnInv
<1>1. CASE Receive
  <2>1. /\ Queued' /\ Seen \in Nat /\ Seen' = Seen + 1 /\ Seen' \in 1..Len(sent)
        /\ Head(inbox) = sent[Seen'] /\ sent' = sent
    BY <1>1, ReceiveQueue DEF Receive
  <2>2. Turn'
    BY <1>1, <2>1 DEF Receive, Turn, Places
  <2>3. Number = Seen'
    BY <1>1, <2>1 DEF Number, Seen
  <2>4. printed' = IF sent[Seen'].text THEN Append(printed, Seen') ELSE printed
    BY <1>1, <2>1, <2>3 DEF Receive
  <2>5. Printed'
    <3>1. CASE sent[Seen'].text
      <4>1. /\ printed' \in Seq(Nat) /\ DOMAIN printed' = 1..(Len(printed) + 1)
            /\ DOMAIN printed = 1..Len(printed) /\ Len(printed) \in Nat
            /\ \A n \in DOMAIN printed : printed'[n] = printed[n]
            /\ printed'[Len(printed) + 1] = Seen'
        BY <3>1, <2>1, <2>4 DEF Printed
      <4>2. ASSUME NEW n \in DOMAIN printed'
            PROVE  /\ printed'[n] \in 1..Seen' /\ sent'[printed'[n]].text
                   /\ n # Len(printed) + 1 => n \in DOMAIN printed /\ printed'[n] < Seen'
        <5>1. CASE n = Len(printed) + 1
          BY <5>1, <4>1, <3>1, <2>1
        <5>2. CASE n # Len(printed) + 1
          <6>1. n \in DOMAIN printed
            BY <5>2, <4>1
          <6>2. printed[n] \in 1..Seen /\ sent[printed[n]].text
            BY <6>1 DEF Printed
          <6> QED
            BY <6>1, <6>2, <4>1, <2>1
        <5> QED
          BY <5>1, <5>2
      <4>3. ASSUME NEW m \in DOMAIN printed', NEW n \in DOMAIN printed', m < n
            PROVE  printed'[m] < printed'[n]
        <5>1. m \in DOMAIN printed /\ printed'[m] < Seen'
          BY <4>1, <4>2, <4>3
        <5>2. CASE n = Len(printed) + 1
          BY <5>1, <5>2, <4>1
        <5>3. CASE n # Len(printed) + 1
          BY <5>1, <5>3, <4>1, <4>2, <4>3 DEF Printed
        <5> QED
          BY <5>2, <5>3
      <4>4. ASSUME NEW i \in 1..Seen', sent'[i].text
            PROVE  \E n \in DOMAIN printed' : printed'[n] = i
        <5>1. CASE i = Seen'
          BY <5>1, <4>1
        <5>2. CASE i # Seen'
          <6>1. i \in 1..Seen /\ sent[i].text
            BY <5>2, <4>4, <2>1
          <6>2. PICK n \in DOMAIN printed : printed[n] = i
            BY <6>1 DEF Printed
          <6>3. n \in DOMAIN printed' /\ printed'[n] = i
            BY <6>2, <4>1
          <6> QED
            BY <6>3
        <5> QED
          BY <5>1, <5>2
      <4> QED
        BY <4>1, <4>2, <4>3, <4>4 DEF Printed
    <3>2. CASE ~sent[Seen'].text
      BY <3>2, <2>1, <2>4 DEF Printed
    <3> QED
      BY <3>1, <3>2
  <2>6. Left' /\ Returned'
    BY <1>1, <2>1 DEF Receive, Left, Returned, Places
  <2> QED
    BY <2>1, <2>2, <2>5, <2>6
<1>2. CASE \E m \in Messages : ServerSends(m)
  <2> PICK m \in Messages : ServerSends(m)
    BY <1>2
  <2>1. /\ Queued' /\ Seen' = Seen /\ Seen \in 0..Len(sent)
        /\ \A i \in 1..Seen : sent'[i] = sent[i]
    BY SendQueue DEF ServerSends
  <2>2. Turn' /\ Printed' /\ Left' /\ Returned'
    BY <2>1 DEF ServerSends, Turn, Printed, Left, Returned
  <2> QED
    BY <2>1, <2>2
<1>3. CASE Enter \/ Connect \/ Send \/ ServerEnds \/ StreamEnds \/ Interrupted
             \/ CloseStream \/ Exit \/ UNCHANGED liveVars
  <2>1. UNCHANGED <<inbox, sent, printed>>
    BY <1>3 DEF Enter, Connect, Send, ServerEnds, StreamEnds, Interrupted, CloseStream,
                Exit, liveVars
  <2>2. Queued' /\ Printed' /\ Seen' = Seen
    BY <2>1, QuietStep
  <2>3. Turn'
    BY <1>3, <2>1, <2>2 DEF Enter, Connect, Send, ServerEnds, StreamEnds, Interrupted,
                CloseStream, Exit, liveVars, Turn, Places
  <2>4. Left' /\ Returned'
    BY <1>3, <2>1, <2>2 DEF Enter, Connect, Send, ServerEnds, StreamEnds, Interrupted,
                CloseStream, Exit, liveVars, Turn, Left, Returned
  <2> QED
    BY <2>2, <2>3, <2>4
<1> QED
  BY <1>1, <1>2, <1>3 DEF LiveNext, LiveStep

(* live.py: what is queued behind the message that completes the turn is   *)
(* not printed, and a session that returns has printed all the rest: for   *)
(* any number of messages, in any order of their arrival and their reading. *)
THEOREM OneTurnIsPrinted == Spec => []PrintsOneTurn
<1>1. Init => TurnInv
  BY TurnInit DEF Init
<1>2. TurnInv /\ [Next]_vars => TurnInv'
  BY TurnStep, StepsOfTheParts
<1>3. ASSUME TurnInv PROVE PrintsOneTurn
  <2> USE <1>3 DEF TurnInv
  <2>1. Seen \in 0..Len(sent) /\ Len(sent) \in Nat /\ DOMAIN sent = 1..Len(sent)
    BY DEF Queued, Seen
  <2>2. \A n \in DOMAIN printed : InTurn(printed[n]) /\ sent[printed[n]].text
    BY <2>1 DEF Printed, Turn, InTurn
  <2>3. ASSUME outcome = "returned", NEW i \in DOMAIN sent, InTurn(i), sent[i].text
        PROVE  \E n \in DOMAIN printed : printed[n] = i
    <3>1. inbox = <<>> \/ (Seen > 0 /\ sent[Seen].complete)
      BY <2>3 DEF Left, Returned
    <3>2. i \in 1..Seen
      <4>1. CASE inbox = <<>>
        BY <4>1, <2>1, <2>3 DEF Seen
      <4>2. CASE Seen > 0 /\ sent[Seen].complete
        BY <4>2, <2>1, <2>3 DEF InTurn
      <4> QED
        BY <3>1, <4>1, <4>2
    <3> QED
      BY <3>2, <2>3 DEF Printed
  <2> QED
    BY <2>2, <2>3 DEF PrintsOneTurn, Printed
<1> QED
  BY <1>1, <1>2, <1>3, PTL DEF Spec

-----------------------------------------------------------------------------
(* A non-empty set of numbers has a least one: among the intervals 0..n    *)
(* one is minimal, because finite sets are well-founded by inclusion.      *)
LEMMA LeastNatural ==
    ASSUME NEW T, T \subseteq Nat, T # {}
    PROVE  \E n \in T : \A m \in T : n <= m
<1> DEFINE I == {0..n : n \in T}
<1>1. IsWellFoundedOn(StrictSubsetOrdering(Nat), FiniteSubsetsOf(Nat))
  BY FS_StrictSubsetOrderingWellFounded, Zenon
<1>2. I \subseteq FiniteSubsetsOf(Nat)
  <2> SUFFICES ASSUME NEW n \in T
               PROVE  0..n \in FiniteSubsetsOf(Nat)
    OBVIOUS
  <2>1. 0..n \in SUBSET Nat
    OBVIOUS
  <2>2. IsFiniteSet(0..n)
    BY FS_Interval
  <2> QED
    BY <2>1, <2>2, Zenon DEF FiniteSubsetsOf
<1>3. I # {}
  OBVIOUS
<1>4. \E x \in I : \A y \in I : ~ (<<y, x>> \in StrictSubsetOrdering(Nat))
  BY <1>1, <1>2, <1>3, WFMin, Zenon
<1>5. PICK n \in T : \A m \in T : <<0..m, 0..n>> \notin StrictSubsetOrdering(Nat)
  BY <1>4
<1>6. ASSUME NEW m \in T, m < n
      PROVE  FALSE
  <2> DEFINE q == <<0..m, 0..n>>
  <2>1. q \in (SUBSET Nat) \X (SUBSET Nat)
    BY <1>6
  <2>2. n \in 0..n /\ n \notin 0..m /\ 0..m \subseteq 0..n
    BY <1>6
  <2>3. q[1] \subseteq q[2] /\ q[1] # q[2]
    BY <2>2
  <2>4. q \in StrictSubsetOrdering(Nat)
    BY <2>1, <2>3, Zenon DEF StrictSubsetOrdering
  <2> QED
    BY <1>5, <2>4
<1>7. \A m \in T : n <= m
  BY <1>6
<1> QED
  BY <1>7

(* Induction over the numbers, for a set. *)
LEMMA InductionUpTo ==
    ASSUME NEW n \in Nat, NEW S, 0 \in S, \A i \in 1..n : i - 1 \in S => i \in S
    PROVE  \A i \in 0..n : i \in S
<1> SUFFICES ASSUME (0..n) \ S # {}
             PROVE  FALSE
  OBVIOUS
<1>1. PICK i \in (0..n) \ S : \A j \in (0..n) \ S : i <= j
  <2>1. (0..n) \ S \subseteq Nat
    OBVIOUS
  <2> QED
    BY <2>1, LeastNatural
<1>2. i \in 1..n /\ i - 1 \in 0..n
  BY <1>1
<1> QED
  BY <1>1, <1>2

(* A recursive function over 0..n exists, where its steps stay in V. *)
Steps(n, V) == [1..n -> [V -> V]]
Solvable(n, V, base, step) ==
    \E f \in [0..n -> V] : f[0] = base /\ \A i \in 1..n : f[i] = step[i][f[i - 1]]

LEMMA RecursionExists ==
    ASSUME NEW n \in Nat, NEW V, NEW base \in V, NEW step \in Steps(n, V)
    PROVE  Solvable(n, V, base, step)
<1> USE DEF Steps
<1> DEFINE Solves(f, k) == f[0] = base /\ \A i \in 1..k : f[i] = step[i][f[i - 1]]
           S == {k \in 0..n : \E f \in [0..k -> V] : Solves(f, k)}
<1>1. 0 \in S
  <2> DEFINE g == [i \in 0..0 |-> base]
  <2>1. g \in [0..0 -> V] /\ Solves(g, 0)
    OBVIOUS
  <2> HIDE DEF g, Solves
  <2>2. \E f \in [0..0 -> V] : Solves(f, 0)
    BY <2>1
  <2> QED
    BY <2>2
<1>2. ASSUME NEW k \in 1..n, k - 1 \in S
      PROVE  k \in S
  <2>1. PICK f \in [0..(k - 1) -> V] : Solves(f, k - 1)
    BY <1>2
  <2> DEFINE g == [i \in 0..k |-> IF i = k THEN step[k][f[k - 1]] ELSE f[i]]
  <2>2. f[k - 1] \in V /\ step[k] \in [V -> V]
    BY <2>1
  <2>3. step[k][f[k - 1]] \in V
    BY <2>2
  <2>4. g \in [0..k -> V]
    BY <2>1, <2>3
  <2>5. g[0] = base
    BY <2>1
  <2>6. ASSUME NEW i \in 1..k
        PROVE  g[i] = step[i][g[i - 1]]
    BY <2>1
  <2>7. Solves(g, k)
    BY <2>5, <2>6
  <2> HIDE DEF g, Solves
  <2>8. \E h \in [0..k -> V] : Solves(h, k)
    BY <2>4, <2>7
  <2> QED
    BY <2>8
<1>3. n \in S
  <2> HIDE DEF S
  <2>1. \A i \in 1..n : i - 1 \in S => i \in S
    BY <1>2
  <2>2. \A i \in 0..n : i \in S
    BY <1>1, <2>1, InductionUpTo, Zenon
  <2> QED
    BY <2>2
<1>4. PICK f \in [0..n -> V] : Solves(f, n)
  BY <1>3
<1> QED
  BY <1>4 DEF Solvable

-----------------------------------------------------------------------------
(* argparse, token by token.  The tokens that the model names are strings, *)
(* which the provers do not know.                                          *)
Tokens == STRING \cup {None, PrivacyFlag, "--execute", "--model"}

Requests ==
    [stop : {"run", "usage", "help"}, action : Tokens, seen : SUBSET Tokens, filled : Nat,
     blank : BOOLEAN, wants : Tokens, words : BOOLEAN, surplus : BOOLEAN]

LEMMA UnabbreviatedIsAToken ==
    ASSUME NEW parser, NEW token \in Tokens
    PROVE  /\ Unabbreviated(parser, token) \in Tokens
           /\ Unabbreviated(parser, token) = "--execute" => token \in {"--execute", "--exec"}
           /\ token \notin DOMAIN Abbreviations => Unabbreviated(parser, token) = token
BY DEF Unabbreviated, Abbreviations, Tokens

LEMMA OptionsAreRead ==
    ASSUME NEW parser, NEW p \in Requests, NEW token \in Tokens
    PROVE  ReadOption(parser, p, token) \in Requests
<1> DEFINE o == Unabbreviated(parser, token)
<1>1. o \in Tokens
  BY UnabbreviatedIsAToken
<1> HIDE DEF o
<1>2. p.seen \cup {o} \in SUBSET Tokens
  BY <1>1 DEF Requests
<1>3. /\ [p EXCEPT !.stop = "usage"] \in Requests
      /\ [p EXCEPT !.stop = "help"] \in Requests
      /\ [p EXCEPT !.wants = o] \in Requests
      /\ [p EXCEPT !.surplus = TRUE] \in Requests
  BY <1>1 DEF Requests
<1>4. [p EXCEPT !.seen = @ \cup {o}] \in Requests
  BY <1>2 DEF Requests
<1> QED
  BY <1>3, <1>4 DEF ReadOption, o

LEMMA WordsAreRead ==
    ASSUME NEW c, NEW parser, NEW p \in Requests, NEW token \in Tokens
    PROVE  ReadWord(c, parser, p, token) \in Requests
<1>1. p.seen \cup {p.wants} \in SUBSET Tokens /\ None \in Tokens /\ p.filled + 1 \in Nat
  BY DEF Requests, Tokens
<1>2. /\ [p EXCEPT !.stop = "usage"] \in Requests
      /\ [p EXCEPT !.action = token] \in Requests
      /\ [p EXCEPT !.surplus = TRUE] \in Requests
  BY DEF Requests
<1>3. [p EXCEPT !.filled = @ + 1, !.blank = @ \/ token = Blank] \in Requests
  BY <1>1 DEF Requests
<1>4. [p EXCEPT !.wants = None, !.seen = @ \cup {p.wants},
                !.blank = @ \/ (token = Blank /\ p.wants \in parser.required)] \in Requests
  BY <1>1 DEF Requests
<1> QED
  BY <1>2, <1>3, <1>4 DEF ReadWord

LEMMA TokensAreRead ==
    \A c : \A p \in Requests, token \in Tokens : ReadToken(c, p, token) \in Requests
<1> SUFFICES ASSUME NEW c, NEW p \in Requests, NEW token \in Tokens
             PROVE  ReadToken(c, p, token) \in Requests
  OBVIOUS
<1>1. ReadDashes(c, p) \in Requests
  BY DEF ReadDashes, Requests
<1> QED
  BY <1>1, OptionsAreRead, WordsAreRead DEF ReadToken

LEMMA ReadStep ==
    ASSUME NEW c, NEW tokens \in Seq(Tokens)
    PROVE  /\ Read(c, tokens) \in [0..Len(tokens) -> Requests]
           /\ Read(c, tokens)[0] = Unread
           /\ \A i \in 1..Len(tokens) :
                 Read(c, tokens)[i] =
                    IF tokens[i] = PrivacyFlag THEN Read(c, tokens)[i - 1]
                    ELSE ReadToken(c, Read(c, tokens)[i - 1], tokens[i])
<1> DEFINE n == Len(tokens)
           step == [i \in 1..n |-> [p \in Requests |->
                      IF tokens[i] = PrivacyFlag THEN p ELSE ReadToken(c, p, tokens[i])]]
           Solution(f) == f = [i \in 0..n |->
                                 IF i = 0 THEN Unread
                                 ELSE IF tokens[i] = PrivacyFlag THEN f[i - 1]
                                 ELSE ReadToken(c, f[i - 1], tokens[i])]
<1>0. n \in Nat
  OBVIOUS
<1>1. Unread \in Requests
  BY DEF Unread, Requests, Tokens
<1>2. step \in Steps(n, Requests)
  BY TokensAreRead DEF Steps
<1>3. PICK f \in [0..n -> Requests] :
         f[0] = Unread /\ \A i \in 1..n : f[i] = step[i][f[i - 1]]
  <2> HIDE DEF step, n, Solution
  <2>1. Solvable(n, Requests, Unread, step)
    BY <1>0, <1>1, <1>2, RecursionExists
  <2> QED
    BY <2>1 DEF Solvable
<1>4. Solution(f)
  BY <1>3
<1>5. Read(c, tokens) = CHOOSE g : Solution(g)
  BY Zenon DEF Read
<1>6. Solution(Read(c, tokens))
  <2> HIDE DEF Solution
  <2> QED
    BY <1>4, <1>5
<1> HIDE DEF step
<1> DEFINE g == Read(c, tokens)
<1> HIDE DEF g
<1>7. /\ g[0] = Unread
      /\ \A i \in 1..n : g[i] = IF tokens[i] = PrivacyFlag THEN g[i - 1]
                                ELSE ReadToken(c, g[i - 1], tokens[i])
  <2>1. g = [i \in 0..n |-> IF i = 0 THEN Unread
                             ELSE IF tokens[i] = PrivacyFlag THEN g[i - 1]
                             ELSE ReadToken(c, g[i - 1], tokens[i])]
    BY <1>6 DEF g
  <2> HIDE DEF n
  <2>2. /\ g[0] = IF 0 = 0 THEN Unread
                  ELSE IF tokens[0] = PrivacyFlag THEN g[0 - 1]
                  ELSE ReadToken(c, g[0 - 1], tokens[0])
        /\ \A i \in 1..n : i \in 0..n /\ i # 0
    BY <1>0, <2>1
  <2>3. ASSUME NEW i \in 1..n
        PROVE  g[i] = IF tokens[i] = PrivacyFlag THEN g[i - 1]
                      ELSE ReadToken(c, g[i - 1], tokens[i])
    BY <2>1, <2>2
  <2> QED
    BY <2>2, <2>3
<1>8. \A i \in 0..n : g[i] \in Requests
  <2> DEFINE S == {i \in 0..n : g[i] \in Requests}
  <2>1. 0 \in S
    BY <1>1, <1>7
  <2>2. \A i \in 1..n : i - 1 \in S => i \in S
    BY <1>7, TokensAreRead
  <2> HIDE DEF S, n, Solution
  <2>3. \A i \in 0..n : i \in S
    BY <1>0, <2>1, <2>2, InductionUpTo, Zenon
  <2> QED
    BY <2>3 DEF S
<1>9. g \in [0..n -> Requests]
  BY <1>6, <1>8 DEF g
<1> QED
  BY <1>7, <1>9 DEF g

(* The parsers of the actions: --execute takes no value, and exactly the   *)
(* mutating actions have it.                                               *)
ParserFits(parser, mutating) ==
    /\ "--execute" \notin parser.valued
    /\ "--execute" \in parser.flags <=> mutating

LEMMA ActionsFit ==
    ASSUME NEW c \in ActionCommands, NEW a \in DOMAIN ActionParsers[c]
    PROVE  ParserFits(ActionParsers[c][a], a \in MutatingActions[c])
<1>1. CASE c = "files"
  <2>1. ActionParsers[c] = FilesParsers /\ MutatingActions[c] = {"upload", "delete", "download"}
    BY <1>1 DEF ActionParsers, MutatingActions
  <2>2. a \in {"upload", "list", "get", "delete", "download"}
    BY <2>1 DEF FilesParsers
  <2>3. \A b \in {"upload", "list", "get", "delete", "download"} :
           ParserFits(FilesParsers[b], b \in {"upload", "delete", "download"})
    BY DEF FilesParsers, ActionParser, Parser, ParserFits
  <2> QED
    BY <2>1, <2>2, <2>3
<1>2. CASE c = "cache"
  <2>1. ActionParsers[c] = CacheParsers /\ MutatingActions[c] = {"create", "delete"}
    BY <1>2 DEF ActionParsers, MutatingActions
  <2>2. a \in {"create", "list", "get", "delete"}
    BY <2>1 DEF CacheParsers
  <2>3. \A b \in {"create", "list", "get", "delete"} :
           ParserFits(CacheParsers[b], b \in {"create", "delete"})
    BY DEF CacheParsers, ActionParser, Parser, ParserFits
  <2> QED
    BY <2>1, <2>2, <2>3
<1>3. CASE c = "batch"
  <2>1. ActionParsers[c] = BatchParsers /\ MutatingActions[c] = {"create", "cancel"}
    BY <1>3 DEF ActionParsers, MutatingActions
  <2>2. a \in {"create", "list", "get", "cancel"}
    BY <2>1 DEF BatchParsers
  <2>3. \A b \in {"create", "list", "get", "cancel"} :
           ParserFits(BatchParsers[b], b \in {"create", "cancel"})
    BY DEF BatchParsers, ActionParser, Parser, ParserFits
  <2> QED
    BY <2>1, <2>2, <2>3
<1>4. CASE c = "file_search"
  <2>1. ActionParsers[c] = FileSearchParsers /\ MutatingActions[c] = {"create", "upload", "delete"}
    BY <1>4 DEF ActionParsers, MutatingActions
  <2>2. a \in {"create", "upload", "query", "list", "delete"}
    BY <2>1 DEF FileSearchParsers
  <2>3. \A b \in {"create", "upload", "query", "list", "delete"} :
           ParserFits(FileSearchParsers[b], b \in {"create", "upload", "delete"})
    BY DEF FileSearchParsers, ActionParser, Parser, ParserFits
  <2> QED
    BY <2>1, <2>2, <2>3
<1> QED
  BY <1>1, <1>2, <1>3, <1>4 DEF ActionCommands

(* The action, once it is known, is one of the command. *)
KnownAction(c, p) ==
    IF c \in ActionCommands THEN p.action = None \/ p.action \in DOMAIN ActionParsers[c]
                            ELSE p.action = None

LEMMA ParsersFit ==
    ASSUME NEW c, NEW p, KnownAction(c, p)
    PROVE  ParserFits(ReadBy(c, p), IF c \in ActionCommands
                                    THEN p.action # None /\ p.action \in MutatingActions[c]
                                    ELSE c \in MutatingCommands)
<1>1. CASE c \notin ActionCommands
  BY <1>1 DEF ReadBy, CommandParser, Parser, ParserFits, FlagsWithValues
<1>2. CASE c \in ActionCommands /\ p.action = None
  BY <1>2 DEF ReadBy, TopParser, Parser, ParserFits, FlagsWithValues
<1>3. CASE c \in ActionCommands /\ p.action # None
  BY <1>3, ActionsFit DEF ReadBy, KnownAction
<1> QED
  BY <1>1, <1>2, <1>3

-----------------------------------------------------------------------------
(* What argparse has seen of the first tokens, and as what. *)
OptionAt(tokens, i) == \A j \in 1..(i - 1) : tokens[j] # "--"

Asked(tokens, n) ==
    \E i \in 1..n : OptionAt(tokens, i) /\ tokens[i] \in {"--execute", "--exec"}

ReadsWhatIsThere(c, tokens, i, p) ==
    /\ KnownAction(c, p)
    /\ p.wants # "--execute"
    /\ "--execute" \in p.seen => Asked(tokens, i)
    /\ p.stop = "run" => (p.words <=> ~OptionAt(tokens, i + 1))
    /\ p.stop = "run" => \A j \in 1..i : OptionAt(tokens, j) => tokens[j] \notin HelpFlags

LEMMA OneMoreToken ==
    ASSUME NEW c, NEW tokens \in Seq(Tokens), NEW i \in 1..Len(tokens), NEW p \in Requests,
           ReadsWhatIsThere(c, tokens, i - 1, p)
    PROVE  ReadsWhatIsThere(c, tokens, i, ReadToken(c, p, tokens[i]))
<1> DEFINE t == tokens[i]
           parser == ReadBy(c, p)
           o == Unabbreviated(parser, t)
           q == ReadToken(c, p, t)
<1>0. i - 1 \in Nat /\ 1..i = 1..(i - 1) \cup {i} /\ t \in Tokens
  OBVIOUS
<1>1. /\ Asked(tokens, i - 1) => Asked(tokens, i)
      /\ OptionAt(tokens, i + 1) <=> OptionAt(tokens, i) /\ t # "--"
      /\ OptionAt(tokens, i) /\ t \in {"--execute", "--exec"} => Asked(tokens, i)
  BY <1>0 DEF Asked, OptionAt
<1>2. "--execute" \notin parser.valued
  BY ParsersFit DEF ReadsWhatIsThere, ParserFits
<1>3. o = "--execute" => t \in {"--execute", "--exec"}
  BY <1>0, UnabbreviatedIsAToken
<1>4. p.words = TRUE \/ p.words = FALSE
  BY DEF Requests
<1> HIDE DEF parser, o, q
<1>5. CASE p.stop # "run"
  <2>1. q = p
    BY <1>5 DEF q, ReadToken
  <2> QED
    BY <1>1, <1>5, <2>1 DEF ReadsWhatIsThere, q
<1>6. CASE p.stop = "run" /\ t = "--" /\ ~p.words
  <2>1. \/ q = [p EXCEPT !.stop = "usage"]
        \/ q = [p EXCEPT !.words = TRUE]
    BY <1>6 DEF q, ReadToken, ReadDashes
  <2>2. /\ q.action = p.action /\ q.wants = p.wants /\ q.seen = p.seen
        /\ q.stop = "run" => q.words
    BY <1>6, <2>1 DEF Requests
  <2>3. t \notin HelpFlags
    BY <1>6 DEF HelpFlags
  <2> QED
    BY <1>0, <1>1, <1>6, <2>2, <2>3 DEF ReadsWhatIsThere, KnownAction, q
<1>7. CASE p.stop = "run" /\ t # "--" /\ t \in Dashed /\ ~p.words
  <2>1. q = ReadOption(parser, p, t)
    BY <1>7 DEF q, ReadToken, parser
  <2>2. OptionAt(tokens, i)
    BY <1>0, <1>7 DEF ReadsWhatIsThere
  <2>3. CASE q.stop # "run"
    <3>1. q.action = p.action /\ q.wants = p.wants /\ q.seen = p.seen
      BY <1>7, <2>1, <2>3 DEF ReadOption, Requests
    <3> QED
      BY <1>1, <2>3, <3>1 DEF ReadsWhatIsThere, KnownAction, q
  <2>4. CASE q.stop = "run"
    <3>1. /\ t \notin HelpFlags
          /\ \/ o \in parser.valued /\ q = [p EXCEPT !.wants = o]
             \/ q = [p EXCEPT !.seen = @ \cup {o}]
             \/ q = [p EXCEPT !.surplus = TRUE]
      BY <1>7, <2>1, <2>4 DEF ReadOption, Requests, o
    <3>2. /\ q.action = p.action /\ q.words = p.words
          /\ q.wants \in {p.wants, o} /\ (q.wants = o /\ q.wants # p.wants => o \in parser.valued)
          /\ q.seen \subseteq p.seen \cup {o}
      BY <3>1 DEF Requests
    <3>3. q.wants # "--execute"
      BY <1>2, <3>2 DEF ReadsWhatIsThere
    <3>4. "--execute" \in q.seen => Asked(tokens, i)
      BY <1>1, <1>3, <2>2, <3>2 DEF ReadsWhatIsThere
    <3>5. \A j \in 1..i : OptionAt(tokens, j) => tokens[j] \notin HelpFlags
      BY <1>0, <1>7, <3>1 DEF ReadsWhatIsThere
    <3> QED
      BY <1>1, <1>7, <2>2, <3>2, <3>3, <3>4, <3>5 DEF ReadsWhatIsThere, KnownAction, q
  <2> QED
    BY <2>3, <2>4
<1>8. CASE p.stop = "run" /\ (t # "--" \/ p.words) /\ (t \notin Dashed \/ p.words)
  <2>1. q = ReadWord(c, parser, p, t)
    BY <1>8 DEF q, ReadToken, parser
  <2>2. /\ q.words = p.words /\ q.stop \in {"run", "usage"}
        /\ q.seen \subseteq p.seen \cup {p.wants}
        /\ q.wants \in {p.wants, None}
    BY <1>8, <2>1 DEF ReadWord, Requests
  <2>3. KnownAction(c, q)
    <3>1. CASE q.action = p.action
      BY <3>1 DEF ReadsWhatIsThere, KnownAction
    <3>2. CASE q.action # p.action
      BY <2>1, <3>2 DEF ReadWord, Requests, KnownAction
    <3> QED
      BY <3>1, <3>2
  <2>4. q.wants # "--execute" /\ ("--execute" \in q.seen => Asked(tokens, i))
    BY <1>1, <2>2 DEF ReadsWhatIsThere, None
  <2>5. ~p.words => t # "--" /\ t \notin HelpFlags
    BY <1>8 DEF Dashed
  <2>6. p.words => \A j \in 1..i : OptionAt(tokens, j) => tokens[j] \notin HelpFlags
    BY <1>0, <1>8 DEF ReadsWhatIsThere
  <2> QED
    BY <1>0, <1>1, <1>4, <1>8, <2>2, <2>3, <2>4, <2>5, <2>6 DEF ReadsWhatIsThere, q
<1> QED
  BY <1>4, <1>5, <1>6, <1>7, <1>8 DEF q

LEMMA ReadsNothing == \A c, tokens : ReadsWhatIsThere(c, tokens, 0, Unread)
<1> SUFFICES ASSUME NEW c, NEW tokens
             PROVE  ReadsWhatIsThere(c, tokens, 0, Unread)
  OBVIOUS
<1>1. OptionAt(tokens, 0 + 1)
  BY DEF OptionAt
<1>2. /\ Unread.action = None /\ Unread.wants = None /\ Unread.seen = {}
      /\ Unread.stop = "run" /\ Unread.words = FALSE
  BY DEF Unread
<1> QED
  BY <1>1, <1>2 DEF ReadsWhatIsThere, KnownAction, None

(* The policy's flag is none of what is looked for. *)
LEMMA OneMoreFlag ==
    ASSUME NEW c, NEW tokens \in Seq(Tokens), NEW i \in 1..Len(tokens), NEW p,
           ReadsWhatIsThere(c, tokens, i - 1, p), tokens[i] = PrivacyFlag
    PROVE  ReadsWhatIsThere(c, tokens, i, p)
<1>1. Asked(tokens, i - 1) => Asked(tokens, i)
  BY DEF Asked
<1>2. OptionAt(tokens, i + 1) <=> OptionAt(tokens, i)
  BY DEF OptionAt, PrivacyFlag
<1>3. tokens[i] \notin HelpFlags
  BY DEF PrivacyFlag, HelpFlags
<1> QED
  BY <1>1, <1>2, <1>3 DEF ReadsWhatIsThere

LEMMA EveryToken ==
    ASSUME NEW c, NEW tokens \in Seq(Tokens)
    PROVE  ReadsWhatIsThere(c, tokens, Len(tokens), Read(c, tokens)[Len(tokens)])
<1> DEFINE n == Len(tokens)
           r == Read(c, tokens)
           S == {i \in 0..n : ReadsWhatIsThere(c, tokens, i, r[i])}
<1>0. n \in Nat
  OBVIOUS
<1>1. /\ r \in [0..n -> Requests] /\ r[0] = Unread
      /\ \A i \in 1..n : r[i] = IF tokens[i] = PrivacyFlag THEN r[i - 1]
                                ELSE ReadToken(c, r[i - 1], tokens[i])
  BY ReadStep
<1> HIDE DEF n, r
<1>2. 0 \in S
  BY <1>0, <1>1, ReadsNothing
<1>3. ASSUME NEW i \in 1..n, i - 1 \in S
      PROVE  i \in S
  <2>1. /\ r[i - 1] \in Requests /\ ReadsWhatIsThere(c, tokens, i - 1, r[i - 1])
        /\ i \in 1..Len(tokens) /\ i \in 0..n
    BY <1>0, <1>1, <1>3 DEF n
  <2>2. CASE tokens[i] = PrivacyFlag
    <3>1. r[i] = r[i - 1]
      BY <1>1, <2>2
    <3>2. ReadsWhatIsThere(c, tokens, i, r[i - 1])
      BY <2>1, <2>2, OneMoreFlag
    <3> QED
      BY <2>1, <3>1, <3>2
  <2>3. CASE tokens[i] # PrivacyFlag
    <3>1. r[i] = ReadToken(c, r[i - 1], tokens[i])
      BY <1>1, <2>3
    <3>2. ReadsWhatIsThere(c, tokens, i, ReadToken(c, r[i - 1], tokens[i]))
      BY <2>1, OneMoreToken
    <3> QED
      BY <2>1, <3>1, <3>2
  <2> QED
    BY <2>2, <2>3
<1>4. \A i \in 1..n : i - 1 \in S => i \in S
  BY <1>3
<1> HIDE DEF S
<1>5. n \in S
  <2>1. \A i \in 0..n : i \in S
    BY <1>0, <1>2, <1>4, InductionUpTo, Zenon
  <2> QED
    BY <1>0, <2>1
<1> QED
  BY <1>5 DEF S, n, r

(* What is accepted is what was read. *)
LEMMA AcceptedIsComplete ==
    ASSUME NEW c, NEW tokens \in Seq(Tokens), Parse(c, tokens).stop = "run"
    PROVE  /\ Parse(c, tokens) = Read(c, tokens)[Len(tokens)]
           /\ ~Parse(c, tokens).surplus
<1> DEFINE p == Read(c, tokens)[Len(tokens)]
<1>1. p \in Requests
  BY ReadStep
<1> HIDE DEF p
<1>2. \/ Parse(c, tokens) = p /\ (p.stop = "run" => ~p.surplus)
      \/ Parse(c, tokens) = [p EXCEPT !.stop = "usage"]
  BY Zenon DEF Parse, p
<1> QED
  BY <1>1, <1>2 DEF Requests, p

(* argparse accepts --execute only as an option that the user wrote, and    *)
(* accepts nothing where help is asked for.                                *)
LEMMA AcceptedMeansAsked ==
    ASSUME NEW c, NEW tokens \in Seq(Tokens), Parse(c, tokens).stop = "run"
    PROVE  /\ KnownAction(c, Parse(c, tokens))
           /\ "--execute" \in Parse(c, tokens).seen => Asked(tokens, Len(tokens))
           /\ \A i \in 1..Len(tokens) : OptionAt(tokens, i) => tokens[i] \notin HelpFlags
BY EveryToken, AcceptedIsComplete DEF ReadsWhatIsThere

(* The tokens that are read are those of the command line. *)
Given ==
    /\ argv # <<>> /\ Command \in AllowedCommands
    /\ args \in {WithPrivacyFlag(Command, Tail(argv)), Tail(argv)}

LEMMA TokensAreGiven ==
    ASSUME argv \in Seq(STRING), Given
    PROVE  /\ args \in Seq(Tokens)
           /\ \A i \in 1..Len(args) : IF i < Len(argv) THEN args[i] = argv[i + 1]
                                                       ELSE args[i] = PrivacyFlag
           /\ Len(argv) - 1 \in 0..Len(args)
<1> DEFINE words == Tail(argv)
<1>1. /\ words \in Seq(STRING) /\ Len(words) = Len(argv) - 1 /\ Len(argv) >= 1
      /\ \A i \in 1..Len(words) : words[i] = argv[i + 1]
  BY DEF Given
<1>2. args = words \/ args = Append(words, PrivacyFlag)
  BY DEF Given, WithPrivacyFlag
<1> HIDE DEF words
<1>3. words \in Seq(Tokens) /\ PrivacyFlag \in Tokens
  <2>1. \A i \in 1..Len(words) : words[i] \in Tokens
    BY <1>1 DEF Tokens
  <2> QED
    BY <1>1, <2>1 DEF Tokens
<1>4. CASE args = words
  BY <1>1, <1>3, <1>4
<1>5. CASE args = Append(words, PrivacyFlag)
  BY <1>1, <1>3, <1>5
<1> QED
  BY <1>2, <1>4, <1>5

-----------------------------------------------------------------------------
(* What has an effect was accepted by the adapter's parser, and is one of  *)
(* the operations that its parser has --execute for.                       *)
Accepted == Given /\ request = Parse(Command, args) /\ request.stop = "run"

Effects ==
    /\ argv \in Seq(STRING)
    /\ pc \in {"policy", "parse"} => Given
    /\ pc \in {"run", "call", "save", "live"} => Accepted
    /\ pc = "save" => EmitsText(Command, request.action) \/ Kind \in {"media", "download"}
    /\ session => pc = "live"
    /\ HasEffect => Accepted
    /\ HasEffect => Kind \in {"change", "media", "download"}

LEMMA EffectsInit == Init => Effects
BY CommandLinesAssumption DEF Init, DispatchInit, LiveInit, Effects, HasEffect

LEMMA EffectsStep == Reports /\ Lines /\ Open /\ Effects /\ [Next]_vars => Effects'
<1> SUFFICES ASSUME Reports, Lines, Open, Effects, [Next]_vars
             PROVE  Effects'
  OBVIOUS
<1>1. CASE Run /\ (Start \/ EnforcePolicy)
  <2>1. /\ ~HasEffect' /\ argv' = argv /\ pc' \in {"end", "policy", "parse"}
        /\ session' = session /\ pc \in {"start", "policy"}
    BY <1>1 DEF Run, Start, EnforcePolicy, End, Continue, Lines, HasEffect, liveVars
  <2>2. ~session
    BY <2>1 DEF Effects
  <2>3. pc' # "end" => Given'
    <3>1. CASE Start
      BY <3>1 DEF Start, End, Continue, Given, Command
    <3>2. CASE EnforcePolicy
      BY <3>2 DEF EnforcePolicy, Effects, Given, Command
    <3> QED
      BY <1>1, <3>1, <3>2
  <2> QED
    BY <2>1, <2>2, <2>3 DEF Effects
<1>2. CASE Run /\ ParseArguments
  <2>1. /\ ~HasEffect' /\ argv' = argv /\ pc' \in {"end", "run"} /\ ~session'
        /\ args' = args /\ Command' = Command /\ Given /\ request' = Parse(Command, args)
        /\ pc' = "run" => request'.stop = "run"
    BY <1>2 DEF Run, ParseArguments, End, Continue, Lines, HasEffect, liveVars, Effects, Command
  <2>2. Given'
    BY <2>1 DEF Given
  <2> QED
    BY <2>1, <2>2 DEF Effects, Accepted
<1>3. CASE (Run /\ ~(Start \/ EnforcePolicy \/ ParseArguments)) \/ SessionReturns
  <2>1. /\ UNCHANGED <<argv, args, request, session>>
        /\ pc \in {"run", "call", "save", "live"}
        /\ pc' \in {"run", "call", "save", "live", "end"}
    BY <1>3 DEF Run, RunOperation, CannotCall, CallFails, CallReturns, OpenSession, SaveFile,
                SessionReturns, DispatchNext, MayCall, End, Continue, liveVars
  <2>2. Command' = Command /\ Kind' = Kind
    BY <2>1 DEF Command, Kind
  <2>3. Accepted /\ Accepted'
    BY <2>1, <2>2 DEF Effects, Accepted, Given
  <2>4. session => pc' = "live"
    <3>1. CASE SessionReturns
      BY <3>1 DEF SessionReturns, Open
    <3>2. CASE ~SessionReturns
      <4>0. \/ RunOperation \/ CannotCall \/ CallFails \/ CallReturns \/ OpenSession \/ SaveFile
        BY <1>3, <3>2 DEF Run, DispatchNext
      <4>1. pc \in {"run", "call", "save"}
        BY <4>0 DEF RunOperation, CannotCall, CallFails, CallReturns, OpenSession, SaveFile,
                    MayCall
      <4> QED
        BY <4>1 DEF Effects
    <3> QED
      BY <1>3, <3>1, <3>2
  <2>5. pc' = "save" => EmitsText(Command, request.action) \/ Kind \in {"media", "download"}
    <3>1. CASE CallReturns
      BY <3>1, Zenon DEF CallReturns, End, Continue
    <3>2. CASE ~CallReturns
      BY <1>3, <3>2 DEF Run, RunOperation, CannotCall, CallFails, OpenSession, SaveFile,
                        SessionReturns, DispatchNext, MayCall, End, Continue, Effects
    <3> QED
      BY <3>1, <3>2
  <2>6. HasEffect' => HasEffect \/ Kind \in {"change", "media", "download"}
    <3>1. CASE SaveFile
      <4> DEFINE kind == IF EmitsText(Command, request.action) THEN "text" ELSE Kind
      <4>1. kind = "text" \/ kind \in {"media", "download"}
        BY <3>1 DEF SaveFile, Effects
      <4>2. \/ outputs' = outputs
            \/ \E content \in {"empty", "part", "whole"} :
                  outputs' = Append(outputs, [kind |-> kind, content |-> content])
        BY <3>1 DEF SaveFile
      <4>3. performed' = performed
        BY <3>1 DEF SaveFile
      <4> HIDE DEF kind
      <4>4. outputs \in Seq([kind : Kinds, content : {"empty", "part", "whole"}])
        BY DEF Reports
      <4>5. CASE kind = "text"
        <5>1. \A i \in DOMAIN outputs' :
                 outputs'[i].kind = "text" \/ (i \in DOMAIN outputs /\ outputs'[i] = outputs[i])
          <6>1. CASE outputs' = outputs
            BY <6>1
          <6>2. CASE \E content \in {"empty", "part", "whole"} :
                        outputs' = Append(outputs, [kind |-> kind, content |-> content])
            <7>1. PICK content \in {"empty", "part", "whole"} :
                     outputs' = Append(outputs, [kind |-> "text", content |-> content])
              BY <6>2, <4>5
            <7>2. [kind |-> "text", content |-> content]
                     \in [kind : Kinds, content : {"empty", "part", "whole"}]
              BY DEF Kinds
            <7> QED
              BY <4>4, <7>1, <7>2, AppendedEntries
          <6> QED
            BY <4>2, <6>1, <6>2
        <5> QED
          BY <4>3, <5>1 DEF HasEffect
      <4>6. CASE kind \in {"media", "download"}
        BY <4>6 DEF kind
      <4> QED
        BY <4>1, <4>5, <4>6
    <3>2. CASE ~SaveFile
      BY <1>3, <3>2 DEF Run, RunOperation, CannotCall, CallFails, CallReturns, OpenSession,
                        SessionReturns, DispatchNext, IsChange, HasEffect
    <3> QED
      BY <3>1, <3>2
  <2> QED
    BY <2>1, <2>2, <2>3, <2>4, <2>5, <2>6 DEF Effects
<1>4. CASE Launch \/ Live \/ UNCHANGED vars
  <2>1. /\ UNCHANGED <<argv, args, request, pc, performed, outputs>>
        /\ session' => session \/ pc = "live"
    BY <1>4 DEF Launch, Live, vars, dispatchVars, liveVars
  <2>2. UNCHANGED <<Command, Kind, HasEffect>>
    BY <2>1 DEF Command, Kind, HasEffect
  <2>3. UNCHANGED <<Given, Accepted>>
    BY <2>1, <2>2 DEF Given, Accepted
  <2> QED
    BY <2>1, <2>2, <2>3 DEF Effects
<1> QED
  BY <1>1, <1>2, <1>3, <1>4 DEF Next, Run

(* Every operation with an effect has --execute in its parser. *)
LEMMA EffectsAreExecuted ==
    ASSUME Effects, Lines, HasEffect
    PROVE  "--execute" \in request.seen
<1>1. Accepted /\ Kind \in {"change", "media", "download"} /\ Executed
  BY DEF Effects, Lines
<1>2. argv \in Seq(STRING)
  BY DEF Effects
<1>3. args \in Seq(Tokens)
  BY <1>1, <1>2, TokensAreGiven DEF Accepted
<1>4. KnownAction(Command, request)
  BY <1>1, <1>3, AcceptedMeansAsked DEF Accepted
<1>5. IF Command \in ActionCommands
      THEN request.action # None /\ request.action \in MutatingActions[Command]
      ELSE Command \in MutatingCommands
  <2>1. CASE Command \in ActionCommands
    <3>1. Command \notin MediaCommands /\ Command # "live" /\ Command # "deep_research"
      BY <2>1 DEF ActionCommands, MediaCommands
    <3>2. \/ Command = "files" /\ request.action = "download"
          \/ request.action \in MutatingActions[Command]
      BY <1>1, <2>1, <3>1 DEF Kind, OperationKind, MediaCommands
    <3>3. Command = "files" => "download" \in MutatingActions[Command]
      BY DEF MutatingActions
    <3>4. None \notin MutatingActions[Command]
      BY <2>1 DEF ActionCommands, MutatingActions, None
    <3> QED
      BY <2>1, <3>2, <3>3, <3>4
  <2>2. CASE Command \notin ActionCommands
    BY <1>1, <2>2 DEF Kind, OperationKind, MutatingCommands, MediaCommands, ActionCommands
  <2> QED
    BY <2>1, <2>2
<1>6. "--execute" \in ReadBy(Command, request).flags
  BY <1>4, <1>5, ParsersFit DEF ParserFits
<1> QED
  BY <1>1, <1>6 DEF Executed, ChecksDryRun

LEMMA AcceptedIsAsked ==
    ASSUME argv \in Seq(STRING), Accepted
    PROVE  LET isOption(i) == \A j \in 1..(i - 1) : argv[j] # "--"
           IN  /\ "--execute" \in request.seen =>
                    \E i \in DOMAIN argv : isOption(i) /\ argv[i] \in {"--execute", "--exec"}
               /\ ~ \E i \in DOMAIN argv : isOption(i) /\ argv[i] \in HelpFlags
<1>1. /\ args \in Seq(Tokens)
      /\ \A i \in 1..Len(args) : IF i < Len(argv) THEN args[i] = argv[i + 1]
                                                  ELSE args[i] = PrivacyFlag
      /\ Len(argv) - 1 \in 0..Len(args)
  BY TokensAreGiven DEF Accepted
<1>2. /\ "--execute" \in request.seen => Asked(args, Len(args))
      /\ \A i \in 1..Len(args) : OptionAt(args, i) => args[i] \notin HelpFlags
  BY <1>1, AcceptedMeansAsked DEF Accepted
<1>3. argv[1] # "--" /\ argv[1] \notin HelpFlags
  BY DEF Accepted, Given, Command, AllowedCommands, ReadCommands, MutatingCommands,
         MediaCommands, ActionCommands, HelpFlags
<1>4. ASSUME NEW i \in 1..Len(args), i < Len(argv)
      PROVE  OptionAt(args, i) <=> OptionAt(argv, i + 1)
  <2>1. \A j \in 1..(i - 1) : args[j] = argv[j + 1]
    BY <1>1, <1>4
  <2>2. \A j \in 2..i : j - 1 \in 1..(i - 1) /\ argv[j] = args[j - 1]
    BY <2>1
  <2>3. 1..i = {1} \cup 2..i /\ (i + 1) - 1 = i
    OBVIOUS
  <2>4. (\A j \in 2..i : argv[j] # "--") <=> (\A j \in 1..(i - 1) : args[j] # "--")
    <3>1. \A j \in 1..(i - 1) : j + 1 \in 2..i
      OBVIOUS
    <3> QED
      BY <2>1, <2>2, <3>1
  <2>5. OptionAt(argv, i + 1) <=> \A j \in 1..i : argv[j] # "--"
    BY <2>3 DEF OptionAt
  <2> QED
    BY <1>3, <2>3, <2>4, <2>5 DEF OptionAt
<1>5. ASSUME Asked(args, Len(args))
      PROVE  \E i \in DOMAIN argv : OptionAt(argv, i) /\ argv[i] \in {"--execute", "--exec"}
  <2>1. PICK i \in 1..Len(args) : OptionAt(args, i) /\ args[i] \in {"--execute", "--exec"}
    BY <1>5 DEF Asked
  <2>2. i < Len(argv)
    BY <1>1, <2>1 DEF PrivacyFlag
  <2> QED
    BY <1>1, <1>4, <2>1, <2>2
<1>6. ASSUME NEW i \in DOMAIN argv, OptionAt(argv, i)
      PROVE  argv[i] \notin HelpFlags
  <2>1. CASE i = 1
    BY <1>3, <2>1
  <2>2. CASE i # 1
    <3>1. i - 1 \in 1..Len(args) /\ i - 1 < Len(argv) /\ (i - 1) + 1 = i
      BY <1>1, <2>2
    <3> QED
      BY <1>1, <1>2, <1>4, <1>6, <3>1
  <2> QED
    BY <2>1, <2>2
<1> QED
  BY <1>2, <1>5, <1>6 DEF OptionAt

(* dispatch.py: whatever the command line, the registry and the parsers    *)
(* are, something is changed only where the user wrote --execute as an     *)
(* option, and nothing happens where the user asked for help.              *)
THEOREM EffectsAreAlwaysAsked == Spec => []EffectsAreAsked
<1> DEFINE Inv == Reports /\ Lines /\ Open /\ Effects
<1>1. Init => Inv
  BY ReportsInit, LinesInit, OpenInit, EffectsInit DEF Init
<1>2. Inv /\ [Next]_vars => Inv'
  BY ReportsStep, LinesStep, OpenStep, EffectsStep, StepsOfTheParts
<1>3. Inv => EffectsAreAsked
  <2> SUFFICES ASSUME Inv
               PROVE  EffectsAreAsked
    OBVIOUS
  <2>1. HasEffect \/ session => Accepted /\ argv \in Seq(STRING)
    BY DEF Effects
  <2>2. HasEffect => "--execute" \in request.seen
    BY EffectsAreExecuted
  <2> QED
    BY <2>1, <2>2, AcceptedIsAsked DEF EffectsAreAsked
<1> QED
  BY <1>1, <1>2, <1>3, PTL DEF Spec

LEMMA NoneIsNoAction == \A c \in ActionCommands : None \notin DOMAIN ActionParsers[c]
<1>1. /\ None \notin DOMAIN FilesParsers /\ None \notin DOMAIN CacheParsers
      /\ None \notin DOMAIN BatchParsers /\ None \notin DOMAIN FileSearchParsers
  BY DEF FilesParsers, CacheParsers, BatchParsers, FileSearchParsers, None
<1> QED
  BY <1>1 DEF ActionCommands, ActionParsers

-----------------------------------------------------------------------------
(* The two readers of one command line. *)
LEMMA SkippedStep ==
    ASSUME NEW tokens \in Seq(Tokens)
    PROVE  /\ Skipped(tokens) \in [0..Len(tokens) -> BOOLEAN]
           /\ \A i \in 1..Len(tokens) :
                 Skipped(tokens)[i] <=> /\ i > 1 /\ tokens[i - 1] \in FlagsWithValues
                                        /\ ~Skipped(tokens)[i - 1]
<1> DEFINE n == Len(tokens)
           step == [i \in 1..n |-> [b \in BOOLEAN |->
                      i > 1 /\ tokens[i - 1] \in FlagsWithValues /\ ~b]]
           Solution(f) == f = [i \in 0..n |-> i > 1 /\ tokens[i - 1] \in FlagsWithValues
                                                    /\ ~f[i - 1]]
<1>0. n \in Nat
  OBVIOUS
<1>1. step \in Steps(n, BOOLEAN)
  BY DEF Steps
<1>2. PICK f \in [0..n -> BOOLEAN] :
         f[0] = FALSE /\ \A i \in 1..n : f[i] = step[i][f[i - 1]]
  <2> HIDE DEF step, n, Solution
  <2>1. Solvable(n, BOOLEAN, FALSE, step)
    BY <1>0, <1>1, RecursionExists
  <2> QED
    BY <2>1 DEF Solvable
<1>3. Solution(f)
  <2>0. \A i \in 1..n : \A b \in BOOLEAN :
           step[i][b] = (i > 1 /\ tokens[i - 1] \in FlagsWithValues /\ ~b)
    OBVIOUS
  <2>1. \A i \in 1..n : f[i] = (i > 1 /\ tokens[i - 1] \in FlagsWithValues /\ ~f[i - 1])
    <3> HIDE DEF step, n
    <3>1. \A i \in 1..n : f[i - 1] \in BOOLEAN
      BY <1>0, <1>2
    <3> QED
      BY <1>2, <2>0, <3>1
  <2>2. f[0] = (0 > 1 /\ tokens[0 - 1] \in FlagsWithValues /\ ~f[0 - 1])
    BY <1>2
  <2> HIDE DEF n
  <2>3. \A i \in 0..n : i = 0 \/ i \in 1..n
    BY <1>0
  <2>4. \A i \in 0..n : f[i] = (i > 1 /\ tokens[i - 1] \in FlagsWithValues /\ ~f[i - 1])
    BY <2>1, <2>2, <2>3
  <2> QED
    BY <1>2, <2>4
<1>4. Skipped(tokens) = CHOOSE g : Solution(g)
  BY Zenon DEF Skipped
<1>5. Solution(Skipped(tokens))
  <2> HIDE DEF Solution
  <2> QED
    BY <1>3, <1>4
<1> DEFINE g == Skipped(tokens)
<1> HIDE DEF g, step
<1>6. g = [i \in 0..n |-> i > 1 /\ tokens[i - 1] \in FlagsWithValues /\ ~g[i - 1]]
  BY <1>5 DEF g
<1> HIDE DEF n, Solution
<1>7. \A i \in 0..n : g[i] = (i > 1 /\ tokens[i - 1] \in FlagsWithValues /\ ~g[i - 1])
  BY <1>6
<1>8. g \in [0..n -> BOOLEAN]
  BY <1>6
<1> QED
  BY <1>7, <1>8 DEF g, n

(* At the end of the first i tokens both wait for a value, or none does,   *)
(* and both have found the same action, or none.                           *)
Awaits(tokens, i) == i >= 1 /\ tokens[i] \in FlagsWithValues /\ ~Skipped(tokens)[i]

IsAction(tokens, k) ==
    /\ k \in Words(tokens) /\ ~Skipped(tokens)[k]
    /\ \A j \in Words(tokens) : j < k => Skipped(tokens)[j]

Agree(c, tokens, i, p) ==
    p.stop = "run" /\ ~p.surplus =>
        /\ \A j \in 1..i : tokens[j] = "--execute" => "--execute" \in p.seen
        /\ c \in ActionCommands =>
              IF p.action = None
              THEN /\ \A j \in 1..i : j \in Words(tokens) => Skipped(tokens)[j]
                   /\ p.wants # None <=> Awaits(tokens, i)
              ELSE \E k \in 1..i : IsAction(tokens, k) /\ p.action = tokens[k]

LEMMA AgreeOnOne ==
    ASSUME NEW c, NEW tokens \in Seq(Tokens), Plain(tokens), NEW i \in 1..Len(tokens),
           NEW p \in Requests, KnownAction(c, p), p.stop = "run" => ~p.words,
           Agree(c, tokens, i - 1, p), tokens[i] # PrivacyFlag
    PROVE  Agree(c, tokens, i, ReadToken(c, p, tokens[i]))
<1> DEFINE t == tokens[i]
           parser == ReadBy(c, p)
           q == ReadToken(c, p, t)
<1>0. /\ i - 1 \in Nat /\ 1..i = 1..(i - 1) \cup {i} /\ t \in Tokens
      /\ i > 1 => i - 1 \in 1..Len(tokens)
  OBVIOUS
<1>1. t # "--" /\ t \notin DOMAIN Abbreviations
  BY DEF Plain, ToSet
<1>2. Unabbreviated(parser, t) = t
  BY <1>0, <1>1, UnabbreviatedIsAToken
<1>3. Skipped(tokens)[i] <=> Awaits(tokens, i - 1)
  BY <1>0, SkippedStep DEF Awaits
<1>4. "--execute" \notin parser.valued
  BY ParsersFit DEF ParserFits
<1>5. None \notin FlagsWithValues /\ FlagsWithValues \subseteq Dashed
  BY DEF None, FlagsWithValues, Dashed
<1>6. i \in Words(tokens) <=> t \notin Dashed
  BY DEF Words
<1> HIDE DEF q, parser
<1>7. CASE p.stop # "run" \/ p.surplus
  <2>1. q.stop # "run" \/ q.surplus
    <3>1. CASE p.stop # "run"
      BY <3>1 DEF q, ReadToken
    <3>2. CASE p.stop = "run" /\ p.surplus
      BY <1>1, <3>2 DEF q, ReadToken, ReadOption, ReadWord, Requests
    <3> QED
      BY <1>7, <3>1, <3>2
  <2> QED
    BY <2>1 DEF Agree, q
<1>8. CASE p.stop = "run" /\ ~p.surplus /\ t \in Dashed
  <2>1. q = ReadOption(parser, p, t)
    BY <1>1, <1>8 DEF q, ReadToken, parser
  <2>2. CASE q.stop # "run" \/ q.surplus
    BY <2>2 DEF Agree, q
  <2>3. CASE q.stop = "run" /\ ~q.surplus
    <3>1. /\ p.wants = None
          /\ \/ t \in parser.valued /\ q = [p EXCEPT !.wants = t]
             \/ t \notin parser.valued /\ q = [p EXCEPT !.seen = @ \cup {t}]
      BY <1>2, <1>8, <2>1, <2>3 DEF ReadOption, Requests
    <3>2. /\ q.action = p.action /\ p.seen \subseteq q.seen
          /\ IF t \in parser.valued THEN q.wants = t ELSE q.wants = None /\ t \in q.seen
      BY <3>1 DEF Requests
    <3>3. \A j \in 1..i : tokens[j] = "--execute" => "--execute" \in q.seen
      BY <1>0, <1>4, <1>8, <3>2 DEF Agree
    <3>4. CASE c \in ActionCommands /\ p.action = None
      <4>1. parser.valued = FlagsWithValues
        BY <3>4 DEF parser, ReadBy, TopParser, Parser
      <4>2. ~Skipped(tokens)[i]
        BY <1>3, <1>8, <3>1, <3>4 DEF Agree
      <4>3. q.wants # None <=> Awaits(tokens, i)
        BY <1>5, <3>2, <4>1, <4>2 DEF Awaits
      <4>4. \A j \in 1..i : j \in Words(tokens) => Skipped(tokens)[j]
        BY <1>0, <1>6, <1>8, <3>4 DEF Agree
      <4> QED
        BY <2>3, <3>2, <3>3, <3>4, <4>3, <4>4 DEF Agree, q
    <3>5. CASE c \in ActionCommands /\ p.action # None
      <4>1. \E k \in 1..i : IsAction(tokens, k) /\ q.action = tokens[k]
        BY <1>0, <1>8, <3>2, <3>5 DEF Agree
      <4> QED
        BY <3>2, <3>3, <3>5, <4>1 DEF Agree, q
    <3> QED
      BY <3>3, <3>4, <3>5 DEF Agree, q
  <2> QED
    BY <2>2, <2>3
<1>9. CASE p.stop = "run" /\ ~p.surplus /\ t \notin Dashed
  <2>1. q = ReadWord(c, parser, p, t)
    BY <1>1, <1>9 DEF q, ReadToken, parser
  <2>2. p.seen \subseteq q.seen
    BY <2>1 DEF ReadWord, Requests
  <2>3. \A j \in 1..i : tokens[j] = "--execute" => "--execute" \in q.seen
    BY <1>0, <1>9, <2>2 DEF Agree, Dashed
  <2>4. CASE c \in ActionCommands /\ p.action = None /\ p.wants # None
    <3>1. q.action = p.action /\ q.wants = None
      BY <2>1, <2>4 DEF ReadWord, Requests
    <3>2. Skipped(tokens)[i] /\ ~Awaits(tokens, i)
      BY <1>3, <1>9, <2>4 DEF Agree, Awaits
    <3>3. \A j \in 1..i : j \in Words(tokens) => Skipped(tokens)[j]
      BY <1>0, <1>9, <2>4, <3>2 DEF Agree
    <3> QED
      BY <2>3, <2>4, <3>1, <3>2, <3>3 DEF Agree, q
  <2>5. CASE c \in ActionCommands /\ p.action = None /\ p.wants = None
    <3>1. CASE q.stop # "run"
      BY <3>1 DEF Agree, q
    <3>2. CASE q.stop = "run"
      <4>1. t \in DOMAIN ActionParsers[c] /\ q.action = t
        BY <1>9, <2>1, <2>5, <3>2 DEF ReadWord, Requests
      <4>2. ~Skipped(tokens)[i]
        BY <1>3, <1>9, <2>5 DEF Agree
      <4>3. \A j \in Words(tokens) : j < i => Skipped(tokens)[j]
        BY <1>0, <1>9, <2>5 DEF Agree, Words
      <4>4. IsAction(tokens, i)
        BY <1>6, <1>9, <4>2, <4>3 DEF IsAction
      <4>5. q.action # None
        BY <2>5, <4>1, NoneIsNoAction
      <4> QED
        BY <2>3, <4>1, <4>4, <4>5 DEF Agree, q
    <3> QED
      BY <3>1, <3>2
  <2>6. CASE c \in ActionCommands /\ p.action # None
    <3>1. q.action = p.action
      BY <2>1, <2>6 DEF ReadWord, Requests
    <3>2. \E k \in 1..i : IsAction(tokens, k) /\ q.action = tokens[k]
      BY <1>0, <1>9, <2>6, <3>1 DEF Agree
    <3> QED
      BY <2>3, <2>6, <3>1, <3>2 DEF Agree, q
  <2> QED
    BY <2>3, <2>4, <2>5, <2>6 DEF Agree, q
<1> QED
  BY <1>7, <1>8, <1>9 DEF q

LEMMA TheyAgree ==
    ASSUME NEW c, NEW tokens \in Seq(Tokens), Plain(tokens)
    PROVE  Agree(c, tokens, Len(tokens), Read(c, tokens)[Len(tokens)])
<1> DEFINE n == Len(tokens)
           r == Read(c, tokens)
           S == {i \in 0..n : ReadsWhatIsThere(c, tokens, i, r[i]) /\ Agree(c, tokens, i, r[i])}
<1>0. n \in Nat
  OBVIOUS
<1>1. /\ r \in [0..n -> Requests] /\ r[0] = Unread
      /\ \A i \in 1..n : r[i] = IF tokens[i] = PrivacyFlag THEN r[i - 1]
                                ELSE ReadToken(c, r[i - 1], tokens[i])
  BY ReadStep
<1> HIDE DEF n, r
<1>2. 0 \in S
  <2>1. /\ Unread.action = None /\ Unread.wants = None
    BY DEF Unread
  <2>2. Agree(c, tokens, 0, Unread)
    BY <2>1 DEF Agree, Awaits
  <2> QED
    BY <1>0, <1>1, <2>2, ReadsNothing
<1>3. ASSUME NEW i \in 1..n, i - 1 \in S
      PROVE  i \in S
  <2>1. /\ r[i - 1] \in Requests /\ i \in 1..Len(tokens) /\ i \in 0..n
        /\ ReadsWhatIsThere(c, tokens, i - 1, r[i - 1]) /\ Agree(c, tokens, i - 1, r[i - 1])
    BY <1>0, <1>1, <1>3 DEF n
  <2>2. ReadsWhatIsThere(c, tokens, i, r[i])
    BY <1>1, <2>1, OneMoreToken, OneMoreFlag
  <2>3. CASE tokens[i] = PrivacyFlag
    <3>1. r[i] = r[i - 1] /\ i \notin Words(tokens) /\ tokens[i] # "--execute"
      BY <1>1, <2>3 DEF Words, Dashed, PrivacyFlag
    <3>2. ~Awaits(tokens, i) /\ ~Awaits(tokens, i - 1)
      BY <2>1, <2>3 DEF Awaits, Plain, FlagsWithValues, PrivacyFlag
    <3>3. 1..i = 1..(i - 1) \cup {i}
      BY <2>1
    <3>4. Agree(c, tokens, i, r[i - 1])
      BY <2>1, <3>1, <3>2, <3>3 DEF Agree
    <3> QED
      BY <2>1, <2>2, <3>1, <3>4
  <2>4. CASE tokens[i] # PrivacyFlag
    <3>1. r[i] = ReadToken(c, r[i - 1], tokens[i])
      BY <1>1, <2>4
    <3>2. OptionAt(tokens, (i - 1) + 1)
      BY <2>1 DEF OptionAt, Plain, ToSet
    <3>3. KnownAction(c, r[i - 1]) /\ (r[i - 1].stop = "run" => ~r[i - 1].words)
      BY <2>1, <3>2 DEF ReadsWhatIsThere
    <3>4. Agree(c, tokens, i, ReadToken(c, r[i - 1], tokens[i]))
      BY <2>1, <2>4, <3>3, AgreeOnOne
    <3> QED
      BY <2>1, <2>2, <3>1, <3>4
  <2> QED
    BY <2>3, <2>4
<1>4. \A i \in 1..n : i - 1 \in S => i \in S
  BY <1>3
<1> HIDE DEF S
<1>5. n \in S
  <2>1. \A i \in 0..n : i \in S
    BY <1>0, <1>2, <1>4, InductionUpTo, Zenon
  <2> QED
    BY <1>0, <2>1
<1> QED
  BY <1>5 DEF S, n, r

(* The first word in the place of an action is the action of both. *)
LEMMA SameAction ==
    ASSUME NEW c \in ActionCommands, NEW tokens \in Seq(Tokens), Plain(tokens),
           Parse(c, tokens).stop = "run"
    PROVE  ActionToken(tokens) = Parse(c, tokens).action
<1> DEFINE p == Read(c, tokens)[Len(tokens)]
           places == {i \in Words(tokens) : ~Skipped(tokens)[i]}
<1>1. Agree(c, tokens, Len(tokens), p)
  BY TheyAgree
<1>2. Parse(c, tokens) = p /\ p.stop = "run" /\ ~p.surplus
  BY AcceptedIsComplete
<1> HIDE DEF p
<1>3. places \subseteq 1..Len(tokens)
  BY DEF Words
<1>4. CASE p.action = None
  <2>1. places = {}
    BY <1>1, <1>2, <1>3, <1>4 DEF Agree
  <2> QED
    BY <1>2, <1>4, <2>1 DEF ActionToken, FirstOf
<1>5. CASE p.action # None
  <2>1. PICK k \in 1..Len(tokens) : IsAction(tokens, k) /\ p.action = tokens[k]
    BY <1>1, <1>2, <1>5 DEF Agree
  <2>2. k \in places /\ \A j \in places : k <= j
    BY <1>3, <2>1 DEF IsAction
  <2> HIDE DEF places
  <2>3. \A i \in places : (\A j \in places : i <= j) => i = k
    BY <1>3, <2>2
  <2>4. (CHOOSE i \in places : \A j \in places : i <= j) = k
    BY <2>2, <2>3
  <2>5. FirstOf(tokens, places) = tokens[k]
    BY <2>2, <2>4 DEF FirstOf
  <2> QED
    BY <1>2, <2>1, <2>5 DEF ActionToken, places
<1> QED
  BY <1>4, <1>5

LEMMA PolicyFits ==
    ASSUME NEW c \in AllowedCommands, NEW tokens \in Seq(Tokens), Plain(tokens),
           Parse(c, tokens).stop = "run", Policy(c, tokens) # "blocked"
    PROVE  Policy(c, tokens) = "dry run" <=>
              /\ ChecksDryRun(c, Parse(c, tokens))
              /\ "--execute" \notin Parse(c, tokens).seen
<1> DEFINE p == Parse(c, tokens)
<1>1. /\ KnownAction(c, p)
      /\ "--execute" \in p.seen => Asked(tokens, Len(tokens))
  BY AcceptedMeansAsked
<1>2. /\ p = Read(c, tokens)[Len(tokens)] /\ p.stop = "run" /\ ~p.surplus
  BY AcceptedIsComplete
<1>3. Agree(c, tokens, Len(tokens), p)
  BY <1>2, TheyAgree
<1> HIDE DEF p
<1>4. "--execute" \in p.seen <=> "--execute" \in ToSet(tokens)
  <2>1. Asked(tokens, Len(tokens)) => "--execute" \in ToSet(tokens)
    BY DEF Asked, Plain, ToSet, Abbreviations
  <2> QED
    BY <1>1, <1>2, <1>3, <2>1 DEF Agree, ToSet
<1>5. ChecksDryRun(c, p) <=> IsMutating(c, tokens)
  <2>1. CASE c \in ActionCommands
    <3>1. ActionToken(tokens) = p.action
      BY <2>1, SameAction DEF p
    <3>2. None \notin MutatingActions[c]
      BY <2>1 DEF ActionCommands, MutatingActions, None
    <3> QED
      BY <1>1, <2>1, <3>1, <3>2, ParsersFit DEF ParserFits, ChecksDryRun, IsMutating
  <2>2. CASE c \notin ActionCommands
    BY <1>1, <2>2, ParsersFit DEF ParserFits, ChecksDryRun, IsMutating
  <2> QED
    BY <2>1, <2>2
<1>6. Policy(c, tokens) = "dry run" <=> IsMutating(c, tokens) /\ "--execute" \notin ToSet(tokens)
  BY DEF Policy
<1> QED
  BY <1>4, <1>5, <1>6 DEF p

-----------------------------------------------------------------------------
GivenArgs == argv \in Seq(STRING) /\ (args # <<>> => pc # "start" /\ Given)

LEMMA GivenArgsStep == GivenArgs /\ [DispatchNext \/ SessionReturns]_dispatchVars => GivenArgs'
<1> SUFFICES ASSUME GivenArgs, [DispatchNext \/ SessionReturns]_dispatchVars
             PROVE  GivenArgs'
  OBVIOUS
<1>1. CASE Start
  <2>1. argv' = argv /\ pc' # "start"
    BY <1>1 DEF Start, End, Continue
  <2>2. args' # <<>> => Given'
    BY <1>1, <2>1 DEF Start, Given, Command
  <2> QED
    BY <2>1, <2>2 DEF GivenArgs
<1>2. CASE ~Start
  <2>1. UNCHANGED <<argv, args>> /\ (pc # "start" => pc' # "start")
    BY <1>2 DEF DispatchNext, EnforcePolicy, ParseArguments, RunOperation, CannotCall,
         CallFails, CallReturns, OpenSession, SaveFile, SessionReturns, dispatchVars,
         End, Continue
  <2> QED
    BY <2>1 DEF GivenArgs, Given, Command
<1> QED
  BY <1>1, <1>2

(* dispatch.py, helpers.py: on every command line that is written out, for  *)
(* every command, the policy ends as dry runs exactly the calls that the   *)
(* adapter itself would end: two readers with different knowledge of the   *)
(* options find the same action, or none.                                  *)
THEOREM PolicyIsAlwaysExact == Spec => []PolicyIsExact
<1>1. Init => GivenArgs
  BY CommandLinesAssumption DEF Init, DispatchInit, GivenArgs
<1>2. GivenArgs /\ [Next]_vars => GivenArgs'
  BY GivenArgsStep, StepsOfTheParts
<1>3. GivenArgs => PolicyIsExact
  <2> SUFFICES ASSUME GivenArgs, args # <<>>, Plain(args),
                      Parse(Command, args).stop = "run", Policy(Command, args) # "blocked"
               PROVE  Policy(Command, args) = "dry run" <=>
                         /\ ChecksDryRun(Command, Parse(Command, args))
                         /\ "--execute" \notin Parse(Command, args).seen
    BY DEF PolicyIsExact
  <2>1. Command \in AllowedCommands /\ args \in Seq(Tokens)
    BY TokensAreGiven DEF GivenArgs, Given
  <2> QED
    BY <2>1, PolicyFits
<1> QED
  BY <1>1, <1>2, <1>3, PTL DEF Spec
=============================================================================
