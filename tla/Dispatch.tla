------------------------------ MODULE Dispatch ------------------------------
(***************************************************************************)
(* core/cli/dispatch.py and the adapters behind it: the policy on the raw  *)
(* tokens, the adapter's parser, the adapter's own dry-run check, the call *)
(* of the service, and the files that its results are saved in.  Sessions, *)
(* polling and the live session have modules of their own.                 *)
(***************************************************************************)
EXTENDS CommandLine, RuntimeEnv

CONSTANTS
    CommandLines,   \* sys.argv[1:]
    ApiKey,         \* the key GEMINI_API_KEY among Keys
    NoText,         \* the value ""
    HostHasSdk,     \* google-genai can be imported without the .venv
    MaxImages       \* bound of the images in one answer

ASSUME CommandLinesAssumption == CommandLines \subseteq Seq(STRING)
ASSUME KeysAssumption == ApiKey \in Keys
ASSUME ImagesAssumption == MaxImages \in Nat

VARIABLES
    argv,       \* the command line
    args,       \* the tokens after the command, as the policy sees them
    known,      \* the policy found the command in the registry
    pc,
    request,    \* what argparse returned
    performed,  \* the mutating operations the service has performed
    images,     \* parts of the answer that are still to be saved
    outputs,    \* the files written
    reported,   \* the files whose path was printed
    verdict     \* how the command ended

dispatchVars == <<argv, args, known, pc, request, performed, images, outputs, reported, verdict>>

Command == argv[1]

(* What an operation does: with "change" the service changes something, a  *)
(* "download" and "media" end in files, "session" leaves to LiveSession.   *)
OperationKind(c, a) ==
    IF c \in MediaCommands \ {"video_gen"} THEN "media"
    ELSE IF c = "live" THEN "session"
    ELSE IF <<c, a>> = <<"files", "download">> THEN "download"
    ELSE IF c \in {"video_gen", "deep_research"}
              \/ (c \in ActionCommands /\ a \in MutatingActions[c]) THEN "change"
    ELSE "read"

(* check_dry_run is the adapter's own: in every operation whose parser has *)
(* --execute.                                                              *)
ChecksDryRun(c, p) == "--execute" \in ReadBy(c, p).flags

(* The operations that end in emit_output: a text above 50 KB is saved.    *)
EmitsText(c, a) ==
    \/ c \in ReadCommands \ {"streaming", "live", "embed", "token_count"}
    \/ c = "deep_research"
    \/ <<c, a>> = <<"file_search", "query">>

Verdicts == {"none", "help", "models", "unknown", "blocked", "dry run", "usage",
             "error", "no key", "no sdk", "failed", "done"}
Pcs == {"start", "policy", "parse", "run", "call", "save", "live", "end"}
Files == [kind : {"download", "media", "text"}, content : {"empty", "part", "whole"}]

DispatchTypeOK ==
    /\ known \in BOOLEAN
    /\ pc \in Pcs
    /\ performed \subseteq (AllowedCommands \X STRING)
    /\ images \in 0..MaxImages
    /\ outputs \in Seq(Files)
    /\ reported \subseteq DOMAIN outputs
    /\ verdict \in Verdicts
    /\ request.stop \in {"run", "usage", "help"}

DispatchInit ==
    /\ argv \in CommandLines
    /\ args = <<>>
    /\ known = FALSE
    /\ pc = "start"
    /\ request = Unread
    /\ performed = {}
    /\ images = 0
    /\ outputs = <<>>
    /\ reported = {}
    /\ verdict = "none"

-----------------------------------------------------------------------------
End(v) == pc' = "end" /\ verdict' = v
Continue(at) == pc' = at /\ verdict' = verdict

(* main: what needs no adapter ends here.  The privacy flag is added       *)
(* before the policy is asked, where capabilities.json can be read: a      *)
(* registry that is missing or half written counts as empty.               *)
Start ==
    /\ pc = "start" /\ stage = "main"
    /\ args' \in IF argv # <<>> /\ Command \in AllowedCommands
                 THEN {WithPrivacyFlag(Command, Tail(argv)), Tail(argv)} ELSE {<<>>}
    /\ IF argv = <<>> \/ Command \in HelpFlags \cup {"help"} THEN End("help")
       ELSE IF Command = "models" THEN End("models")
       ELSE IF Command \notin AllowedCommands THEN End("unknown")
       ELSE Continue("policy")
    /\ UNCHANGED <<argv, known, request, performed, images, outputs, reported>>

(* _enforce_policy reads the registry again, unless help is asked for.  A  *)
(* command that is not in it may do anything.                              *)
EnforcePolicy ==
    /\ pc = "policy"
    /\ known' \in IF HelpAsked(args) THEN {FALSE} ELSE BOOLEAN
    /\ LET says == IF known' THEN Policy(Command, args) ELSE "pass"
       IN  IF says = "pass" THEN Continue("parse") ELSE End(says)
    /\ UNCHANGED <<argv, args, request, performed, images, outputs, reported>>

(* The adapter's parser reads what the policy has let pass. *)
ParseArguments ==
    /\ pc = "parse"
    /\ request' = Parse(Command, args)
    /\ IF request'.stop = "run" THEN Continue("run") ELSE End(request'.stop)
    /\ UNCHANGED <<argv, args, known, performed, images, outputs, reported>>

Kind == OperationKind(Command, request.action)

(* Mutant of RunOperation: the adapter relies on the policy. *)
RunUnchecked ==
    /\ pc = "run"
    /\ IF Command \in ActionCommands /\ (request.action = None \/ request.blank)
       THEN End("error")
       ELSE Continue("call")
    /\ UNCHANGED <<argv, args, known, request, performed, images, outputs, reported>>

(* run: no action or an empty argument is an error, then the dry run. *)
RunOperation ==
    /\ pc = "run"
    /\ IF Command \in ActionCommands /\ (request.action = None \/ request.blank)
       THEN End("error")
       ELSE IF ChecksDryRun(Command, request) /\ "--execute" \notin request.seen
       THEN End("dry run")
       ELSE Continue("call")
    /\ UNCHANGED <<argv, args, known, request, performed, images, outputs, reported>>

-----------------------------------------------------------------------------
(* resolve_key: an empty value is no key. *)
HasKey == ApiKey \in DOMAIN environ /\ environ[ApiKey] # NoText

(* google.genai is in the .venv; elsewhere it may be. *)
HasSdk == path = "venv" \/ HostHasSdk

NeedsSdk == Command \in {"imagen", "live"}

(* The adapters that use the SDK themselves import it before they ask for  *)
(* the key; the others need the key only.                                  *)
CannotCall ==
    /\ pc = "call"
    /\ \/ NeedsSdk /\ ~HasSdk /\ End("no sdk")
       \/ ~(NeedsSdk /\ ~HasSdk) /\ ~HasKey /\ End("no key")
    /\ UNCHANGED <<argv, args, known, request, performed, images, outputs, reported>>

MayCall == pc = "call" /\ HasKey /\ (NeedsSdk => HasSdk)

Operation == <<Command, request.action>>
IsChange == Kind \in {"change", "media"}

(* Model selection, the request, or reading its answer raises: whether the *)
(* service performed a change is not known.                                *)
CallFails ==
    /\ pc = "call"
    /\ End("failed")
    /\ \/ performed' = performed
       \/ MayCall /\ IsChange /\ performed' = performed \cup {Operation}
    /\ UNCHANGED <<argv, args, known, request, images, outputs, reported>>

(* The answer is printed or, as a long text, saved; media and downloads    *)
(* are saved.  Only imagen saves more than one; an answer without a medium *)
(* is printed.                                                             *)
CallReturns ==
    /\ MayCall /\ Kind # "session"
    /\ performed' = IF IsChange THEN performed \cup {Operation} ELSE performed
    /\ \/ Kind \in {"change", "read"} /\ End("done") /\ UNCHANGED images
       \/ Kind = "download" /\ Continue("save") /\ images' = 1
       \/ EmitsText(Command, request.action) /\ Continue("save") /\ images' = 1
       \/ Kind = "media"
            /\ images' \in 0..(IF Command = "imagen" THEN MaxImages ELSE 1)
            /\ IF images' = 0 THEN End("done") ELSE Continue("save")
    /\ UNCHANGED <<argv, args, known, request, outputs, reported>>

OpenSession ==
    /\ MayCall /\ Kind = "session"
    /\ Continue("live")
    /\ UNCHANGED <<argv, args, known, request, performed, images, outputs, reported>>

(* mkstemp (a download: the path given), then the bytes; each may raise.   *)
(* write_bytes raises when they do not fit; os.write of emit_output may    *)
(* write a part and says nothing.  The paths are printed when all files    *)
(* are written.                                                            *)
SaveFile ==
    /\ pc = "save" /\ images > 0
    /\ LET kind == IF EmitsText(Command, request.action) THEN "text" ELSE Kind
       IN  \/ End("failed") /\ UNCHANGED <<outputs, images, reported>>
           \/ \E content \in {"empty", "part"} :
                 /\ outputs' = Append(outputs, [kind |-> kind, content |-> content])
                 /\ End("failed") /\ UNCHANGED <<images, reported>>
           \/ \E content \in {"whole"} \cup (IF kind = "text" THEN {"part"} ELSE {}) :
                 /\ outputs' = Append(outputs, [kind |-> kind, content |-> content])
                 /\ images' = images - 1
                 /\ IF images' = 0 THEN End("done") /\ reported' = DOMAIN outputs'
                                   ELSE Continue("save") /\ UNCHANGED reported
    /\ UNCHANGED <<argv, args, known, request, performed>>

DispatchNext ==
    \/ Start \/ EnforcePolicy \/ ParseArguments \/ RunOperation
    \/ CannotCall \/ CallFails \/ CallReturns \/ OpenSession \/ SaveFile

-----------------------------------------------------------------------------
(* Something was changed, at the service or on the disk of the user. *)
HasEffect == performed # {} \/ \E i \in DOMAIN outputs : outputs[i].kind # "text"

(* Everything is written out, and nothing stands where only one of the two *)
(* readers sees it: behind "--", or behind a privacy flag in the place of  *)
(* a value, which the policy skips and argparse never gets.                *)
Plain(tokens) ==
    /\ "--" \notin ToSet(tokens) /\ DOMAIN Abbreviations \cap ToSet(tokens) = {}
    /\ \A i \in 2..Len(tokens) :
          tokens[i] = PrivacyFlag => tokens[i - 1] \notin FlagsWithValues

(* The registry and the adapters agree, on every command line that         *)
(* argparse accepts and that is written out: the policy ends exactly those *)
(* calls as dry runs that the adapter would end, so that no read is taken  *)
(* for a change and no change for a read -- although the policy does not   *)
(* know the adapter's options and argparse does not know the registry.     *)
PolicyIsExact ==
    pc \notin {"start", "policy"} /\ args # <<>> /\ Plain(args) /\ ~HelpAsked(args) =>
        LET p == Parse(Command, args)
            says == Policy(Command, args)
        IN  p.stop = "run" /\ says # "blocked" =>
              (says = "dry run" <=> ChecksDryRun(Command, p) /\ "--execute" \notin p.seen)

(* The two lines of defence, each for itself: what has an effect was let   *)
(* pass by the policy, where it has a registry and is asked, and in any    *)
(* case executed by an adapter that had seen --execute.                    *)
BothLinesHold ==
    HasEffect =>
        /\ known => ~IsMutating(Command, args) \/ "--execute" \in ToSet(args)
        /\ ChecksDryRun(Command, request) => "--execute" \in request.seen
        /\ ~request.blank \/ Command \notin ActionCommands

(* A path is printed only of a file that has all its bytes, unless it is   *)
(* a long text, whose os.write nobody checks.                              *)
ReportedIsWhole ==
    \A i \in reported : outputs[i].kind # "text" => outputs[i].content = "whole"
=============================================================================
