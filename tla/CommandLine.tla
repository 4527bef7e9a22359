---------------------------- MODULE CommandLine ----------------------------
(***************************************************************************)
(* What two readers make of one command line.  core/cli/dispatch.py scans  *)
(* the raw tokens to decide whether the call may change something; argparse *)
(* then reads them again with the parser of the adapter.  A token is an    *)
(* option, the name of an action, or a word; what a word says is left out. *)
(***************************************************************************)
EXTENDS Naturals, Sequences, SequencesExt

None == "none"
Blank == ""

-----------------------------------------------------------------------------
(* ALLOWED_COMMANDS, by what registry/capabilities.json says of them. *)
ReadCommands == {"text", "plan_review", "multimodal", "structured", "streaming",
                 "live", "embed", "token_count", "function_calling", "code_exec",
                 "search", "maps", "computer_use"}
MediaCommands == {"imagen", "image_gen", "music_gen", "video_gen"}
ActionCommands == {"files", "cache", "batch", "file_search"}
MutatingCommands == MediaCommands \cup {"deep_research"} \cup ActionCommands
AllowedCommands == ReadCommands \cup MutatingCommands
PrivacySensitive == {"search", "maps", "computer_use", "deep_research"}

MutatingActions == [files |-> {"upload", "delete", "download"},
                    cache |-> {"create", "delete"},
                    batch |-> {"create", "cancel"},
                    file_search |-> {"create", "upload", "delete"}]

-----------------------------------------------------------------------------
(* The dispatcher's scan. *)
PrivacyFlag == "--i-understand-privacy"
HelpFlags == {"--help", "-h"}
FlagsWithValues == {"--model", "--session"}
Abbreviations == [x \in {"--exec", "--mod"} |-> IF x = "--exec" THEN "--execute" ELSE "--model"]

(* Everything that starts with a dash. "--own" stands for the options that *)
(* only one adapter has, "--session=w" for an option written with its      *)
(* value.                                                                  *)
Dashed == FlagsWithValues \cup HelpFlags \cup DOMAIN Abbreviations
            \cup {"--continue", "--execute", PrivacyFlag, "--own", "--src", "--dest",
                  "--store", "--session=w", "--"}

(* The places the scan skips: behind an option that is known to have a     *)
(* value, unless that is itself at such a place.                           *)
Skipped(args) ==
    LET skips[i \in 0..Len(args)] ==
            i > 1 /\ args[i - 1] \in FlagsWithValues /\ ~skips[i - 1]
    IN  skips

Words(args) == {i \in 1..Len(args) : args[i] \notin Dashed}
FirstOf(args, places) ==
    IF places = {} THEN None ELSE args[CHOOSE i \in places : \A j \in places : i <= j]

(* Mutant of ActionToken: a value is taken for the action. *)
ActionTokenOfAnyFlag(args) == FirstOf(args, Words(args))

(* The first token that is neither an option nor the value of one that is  *)
(* known to have a value.                                                  *)
ActionToken(args) == FirstOf(args, {i \in Words(args) : ~Skipped(args)[i]})

(* Whether this invocation is mutating, by the registry. *)
IsMutating(c, args) ==
    IF c \in ActionCommands THEN ActionToken(args) \in MutatingActions[c]
                            ELSE c \in MutatingCommands

HelpAsked(args) == HelpFlags \cap ToSet(args) # {}

(* The privacy flag is appended where it is missing. *)
WithPrivacyFlag(c, args) ==
    IF c \in PrivacySensitive /\ PrivacyFlag \notin ToSet(args)
    THEN Append(args, PrivacyFlag) ELSE args

Policy(c, args) ==
    IF c \in PrivacySensitive /\ PrivacyFlag \notin ToSet(args) THEN "blocked"
    ELSE IF IsMutating(c, args) /\ "--execute" \notin ToSet(args) THEN "dry run"
    ELSE "pass"

-----------------------------------------------------------------------------
(* The parsers of the adapters: how many positionals they take and need,   *)
(* options with a value, options that must be there, and --execute.        *)
Parser(takes, needs, valued, required, executes) ==
    [takes |-> takes, needs |-> needs, valued |-> valued \cup required,
     required |-> required,
     flags |-> {"--continue", "--session=w"} \cup (IF executes THEN {"--execute"} ELSE {})]

(* A parser of an action has none of the options of the command. *)
ActionParser(takes, valued, required, executes) ==
    [Parser(takes, takes, valued, required, executes)
        EXCEPT !.flags = @ \ {"--continue", "--session=w"}]

CommandParser(c) ==
    Parser(1, IF c = "plan_review" THEN 0 ELSE 1, FlagsWithValues \cup {"--own"}, {},
           c \in MutatingCommands)

TopParser == Parser(0, 0, FlagsWithValues, {}, FALSE)

FilesParsers ==
    [upload |-> ActionParser(1, {"--own"}, {}, TRUE),
     list |-> ActionParser(0, {}, {}, FALSE),
     get |-> ActionParser(1, {}, {}, FALSE),
     delete |-> ActionParser(1, {}, {}, TRUE),
     download |-> ActionParser(2, {}, {}, TRUE)]

CacheParsers ==
    [create |-> ActionParser(1, {"--own"}, {}, TRUE),
     list |-> ActionParser(0, {}, {}, FALSE),
     get |-> ActionParser(1, {}, {}, FALSE),
     delete |-> ActionParser(1, {}, {}, TRUE)]

BatchParsers ==
    [create |-> ActionParser(0, {}, {"--src", "--dest"}, TRUE),
     list |-> ActionParser(0, {}, {}, FALSE),
     get |-> ActionParser(1, {}, {}, FALSE),
     cancel |-> ActionParser(1, {}, {}, TRUE)]

FileSearchParsers ==
    [create |-> ActionParser(1, {}, {}, TRUE),
     upload |-> ActionParser(2, {}, {}, TRUE),
     query |-> ActionParser(1, {}, {"--store"}, FALSE),
     list |-> ActionParser(0, {}, {}, FALSE),
     delete |-> ActionParser(1, {}, {}, TRUE)]

ActionParsers == [files |-> FilesParsers, cache |-> CacheParsers,
                  batch |-> BatchParsers, file_search |-> FileSearchParsers]

-----------------------------------------------------------------------------
(* argparse.  It goes through the tokens once; help and the errors about a *)
(* single token end it there, the others at the end.                       *)
Unread == [stop |-> "run", action |-> None, seen |-> {}, filled |-> 0,
           blank |-> FALSE, wants |-> None, words |-> FALSE, surplus |-> FALSE]

ReadBy(c, p) ==
    IF c \notin ActionCommands THEN CommandParser(c)
    ELSE IF p.action = None THEN TopParser ELSE ActionParsers[c][p.action]

(* An abbreviation stands for the option that the parser has. *)
Unabbreviated(parser, token) ==
    IF token \in DOMAIN Abbreviations
         /\ Abbreviations[token] \in parser.valued \cup parser.flags
    THEN Abbreviations[token] ELSE token

ReadOption(parser, p, token) ==
    LET o == Unabbreviated(parser, token)
    IN  IF p.wants # None THEN [p EXCEPT !.stop = "usage"]
        ELSE IF token \in HelpFlags THEN [p EXCEPT !.stop = "help"]
        ELSE IF o \in parser.valued THEN [p EXCEPT !.wants = o]
        ELSE IF o \in parser.flags THEN [p EXCEPT !.seen = @ \cup {o}]
        ELSE [p EXCEPT !.surplus = TRUE]

ReadWord(c, parser, p, token) ==
    IF p.wants # None
    THEN [p EXCEPT !.wants = None, !.seen = @ \cup {p.wants},
                   !.blank = @ \/ (token = Blank /\ p.wants \in parser.required)]
    ELSE IF c \in ActionCommands /\ p.action = None
    THEN IF token \in DOMAIN ActionParsers[c] THEN [p EXCEPT !.action = token]
                                              ELSE [p EXCEPT !.stop = "usage"]
    ELSE IF p.filled < parser.takes
    THEN [p EXCEPT !.filled = @ + 1, !.blank = @ \/ token = Blank]
    ELSE [p EXCEPT !.surplus = TRUE]

(* After "--" everything is a word; before an action it is no action. *)
ReadDashes(c, p) ==
    IF p.wants # None \/ (c \in ActionCommands /\ p.action = None)
    THEN [p EXCEPT !.stop = "usage"] ELSE [p EXCEPT !.words = TRUE]

ReadToken(c, p, token) ==
    LET parser == ReadBy(c, p)
    IN  IF p.stop # "run" THEN p
        ELSE IF token = "--" /\ ~p.words THEN ReadDashes(c, p)
        ELSE IF token \in Dashed /\ ~p.words THEN ReadOption(parser, p, token)
        ELSE ReadWord(c, parser, p, token)

(* What is known after each token.  The policy's flag is taken out of them, *)
(* wherever it stands, before argparse reads.                              *)
Read(c, args) ==
    LET read[i \in 0..Len(args)] ==
            IF i = 0 THEN Unread
            ELSE IF args[i] = PrivacyFlag THEN read[i - 1]
            ELSE ReadToken(c, read[i - 1], args[i])
    IN  read

(* parse_args: what is missing or too much is found at the end. *)
Parse(c, args) ==
    LET p == Read(c, args)[Len(args)]
        parser == ReadBy(c, p)
        incomplete == p.wants # None \/ p.surplus \/ p.filled < parser.needs
                        \/ ~ parser.required \subseteq p.seen
    IN  IF p.stop = "run" /\ incomplete THEN [p EXCEPT !.stop = "usage"] ELSE p
=============================================================================
