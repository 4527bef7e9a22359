---------------------------- MODULE MCInvocation ----------------------------
(***************************************************************************)
(* Every short command line of every command in one environment, and a few *)
(* command lines in every environment.                                    *)
(***************************************************************************)
EXTENDS Invocation

MCKeys == {"key", "flag"}
MCValues == {"", "set"}
MCContents == {NoFile, BadFile,
               [k \in {"key"} |-> "set"],
               [k \in {"key", "flag"} |-> IF k = "key" THEN "" ELSE "set"]}

(* SeqOf(S, n) of the community modules, without a last "--". *)
Lines(tokens, n) == {l \in SeqOf(tokens, n) : l = <<>> \/ Last(l) # "--"}
Calls(c, tokens, n) == {<<c>> \o l : l \in Lines(tokens, n)}

MCCommandLines ==
    Calls("files", {"upload", "download", "list", "w", "--session", "--execute", "--exec",
                    "--mod", "-h"}, 4)
    \cup Calls("files", {"delete", "", "--model", "--", "--execute", "--own"}, 4)
    \cup Calls("files", {"upload", "list", "w", "--model", PrivacyFlag, "--execute"}, 4)
    \cup Calls("cache", {"create", "get", "w", "", "--session=w", "--execute", "--"}, 4)
    \cup Calls("file_search", {"query", "upload", "w", "--store", "--execute", "--model"}, 5)
    \cup {<<"batch">> \o l \o <<"--src", "w", "--dest", "w">> \o m :
            l \in Lines({"create", "cancel", "--model", "--execute"}, 2),
            m \in Lines({"--execute", "-h", "w", "--own"}, 2)}
    \cup UNION {Calls(c, {"w", "", "--execute", "--exec", "--model", "--own", "--help", "--"}, 3) :
                  c \in {"image_gen", "imagen", "deep_research", "maps"}}
    \cup UNION {Calls(c, {"w", "--execute", "--i-understand-privacy", "--continue"}, 3) :
                  c \in {"text", "video_gen", "plan_review", "search", "live"}}
    \cup {<<>>, <<"help">>, <<"-h">>, <<"models">>, <<"unknown", "w">>}

(* After an installation with a key, undisturbed. *)
Installed ==
    /\ files = [s \in SourceNames |-> IF s = "user settings" THEN [k \in {"key"} |-> "set"]
                                                              ELSE NoFile]
    /\ environ = NoSettings /\ host = "python" /\ venv = "copy" /\ edits = MaxEdits

(* Two command lines in every environment, which an edit makes worse. *)
Sampled ==
    /\ argv \in {<<"text", "w">>, <<"imagen", "w", "--execute">>}
    /\ files \in [SourceNames -> Contents \ {BadFile}]
    /\ environ = [k \in {"key", "flag"} |-> "set"] /\ host = "python" /\ edits = 0

CheckedInit == DispatchInit /\ (Installed \/ Sampled) /\ LaunchInit /\ LiveInit
Checked == CheckedInit /\ [][Next]_vars /\ Fairness
=============================================================================
