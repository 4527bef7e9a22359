---------------------------- MODULE MCInstaller -----------------------------
(* A directory, and setup/requirements.txt.                               *)
EXTENDS Installer, TLC

CONSTANTS p1, p2
TwoProcs == {p1, p2}
SmallPayload == <<"core", "setup">>
SomeDirs == {"core"}
OldFiles == {"gone"}
SomeKeys == {"GEMINI_API_KEY", "GEMINI_IS_SDK_PRIORITY"}

Symmetric == Permutations(TwoProcs)

(* Of the virtual environment, the legacy .env and settings.json, one is   *)
(* unusual at a time; the .env has a key of the skill's or one of others,  *)
(* and a user's value is a string or not.                                  *)
UserHas(v) == settings = [k \in {ApiKey, ForeignKey} |-> v]
LegacyHas(k, v) == dotenv = [x \in {k} |-> v]
SomeSettings == settings \in {None, Empty} \cup Unreadable \/ UserHas("user") \/ UserHas("odd")
SomeDotenv ==
    \/ dotenv = None
    \/ LegacyHas(ApiKey, "empty")
    \/ LegacyHas(ApiKey, "legacy")
    \/ LegacyHas(ForeignKey, "legacy")
OneByOne ==
    /\ SomeSettings /\ SomeDotenv
    /\ exists => \/ UserHas("user") /\ (dotenv = None \/ venv = "ready")
                 \/ LegacyHas(ApiKey, "legacy") /\ venv = "ready"
CheckedInit == Init /\ OneByOne
CheckedSpec == CheckedInit /\ [][Next]_vars
=============================================================================
