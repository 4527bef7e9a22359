--------------------------- MODULE FallbackPolicy ---------------------------
(***************************************************************************)
(* core/transport/policy.py and the retry rules of raw_http/client.py: the *)
(* exceptions that a backend raises, which of them let the coordinator try *)
(* the other backend, and which HTTP statuses the raw client tries again.  *)
(* An exception is its class and the status_code it carries.               *)
(***************************************************************************)
EXTENDS Integers

(* status_code is None, or the exception has no such attribute. *)
NoStatus == -1

Error(c, s) == [class |-> c, status |-> s]
Plain(c) == Error(c, NoStatus)

NeverFallback ==
    {"AuthError", "ModelNotFoundError", "CostLimitError",
     "AssertionError", "ValueError", "TypeError"}

AlwaysFallback ==
    {"BackendUnavailableError", "CapabilityUnavailableError", "ImportError",
     "URLError", "timeout", "ConnectionError"}

(* Classes outside both tables: an error of the file system (OSError) and  *)
(* one of the SDK's HTTP library.                                          *)
Unclassified == {"OSError", "SdkNetworkError"}

ErrorClasses ==
    NeverFallback \cup AlwaysFallback \cup Unclassified
        \cup {"APIError", "HTTPError", "JSONDecodeError"}

(* isinstance: HTTPError is a URLError, JSONDecodeError a ValueError. *)
IsInstance(e, classes) ==
    \/ e.class \in classes
    \/ e.class = "HTTPError" /\ "URLError" \in classes
    \/ e.class = "JSONDecodeError" /\ "ValueError" \in classes

(* A status that says that the request itself is wrong. *)
IsClientError(s) == 400 <= s /\ s < 500 /\ s # 429

(* Mutant of IsFallbackEligible: no look at the HTTP status. *)
EligibleAnyStatus(e) ==
    /\ ~IsInstance(e, NeverFallback)
    /\ e.class = "APIError" \/ IsInstance(e, AlwaysFallback)

(* The rules in their order: the table of refusals comes first. *)
IsFallbackEligible(e) ==
    /\ ~IsInstance(e, NeverFallback)
    /\ IF e.class = "APIError"
       THEN e.status = NoStatus \/ ~IsClientError(e.status)
       ELSE IsInstance(e, AlwaysFallback)

-----------------------------------------------------------------------------
(* _execute_with_retry: whether a reply with an error status is followed   *)
(* by another attempt.                                                     *)
RetriesStatus(s, method, attempt, maxRetries) ==
    \/ s = 504 /\ method = "GET" /\ attempt = 0
    \/ (s = 429 \/ (500 <= s /\ s <= 599 /\ s # 504)) /\ attempt < maxRetries

(* _wrap_sdk_errors: an error status becomes an exception of the skill. *)
AuthStatuses == {401, 403, 407}

(* Mutant of SdkStatusError: every other error is a server error. *)
SdkErrorCoarse(s) ==
    IF s \in AuthStatuses THEN Plain("AuthError") ELSE Error("APIError", 500)

SdkStatusError(s) ==
    IF s \in AuthStatuses THEN Plain("AuthError") ELSE Error("APIError", s)
=============================================================================
