----------------------------- MODULE Transport ------------------------------
(***************************************************************************)
(* core/transport: one call through the coordinator (coordinator.py), the  *)
(* SDK transport with its error mapping, the raw HTTP client with its      *)
(* retry loop, and a server that may perform a request and fail to say so. *)
(* Calls share no state but the configuration; when one has ended the next *)
(* begins.                                                                 *)
(***************************************************************************)
EXTENDS FallbackPolicy

CONSTANTS
    MaxRetries,     \* _MAX_RETRIES
    ErrorStatuses,  \* the HTTP error statuses that the server answers
    MaxChunks       \* bound: chunks of a stream

ASSUME RetriesAssumption == MaxRetries \in Nat \ {0} /\ MaxChunks \in Nat
ASSUME StatusesAssumption == ErrorStatuses \subseteq 400..599

VARIABLES
    setup,          \* the configuration and the installation
    call,           \* the call under way, or the last one
    at,             \* where it is
    role,           \* as what the backend was chosen
    attempt,        \* the attempt of the raw client's loop
    chunks,         \* chunks that the consumer of a stream has got
    result,         \* how the last call ended
    sends,          \* history: requests sent to the server in this call
    last,           \* history: the reply to the last of them
    performed       \* history: how often the server did what it was asked

vars == <<setup, call, at, role, attempt, chunks, result, sends, last, performed>>
history == <<sends, last, performed>>

(* Where the flags are from the environment, `alone` means a coordinator   *)
(* that was built without a fallback.                                      *)
Setups == [isSdkPriority : BOOLEAN, isRawhttpPriority : BOOLEAN,
           alone : BOOLEAN, hasKey : BOOLEAN, sdkInstalled : BOOLEAN]

(* `named`: the caller passes the capability to the coordinator, which the *)
(* facade never does; `supported`: SdkTransport claims it.                 *)
Calls == [kind : {"api", "upload", "stream"}, method : {"GET", "POST"},
          async : BOOLEAN, named : BOOLEAN, supported : BOOLEAN]

Replies == [kind : {"answer", "garbage", "lost", "badcert"}, status : {NoStatus}]
              \cup [kind : {"error"}, status : ErrorStatuses]
NoReply == [kind |-> "none", status |-> NoStatus]

Success == [class |-> "none", status |-> NoStatus]

PrimaryBackend ==
    IF setup.isSdkPriority THEN "sdk"
    ELSE IF setup.isRawhttpPriority THEN "raw_http"
    ELSE "sdk"

FallbackBackend ==
    IF setup.alone THEN "none"
    ELSE IF PrimaryBackend = "sdk" THEN "raw_http" ELSE "sdk"

(* The backend that runs. *)
Backend ==
    CASE role = "primary" -> PrimaryBackend
      [] role \in {"fallback", "gated"} -> FallbackBackend
      [] OTHER -> "none"

TypeOK ==
    /\ setup \in Setups
    /\ call \in Calls
    /\ at \in {"idle", "gate", "enter", "send", "stream"}
    /\ role \in {"none", "primary", "fallback", "gated"}
    /\ attempt \in 0..MaxRetries
    /\ chunks \in 0..MaxChunks
    /\ result \in [class : ErrorClasses \cup {"none"},
                   status : ErrorStatuses \cup {0, NoStatus}]
    /\ sends \in Nat
    /\ last \in Replies \cup {NoReply}
    /\ performed \in 0..sends

Init ==
    /\ setup \in Setups
    /\ call \in Calls
    /\ at = "idle"
    /\ role = "none"
    /\ attempt = 0
    /\ chunks = 0
    /\ result = Success
    /\ sends = 0
    /\ last = NoReply
    /\ performed = 0

-----------------------------------------------------------------------------
End(r) ==
    /\ at' = "idle"
    /\ result' = r
    /\ UNCHANGED <<role, attempt>>

(* A backend starts on the call. *)
Enter(r) ==
    /\ at' = "enter"
    /\ role' = r
    /\ attempt' = 0
    /\ UNCHANGED result

(* Mutant of Combined: a double failure returns nothing instead. *)
CombinedSwallowed(e) == Success

(* The APIError that wraps what the last backend raised. *)
Combined(e) == Error("APIError", e.status)

(* Mutant of Raise: when the fallback fails the primary gets another try. *)
RaiseToAndFro(e) ==
    IF call.kind = "stream" \/ call.async \/ role = "gated" THEN End(e)
    ELSE IF ~IsFallbackEligible(e) THEN End(e)
    ELSE IF FallbackBackend = "none" THEN End(Combined(e))
    ELSE Enter(IF role = "primary" THEN "fallback" ELSE "primary")

(* What the coordinator makes of an exception.  It catches those of the    *)
(* primary and of an error fallback; a generator raises when it is         *)
(* consumed, after _dispatch has returned it, and an asynchronous call is  *)
(* not dispatched by _dispatch.                                            *)
Raise(e) ==
    IF call.kind = "stream" \/ call.async \/ role = "gated" THEN End(e)
    ELSE IF role = "fallback" THEN End(Combined(e))
    ELSE IF ~IsFallbackEligible(e) THEN End(e)
    ELSE IF FallbackBackend = "none" THEN End(Combined(e))
    ELSE Enter("fallback")

Begin(c) ==
    /\ at = "idle"
    /\ call' = c
    /\ at' = "gate"
    /\ role' = "none"
    /\ attempt' = 0
    /\ chunks' = 0
    /\ result' = Success
    /\ sends' = 0
    /\ last' = NoReply
    /\ performed' = 0
    /\ UNCHANGED setup

(* The capability gate.  Only the SDK has capabilities that it refuses. *)
Refused == call.named /\ ~call.supported /\ PrimaryBackend = "sdk"

Gate ==
    /\ at = "gate"
    /\ ~call.async
    /\ IF ~Refused THEN Enter("primary")
       ELSE IF FallbackBackend = "none" THEN End(Plain("BackendUnavailableError"))
       ELSE Enter("gated")
    /\ UNCHANGED <<setup, call, chunks, history>>

(* An asynchronous call has the SDK or nothing. *)
AsyncGate ==
    /\ at = "gate"
    /\ call.async
    /\ IF PrimaryBackend = "sdk" /\ ~Refused
       THEN Enter("primary")
       ELSE End(Plain("BackendUnavailableError"))
    /\ UNCHANGED <<setup, call, chunks, history>>

-----------------------------------------------------------------------------
(* Errors before anything is sent: no SDK, or an endpoint or a tool that   *)
(* the SDK does not know; no key; an argument that a check or the types of *)
(* the SDK refuse; a file that cannot be read.                             *)
SdkMissing == Backend = "sdk" /\ ~setup.sdkInstalled
Ready == setup.hasKey /\ ~SdkMissing

LocalErrors ==
    {c \in ErrorClasses :
        \/ c = "BackendUnavailableError" /\ Backend = "sdk"
        \/ c = "AuthError" /\ ~setup.hasKey /\ ~SdkMissing
        \/ c \in {"ValueError", "TypeError"} /\ Ready
        \/ c = "ValueError" /\ call.kind = "upload"
        \/ c = "OSError" /\ call.kind = "upload" /\ Ready}

(* Mutant of FailLocally: the call is dispatched once more. *)
FailLocallyAgain ==
    /\ at = "enter"
    /\ at' = "gate"
    /\ role' = "none"
    /\ UNCHANGED <<setup, call, attempt, chunks, result, history>>

FailLocally ==
    /\ at = "enter"
    /\ \E c \in LocalErrors : Raise(Plain(c))
    /\ UNCHANGED <<setup, call, chunks, history>>

StartSending ==
    /\ at = "enter"
    /\ Ready
    /\ at' = "send"
    /\ UNCHANGED <<setup, call, role, attempt, chunks, result, history>>

(* The server answers, with or without having performed the request. *)
MayHavePerformed(reply) ==
    CASE reply.kind \in {"answer", "garbage"} -> {1}
      [] reply.kind = "badcert" -> {0}
      [] reply.kind = "lost" -> {0, 1}
      [] reply.kind = "error" -> IF reply.status >= 500 THEN {0, 1} ELSE {0}
      [] OTHER -> {0}

Exchange(reply) ==
    /\ at = "send"
    /\ sends' = sends + 1
    /\ last' = reply
    /\ \E n \in MayHavePerformed(reply) : performed' = performed + n

Answered ==
    IF call.kind = "stream"
    THEN at' = "stream" /\ UNCHANGED <<role, attempt, result>>
    ELSE End(Success)

(* The transport does not pass on the timeout that it is given, and the    *)
(* client is built without one.                                            *)
AwaitsSdk == at \in {"send", "stream"} /\ Backend = "sdk"

(* One operation of the SDK, its errors as _wrap_sdk_errors maps them: an  *)
(* answer that the SDK cannot read is an UnknownApiResponseError, one that *)
(* normalize.py cannot a TypeError.                                        *)
SdkErrors(reply) ==
    CASE reply.kind = "garbage" -> {Error("APIError", 0), Plain("TypeError")}
      [] reply.kind = "error" -> {SdkStatusError(reply.status)}
      [] OTHER -> {Plain("SdkNetworkError")}

SdkSend(reply) ==
    /\ Backend = "sdk"
    /\ Exchange(reply)
    /\ IF reply.kind = "answer" THEN Answered
       ELSE \E e \in SdkErrors(reply) : Raise(e)
    /\ UNCHANGED <<setup, call, chunks>>

(* _execute_with_retry: urllib turns a bad certificate into a URLError, so *)
(* that its clause treats it like any other error of the network.          *)
Retries(reply) ==
    CASE reply.kind = "error" ->
           RetriesStatus(reply.status, call.method, attempt, MaxRetries)
      [] reply.kind \in {"lost", "badcert"} -> attempt < MaxRetries
      [] OTHER -> FALSE

RetryError(reply) ==
    CASE reply.kind = "garbage" -> Plain("JSONDecodeError")
      [] reply.kind = "error" -> Error("APIError", reply.status)
      [] OTHER -> Plain("APIError")

RawApiCall(reply) ==
    /\ Backend = "raw_http"
    /\ call.kind = "api"
    /\ Exchange(reply)
    /\ IF reply.kind = "answer" THEN Answered
       ELSE IF Retries(reply)
            THEN attempt' = attempt + 1 /\ UNCHANGED <<at, role, result>>
            ELSE Raise(RetryError(reply))
    /\ UNCHANGED <<setup, call, chunks>>

(* upload_file and stream_generate_content send once and do not translate  *)
(* what urlopen raises; a stream skips chunks that it cannot parse.        *)
UrlError(reply) ==
    CASE reply.kind = "garbage" -> Plain("JSONDecodeError")
      [] reply.kind = "error" -> Plain("HTTPError")
      [] OTHER -> Plain("URLError")

RawOnce(reply) ==
    /\ Backend = "raw_http"
    /\ call.kind \in {"upload", "stream"}
    /\ Exchange(reply)
    /\ IF \/ reply.kind = "answer"
          \/ reply.kind = "garbage" /\ call.kind = "stream"
       THEN Answered
       ELSE Raise(UrlError(reply))
    /\ UNCHANGED <<setup, call, chunks>>

(* The consumer of a stream takes a chunk, the last one, or closes it. *)
NextChunk ==
    /\ at = "stream"
    /\ chunks < MaxChunks
    /\ chunks' = chunks + 1
    /\ UNCHANGED <<setup, call, at, role, attempt, result, history>>

EndStream ==
    /\ at = "stream"
    /\ End(Success)
    /\ UNCHANGED <<setup, call, chunks, history>>

BreakStream ==
    /\ at = "stream"
    /\ Raise(IF Backend = "sdk" THEN Plain("SdkNetworkError") ELSE Plain("OSError"))
    /\ UNCHANGED <<setup, call, chunks, history>>

-----------------------------------------------------------------------------
CallStep ==
    \/ Gate
    \/ AsyncGate
    \/ FailLocally
    \/ StartSending
    \/ \E reply \in Replies : SdkSend(reply) \/ RawApiCall(reply) \/ RawOnce(reply)
    \/ NextChunk
    \/ EndStream
    \/ BreakStream

Next == (\E c \in Calls : Begin(c)) \/ CallStep

(* The program runs.  A raw request gets its reply or times out: urlopen   *)
(* limits the silence of a socket, and no server here trickles an answer   *)
(* for ever.  Nothing is assumed of a request of the SDK.                  *)
Fairness == WF_vars(CallStep /\ ~AwaitsSdk)

Spec == Init /\ [][Next]_vars /\ Fairness

-----------------------------------------------------------------------------
(* A reply after which nothing can be gained by sending the request again. *)
IsFinal(reply) ==
    \/ reply.kind = "answer"
    \/ reply.kind = "error" /\ IsClientError(reply.status)

(* policy.py: "4xx (except 429) means the request itself was wrong -- the  *)
(* fallback will reject it the same way": through retries and both         *)
(* backends, an API call that was answered or refused is not sent again.   *)
NothingSentAfterFinal ==
    [][call.kind = "api" /\ IsFinal(last) => sends' <= sends]_vars

(* client.py, coordinator.py: the two loops together (retries inside each  *)
(* backend, fallback around them) send a request a bounded number of times *)
(* and the server performs it no more often.                               *)
SendsAreBounded ==
    /\ call.kind = "api" => sends <= MaxRetries + 2
    /\ call.kind = "upload" => sends <= 2
    /\ call.kind = "stream" \/ call.async => sends <= 1

(* coordinator.py: a call returns normally just when the last thing the    *)
(* server said was its answer; no exception hides an answer and no wrapped *)
(* exception makes a failure look like one.                                *)
Began == role # "none"

SuccessMeansAnswered ==
    at = "idle" /\ Began =>
        /\ result = Success => last.kind = "answer" \/ call.kind = "stream"
        /\ last.kind = "answer" /\ call.kind # "stream" => result = Success

(* coordinator.py: an error of an API call that carries an HTTP status     *)
(* carries the status of the server's last reply, whichever backend got it *)
(* (0 stands for an answer that the SDK could not read).                   *)
StatusIsTheLastReply ==
    at = "idle" /\ result.status > 0 =>
        last.kind = "error" /\ last.status = result.status

(* coordinator.py and both clients: every call returns or raises, through  *)
(* gates, retries and the fallback, unless a request of the SDK is never   *)
(* answered: then it hangs there and the fallback is not tried.            *)
CallsEnd == at # "idle" ~> (at = "idle" \/ []AwaitsSdk)
=============================================================================
