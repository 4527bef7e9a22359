-------------------------- MODULE Transport_proofs ---------------------------
(* Proofs about Transport for every number of retries and set of statuses. *)
EXTENDS Transport, TLAPS

(* How many requests have gone out where the call is: each backend sends   *)
(* one, or the raw client one for each attempt; only a dispatched call     *)
(* gets to the fallback.                                                   *)
PrimaryMost ==
    IF call.kind = "api" /\ PrimaryBackend = "raw_http" THEN MaxRetries + 1 ELSE 1

Counting ==
    /\ at \in {"enter", "send"} => role # "none"
    /\ at = "gate" => sends = 0
    /\ at = "enter" => attempt = 0
    /\ Backend = "sdk" \/ call.kind # "api" => attempt = 0
    /\ role = "none" => sends = 0
    /\ role \in {"primary", "gated"} /\ at \in {"enter", "send"} => sends = attempt
    /\ role \in {"primary", "gated"} => sends <= MaxRetries + 1
    /\ role = "primary" => sends <= PrimaryMost
    /\ role = "gated" /\ call.kind # "api" => sends <= 1
    /\ role = "fallback" /\ at \in {"enter", "send"} => sends <= PrimaryMost + attempt
    /\ role = "fallback" =>
          /\ FallbackBackend # "none"
          /\ call.kind # "stream"
          /\ ~call.async
    /\ role = "fallback" => sends <= PrimaryMost + attempt + 1
    /\ call.async => role = "none" \/ (role = "primary" /\ PrimaryBackend = "sdk")
    /\ at = "stream" => call.kind = "stream"
    /\ role = "gated" => PrimaryBackend = "sdk"

(* Where a reply that settles the call leaves it. *)
Settled ==
    /\ at = "gate" => last = NoReply
    /\ role = "none" => last = NoReply
    /\ call.kind = "api" /\ IsFinal(last) => at \notin {"enter", "send"}
    /\ call.kind # "stream" /\ last.kind = "answer" => at \notin {"enter", "send"}

IInv == TypeOK /\ Counting /\ SendsAreBounded /\ Settled
            /\ SuccessMeansAnswered /\ StatusIsTheLastReply

-----------------------------------------------------------------------------
(* The two backends of a coordinator differ. *)
LEMMA Backends ==
    /\ PrimaryBackend \in {"sdk", "raw_http"}
    /\ FallbackBackend \in {"sdk", "raw_http", "none"}
    /\ FallbackBackend # PrimaryBackend
    /\ role = "primary" => Backend = PrimaryBackend
    /\ role \in {"fallback", "gated"} => Backend = FallbackBackend
    /\ role = "none" => Backend = "none"
BY DEF PrimaryBackend, FallbackBackend, Backend

(* The two outcomes of an exception: the call ends with it or with what it *)
(* was wrapped into, or the fallback starts.                               *)
EndsWith(r) == at' = "idle" /\ result' = r /\ role' = role /\ attempt' = attempt

FallsBack ==
    /\ role \notin {"gated", "fallback"}
    /\ call.kind # "stream"
    /\ ~call.async
    /\ FallbackBackend # "none"
    /\ at' = "enter"
    /\ role' = "fallback"
    /\ attempt' = 0
    /\ result' = result

LEMMA RaiseOutcomes ==
    ASSUME NEW e, Raise(e)
    PROVE  \/ EndsWith(e) \/ EndsWith(Combined(e))
           \/ FallsBack /\ IsFallbackEligible(e)
BY DEF Raise, End, Enter, EndsWith, FallsBack

(* What the backends raise for a reply: an exception whose HTTP status, if *)
(* it has one, is that of the reply.                                       *)
Raised(reply) ==
    {e \in [class : ErrorClasses, status : ErrorStatuses \cup {0, NoStatus}] :
        e.status \in {0, NoStatus} \/ (reply.kind = "error" /\ e.status = reply.status)}

LEMMA RaisedErrors ==
    ASSUME NEW reply \in Replies, reply.kind # "answer"
    PROVE  /\ SdkErrors(reply) \subseteq Raised(reply)
           /\ RetryError(reply) \in Raised(reply)
           /\ UrlError(reply) \in Raised(reply)
BY DEF Replies, Raised, SdkErrors, SdkStatusError, RetryError, UrlError, Plain, Error,
       ErrorClasses, NeverFallback, AlwaysFallback, Unclassified, NoStatus

(* A refused API call raises something that the policy does not let fall   *)
(* back.                                                                   *)
LEMMA RefusalsAreTerminal ==
    ASSUME NEW reply \in Replies, IsFinal(reply), reply.kind # "answer"
    PROVE  /\ \A e \in SdkErrors(reply) : ~IsFallbackEligible(e)
           /\ ~IsFallbackEligible(RetryError(reply))
           /\ ~Retries(reply)
BY RetriesAssumption, StatusesAssumption
   DEF Replies, IsFinal, IsClientError, SdkErrors, SdkStatusError, RetryError, Retries,
       RetriesStatus, IsFallbackEligible, IsInstance, NeverFallback, AlwaysFallback,
       Plain, Error, NoStatus, AuthStatuses

-----------------------------------------------------------------------------
(* The parts of the state that a step inside a call leaves alone decide    *)
(* which backends there are.                                               *)
LEMMA SameBackends ==
    ASSUME UNCHANGED setup
    PROVE  PrimaryBackend' = PrimaryBackend /\ FallbackBackend' = FallbackBackend
BY DEF PrimaryBackend, FallbackBackend

LEMMA InitHolds == Init => IInv
<1> SUFFICES ASSUME Init PROVE IInv
    OBVIOUS
<1>1. TypeOK
    BY RetriesAssumption DEF Init, TypeOK, Success, ErrorClasses, NoStatus
<1>2. Counting /\ SendsAreBounded
    BY RetriesAssumption, Backends DEF Init, Counting, SendsAreBounded, PrimaryMost
<1>3. Settled /\ SuccessMeansAnswered /\ StatusIsTheLastReply
    BY DEF Init, Settled, SuccessMeansAnswered, StatusIsTheLastReply, Began, IsFinal,
           NoReply, Success, NoStatus
<1> QED
    BY <1>1, <1>2, <1>3 DEF IInv

LEMMA BeginHolds == ASSUME IInv, NEW c \in Calls, Begin(c) PROVE IInv'
<1> USE DEF Begin
<1>1. TypeOK'
    BY RetriesAssumption DEF IInv, TypeOK, Success, ErrorClasses, NoStatus
<1>2. (Counting /\ SendsAreBounded)'
    BY <1>1, RetriesAssumption, Backends DEF Backend, Counting, SendsAreBounded, PrimaryMost
<1>3. (Settled /\ SuccessMeansAnswered /\ StatusIsTheLastReply)'
    BY DEF Settled, SuccessMeansAnswered, StatusIsTheLastReply, Began, IsFinal,
           NoReply, Success, NoStatus
<1> QED
    BY <1>1, <1>2, <1>3 DEF IInv

LEMMA GateHolds == ASSUME IInv, Gate \/ AsyncGate PROVE IInv'
<1> USE DEF Gate, AsyncGate, Enter, End, history
<1>1. TypeOK'
    BY RetriesAssumption DEF IInv, TypeOK, Plain, Error, ErrorClasses, AlwaysFallback, NoStatus
<1>2. (Counting /\ SendsAreBounded)'
    BY <1>1, RetriesAssumption, Backends, SameBackends
       DEF IInv, TypeOK, Backend, Counting, SendsAreBounded, PrimaryMost, Refused
<1>3. (Settled /\ SuccessMeansAnswered /\ StatusIsTheLastReply)'
    BY DEF IInv, Settled, SuccessMeansAnswered, StatusIsTheLastReply, Began, IsFinal,
           NoReply, Success, NoStatus, Plain, Error
<1> QED
    BY <1>1, <1>2, <1>3 DEF IInv

LEMMA FailLocallyHolds == ASSUME IInv, FailLocally PROVE IInv'
<1>1. PICK c \in LocalErrors : Raise(Plain(c))
    BY DEF FailLocally
<1>2. c \in ErrorClasses
    BY DEF LocalErrors
<1>3. at = "enter" /\ UNCHANGED <<setup, call, chunks, sends, last, performed>>
    BY DEF FailLocally, history
<1>4. CASE EndsWith(Plain(c)) \/ EndsWith(Combined(Plain(c)))
    <2>1. /\ at' = "idle" /\ role' = role /\ attempt' = attempt
          /\ result'.class # "none" /\ result'.status = NoStatus
          /\ result' \in [class : ErrorClasses \cup {"none"},
                          status : ErrorStatuses \cup {0, NoStatus}]
        BY <1>2, <1>4 DEF EndsWith, Plain, Combined, Error, ErrorClasses, NeverFallback,
              AlwaysFallback, Unclassified, NoStatus
    <2>2. TypeOK'
        BY <1>3, <2>1 DEF IInv, TypeOK
    <2>3. (Counting /\ SendsAreBounded)'
        BY <1>3, <2>1, RetriesAssumption, Backends, SameBackends
           DEF IInv, TypeOK, Backend, Counting, SendsAreBounded, PrimaryMost
    <2>4. (Settled /\ SuccessMeansAnswered /\ StatusIsTheLastReply)'
        BY <1>3, <2>1 DEF IInv, Settled, SuccessMeansAnswered, StatusIsTheLastReply,
              Counting, Began, IsFinal, Success, NoStatus
    <2> QED
        BY <2>2, <2>3, <2>4 DEF IInv
<1>5. CASE FallsBack
    <2>2. TypeOK'
        BY <1>3, <1>5, RetriesAssumption DEF IInv, TypeOK, FallsBack
    <2>3. (Counting /\ SendsAreBounded)'
        BY <1>3, <1>5, RetriesAssumption, Backends, SameBackends
           DEF FallsBack, IInv, TypeOK, Backend, Counting, SendsAreBounded, PrimaryMost
    <2>4. (Settled /\ SuccessMeansAnswered /\ StatusIsTheLastReply)'
        BY <1>3, <1>5 DEF FallsBack, IInv, Settled, SuccessMeansAnswered, StatusIsTheLastReply
    <2> QED
        BY <2>2, <2>3, <2>4 DEF IInv
<1> QED
    BY <1>1, <1>4, <1>5, RaiseOutcomes

LEMMA StartSendingHolds == ASSUME IInv, StartSending PROVE IInv'
<1> USE DEF StartSending, history
<1>1. TypeOK'
    BY DEF IInv, TypeOK
<1>2. (Counting /\ SendsAreBounded)'
    BY <1>1, RetriesAssumption, Backends, SameBackends
       DEF IInv, TypeOK, Backend, Counting, SendsAreBounded, PrimaryMost
<1>3. (Settled /\ SuccessMeansAnswered /\ StatusIsTheLastReply)'
    BY DEF IInv, Settled, SuccessMeansAnswered, StatusIsTheLastReply
<1> QED
    BY <1>1, <1>2, <1>3 DEF IInv

(* The steps of the consumer of a stream. *)
LEMMA StreamHolds == ASSUME IInv, NextChunk \/ EndStream \/ BreakStream PROVE IInv'
<1>1. /\ at = "stream" /\ call.kind = "stream"
      /\ UNCHANGED <<setup, call, role, attempt, sends, last, performed>>
      /\ chunks' \in 0..MaxChunks
      /\ \/ at' = at /\ result' = result
         \/ at' = "idle" /\ result' \in {Success, Plain("SdkNetworkError"), Plain("OSError")}
    BY RetriesAssumption
       DEF NextChunk, EndStream, BreakStream, Raise, End, history, IInv, Counting, TypeOK
<1>2. TypeOK'
    BY <1>1 DEF IInv, TypeOK, Success, Plain, Error, ErrorClasses, Unclassified, NoStatus
<1>3. (Counting /\ SendsAreBounded)'
    BY <1>1, <1>2, RetriesAssumption, Backends, SameBackends
       DEF IInv, TypeOK, Backend, Counting, SendsAreBounded, PrimaryMost
<1>4. (Settled /\ SuccessMeansAnswered /\ StatusIsTheLastReply)'
    BY <1>1 DEF IInv, Settled, SuccessMeansAnswered, StatusIsTheLastReply, Success,
          Plain, Error, NoStatus
<1> QED
    BY <1>2, <1>3, <1>4 DEF IInv

-----------------------------------------------------------------------------
(* A request goes out.  What follows the reply is an answer, another       *)
(* attempt or an exception of Raised; each preserves the invariant.        *)
Sent(reply) ==
    /\ at = "send"
    /\ UNCHANGED <<setup, call, chunks>>
    /\ sends' = sends + 1
    /\ last' = reply
    /\ performed' \in 0..sends'

LEMMA ExchangeSends ==
    ASSUME TypeOK, NEW reply \in Replies, Exchange(reply), UNCHANGED <<setup, call, chunks>>
    PROVE  Sent(reply)
<1>1. \A n \in MayHavePerformed(reply) : n \in {0, 1}
    BY DEF MayHavePerformed, Replies
<1> QED
    BY <1>1 DEF Exchange, Sent, TypeOK

LEMMA AnsweredHolds ==
    ASSUME IInv, NEW reply \in Replies, Sent(reply), Answered,
           reply.kind = "answer" \/ call.kind = "stream"
    PROVE  IInv'
<1> USE DEF Sent, Answered, End
<1>1. TypeOK'
    BY DEF IInv, TypeOK, Success, NoStatus
<1>2. (Counting /\ SendsAreBounded)'
    BY <1>1, RetriesAssumption, Backends, SameBackends
       DEF IInv, TypeOK, Backend, Counting, SendsAreBounded, PrimaryMost
<1>3. (Settled /\ SuccessMeansAnswered /\ StatusIsTheLastReply)'
    BY DEF IInv, Counting, TypeOK, Settled, SuccessMeansAnswered, StatusIsTheLastReply, Success, NoStatus
<1> QED
    BY <1>1, <1>2, <1>3 DEF IInv

LEMMA RetryHolds ==
    ASSUME IInv, NEW reply \in Replies, Sent(reply), Retries(reply), reply.kind # "answer",
           Backend = "raw_http", call.kind = "api",
           attempt' = attempt + 1, UNCHANGED <<at, role, result>>
    PROVE  IInv'
<1> USE DEF Sent
<1>1. attempt < MaxRetries
    BY RetriesAssumption DEF Retries, RetriesStatus, Replies
<1>2. TypeOK'
    BY <1>1, RetriesAssumption DEF IInv, TypeOK
<1>3. (Counting /\ SendsAreBounded)'
    BY <1>1, <1>2, RetriesAssumption, Backends, SameBackends
       DEF IInv, TypeOK, Backend, Counting, SendsAreBounded, PrimaryMost
<1>4. ~IsFinal(reply)
    BY RefusalsAreTerminal
<1>5. (Settled /\ SuccessMeansAnswered /\ StatusIsTheLastReply)'
    BY <1>4 DEF IInv, Counting, Settled, SuccessMeansAnswered, StatusIsTheLastReply
<1> QED
    BY <1>2, <1>3, <1>5 DEF IInv

LEMMA RaiseHolds ==
    ASSUME IInv, NEW reply \in Replies, Sent(reply), reply.kind # "answer",
           NEW e \in Raised(reply), Raise(e),
           call.kind = "api" /\ IsFinal(reply) => ~IsFallbackEligible(e)
    PROVE  IInv'
<1> USE DEF Sent
<1>1. CASE EndsWith(e) \/ EndsWith(Combined(e))
    <2>1. /\ at' = "idle" /\ role' = role /\ attempt' = attempt
          /\ result' \in [class : ErrorClasses, status : ErrorStatuses \cup {0, NoStatus}]
          /\ result'.status = e.status
        BY <1>1 DEF EndsWith, Raised, Combined, Error, ErrorClasses
    <2>2. result'.class # "none" /\ Success.class = "none"
        BY <2>1 DEF ErrorClasses, NeverFallback, AlwaysFallback, Unclassified, Success
    <2>3. TypeOK'
        BY <2>1 DEF IInv, TypeOK
    <2>4. (Counting /\ SendsAreBounded)'
        BY <2>1, <2>3, RetriesAssumption, Backends, SameBackends
           DEF IInv, TypeOK, Backend, Counting, SendsAreBounded, PrimaryMost
    <2>5. (Settled /\ SuccessMeansAnswered)'
        BY <2>1, <2>2 DEF IInv, Counting, Settled, SuccessMeansAnswered
    <2>6. StatusIsTheLastReply'
        BY <2>1 DEF StatusIsTheLastReply, Raised, NoStatus
    <2> QED
        BY <2>3, <2>4, <2>5, <2>6 DEF IInv
<1>2. CASE FallsBack /\ IsFallbackEligible(e)
    <2>1. TypeOK'
        BY <1>2, RetriesAssumption DEF IInv, TypeOK, FallsBack
    <2>2. (Counting /\ SendsAreBounded)'
        BY <1>2, <2>1, RetriesAssumption, Backends, SameBackends
           DEF FallsBack, IInv, TypeOK, Backend, Counting, SendsAreBounded, PrimaryMost
    <2>3. (Settled /\ SuccessMeansAnswered /\ StatusIsTheLastReply)'
        BY <1>2 DEF FallsBack, IInv, Counting, Settled, SuccessMeansAnswered,
              StatusIsTheLastReply
    <2> QED
        BY <2>1, <2>2, <2>3 DEF IInv
<1> QED
    BY <1>1, <1>2, RaiseOutcomes

LEMMA SendHolds ==
    ASSUME IInv, NEW reply \in Replies,
           SdkSend(reply) \/ RawApiCall(reply) \/ RawOnce(reply)
    PROVE  IInv'
<1>1. Sent(reply)
    BY ExchangeSends DEF SdkSend, RawApiCall, RawOnce, IInv
<1>2. CASE SdkSend(reply)
    <2>1. CASE reply.kind = "answer"
        BY <1>1, <1>2, <2>1, AnsweredHolds DEF SdkSend
    <2>2. CASE reply.kind # "answer"
        <3>1. PICK e \in SdkErrors(reply) : Raise(e)
            BY <1>2, <2>2 DEF SdkSend
        <3> QED
            BY <1>1, <2>2, <3>1, RaisedErrors, RefusalsAreTerminal, RaiseHolds
    <2> QED
        BY <2>1, <2>2
<1>3. CASE RawApiCall(reply)
    <2>1. CASE reply.kind = "answer"
        BY <1>1, <1>3, <2>1, AnsweredHolds DEF RawApiCall
    <2>2. CASE reply.kind # "answer" /\ Retries(reply)
        BY <1>1, <1>3, <2>2, RetryHolds DEF RawApiCall
    <2>3. CASE reply.kind # "answer" /\ ~Retries(reply)
        <3>1. Raise(RetryError(reply))
            BY <1>3, <2>3 DEF RawApiCall
        <3> QED
            BY <1>1, <2>3, <3>1, RaisedErrors, RefusalsAreTerminal, RaiseHolds
    <2> QED
        BY <2>1, <2>2, <2>3
<1>4. CASE RawOnce(reply)
    <2>1. CASE reply.kind = "answer" \/ (reply.kind = "garbage" /\ call.kind = "stream")
        BY <1>1, <1>4, <2>1, AnsweredHolds DEF RawOnce
    <2>2. CASE reply.kind # "answer" /\ ~(reply.kind = "garbage" /\ call.kind = "stream")
        <3>1. Raise(UrlError(reply)) /\ call.kind # "api"
            BY <1>4, <2>2 DEF RawOnce
        <3> QED
            BY <1>1, <2>2, <3>1, RaisedErrors, RaiseHolds
    <2> QED
        BY <2>1, <2>2
<1> QED
    BY <1>2, <1>3, <1>4

LEMMA StepHolds == IInv /\ [Next]_vars => IInv'
<1> SUFFICES ASSUME IInv, [Next]_vars PROVE IInv'
    OBVIOUS
<1>1. CASE \E c \in Calls : Begin(c)
    BY <1>1, BeginHolds
<1>2. CASE CallStep
    BY <1>2, GateHolds, FailLocallyHolds, StartSendingHolds, StreamHolds, SendHolds DEF CallStep
<1>3. CASE UNCHANGED vars
    <2>1. TypeOK'
        BY <1>3 DEF vars, history, IInv, TypeOK
    <2>2. (Counting /\ SendsAreBounded)'
        BY <1>3 DEF vars, history, IInv, Counting, SendsAreBounded, PrimaryMost, Backend,
              PrimaryBackend, FallbackBackend
    <2>3. (Settled /\ SuccessMeansAnswered /\ StatusIsTheLastReply)'
        BY <1>3 DEF vars, history, IInv, Settled, SuccessMeansAnswered, Began, StatusIsTheLastReply
    <2> QED
        BY <2>1, <2>2, <2>3 DEF IInv
<1> QED
    BY <1>1, <1>2, <1>3 DEF Next

THEOREM Invariant == Spec => []IInv
BY InitHolds, StepHolds, PTL DEF Spec

-----------------------------------------------------------------------------
(* client.py, coordinator.py: for every number of retries, the two loops   *)
(* together send an API call at most MaxRetries + 2 times.                 *)
THEOREM RequestsAreBounded == Spec => []SendsAreBounded
BY Invariant, PTL DEF IInv

(* coordinator.py: a call returns normally just when it was answered.      *)
THEOREM SuccessIsAnAnswer == Spec => []SuccessMeansAnswered
BY Invariant, PTL DEF IInv

(* coordinator.py: the status that an error carries was the server's last. *)
THEOREM ErrorsCarryTheLastStatus == Spec => []StatusIsTheLastReply
BY Invariant, PTL DEF IInv

(* policy.py: an API call that was answered, or refused with a client      *)
(* error, is not sent again, by no retry and by no fallback.               *)
THEOREM FinalMeansFinal == Spec => NothingSentAfterFinal
<1>1. IInv /\ [Next]_vars
        => [call.kind = "api" /\ IsFinal(last) => sends' <= sends]_vars
    <2> SUFFICES ASSUME IInv, [Next]_vars, call.kind = "api", IsFinal(last)
                 PROVE  sends' <= sends
        OBVIOUS
    <2>1. at \notin {"enter", "send"} /\ sends \in Nat
        BY DEF IInv, Settled, TypeOK
    <2>2. CASE \E c \in Calls : Begin(c)
        BY <2>1, <2>2 DEF Begin
    <2>3. CASE CallStep
        BY <2>1, <2>3 DEF CallStep, Gate, AsyncGate, FailLocally, StartSending, SdkSend,
              RawApiCall, RawOnce, Exchange, NextChunk, EndStream, BreakStream, history
    <2>4. CASE UNCHANGED vars
        BY <2>1, <2>4 DEF vars, history
    <2> QED
        BY <2>2, <2>3, <2>4 DEF Next
<1> QED
    BY <1>1, Invariant, PTL DEF Spec, NothingSentAfterFinal

(* Every variable stays in its type.                                       *)
THEOREM TypesHold == Spec => []TypeOK
<1>1. IInv => TypeOK
  BY DEF IInv
<1> QED
  BY <1>1, Invariant, PTL
=============================================================================
