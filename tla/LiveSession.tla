---------------------------- MODULE LiveSession ----------------------------
(***************************************************************************)
(* adapters/generation/live.py: one turn of a bidirectional session.  The  *)
(* server sends messages with or without a text, of which one may complete *)
(* the turn; it may also fail, end the stream early or say nothing.  There *)
(* is no timeout; Ctrl-C cancels the coroutine wherever it waits.          *)
(***************************************************************************)
EXTENDS Naturals, Sequences

CONSTANT MaxMessages    \* bound of the messages of the server

ASSUME MessagesAssumption == MaxMessages \in Nat

VARIABLES
    at,         \* where run_async is
    inbox,      \* messages that have arrived
    sent,       \* history: all messages of the server
    over,       \* the server has ended the stream
    printed,    \* the texts printed, by the number of their message
    session,    \* the session is open
    stream,     \* the stream of session.receive() is open
    outcome

liveVars == <<at, inbox, sent, over, printed, session, stream, outcome>>

Messages == [text : BOOLEAN, complete : BOOLEAN]
Places == {"idle", "connect", "send", "receive", "close", "exit", "ended"}
Outcomes == {"none", "returned", "raised"}

LiveTypeOK ==
    /\ at \in Places
    /\ inbox \in Seq(Messages) /\ sent \in Seq(Messages)
    /\ over \in BOOLEAN
    /\ printed \in Seq(Nat)
    /\ session \in BOOLEAN /\ stream \in BOOLEAN
    /\ outcome \in Outcomes

LiveInit ==
    /\ at = "idle"
    /\ inbox = <<>> /\ sent = <<>> /\ over = FALSE
    /\ printed = <<>>
    /\ session = FALSE /\ stream = FALSE
    /\ outcome = "none"

-----------------------------------------------------------------------------
Enter ==
    /\ at = "idle" /\ at' = "connect"
    /\ UNCHANGED <<inbox, sent, over, printed, session, stream, outcome>>

(* __aenter__ of client.aio.live.connect; if it raises there is no session. *)
Connect ==
    /\ at = "connect"
    /\ \/ session' = TRUE /\ at' = "send" /\ UNCHANGED outcome
       \/ session' = FALSE /\ at' = "ended" /\ outcome' = "raised"
    /\ UNCHANGED <<inbox, sent, over, printed, stream>>

(* send_client_content, then session.receive(). *)
Send ==
    /\ at = "send"
    /\ \/ stream' = TRUE /\ at' = "receive" /\ UNCHANGED outcome
       \/ stream' = stream /\ at' = "exit" /\ outcome' = "raised"
    /\ UNCHANGED <<inbox, sent, over, printed, session>>

(* The server, as long as the session is open. *)
ServerSends(m) ==
    /\ at = "receive" /\ ~over /\ Len(sent) < MaxMessages
    /\ inbox' = Append(inbox, m)
    /\ sent' = Append(sent, m)
    /\ UNCHANGED <<at, over, printed, session, stream, outcome>>

ServerEnds ==
    /\ at = "receive" /\ ~over
    /\ over' = TRUE
    /\ UNCHANGED <<at, inbox, sent, printed, session, stream, outcome>>

Number == Len(sent) - Len(inbox) + 1

(* Mutant of Receive: the loop goes on after the turn is complete. *)
ReceiveOn ==
    /\ at = "receive" /\ inbox # <<>>
    /\ inbox' = Tail(inbox)
    /\ printed' = IF Head(inbox).text THEN Append(printed, Number) ELSE printed
    /\ UNCHANGED <<at, sent, over, session, stream, outcome>>

(* One message: its text is printed, then it may complete the turn. *)
Receive ==
    /\ at = "receive" /\ inbox # <<>>
    /\ inbox' = Tail(inbox)
    /\ printed' = IF Head(inbox).text THEN Append(printed, Number) ELSE printed
    /\ at' = IF Head(inbox).complete THEN "close" ELSE at
    /\ UNCHANGED <<sent, over, session, stream, outcome>>

(* Mutant of Interrupted: an error skips the finally clause. *)
InterruptedOutside ==
    /\ at \in {"send", "receive"}
    /\ at' = "exit"
    /\ outcome' = "raised"
    /\ UNCHANGED <<inbox, sent, over, printed, session, stream>>

(* StopAsyncIteration: the stream ends without a complete turn. *)
StreamEnds ==
    /\ at = "receive" /\ inbox = <<>> /\ over
    /\ at' = "close"
    /\ UNCHANGED <<inbox, sent, over, printed, session, stream, outcome>>

(* An error of the connection, or Ctrl-C, at one of the awaits. *)
Interrupted ==
    /\ at \in {"send", "receive"}
    /\ at' = IF at = "receive" THEN "close" ELSE "exit"
    /\ outcome' = "raised"
    /\ UNCHANGED <<inbox, sent, over, printed, session, stream>>

(* finally: aclose(), which may raise itself. *)
CloseStream ==
    /\ at = "close"
    /\ stream' = FALSE
    /\ at' = "exit"
    /\ outcome' \in {outcome, "raised"}
    /\ UNCHANGED <<inbox, sent, over, printed, session>>

(* __aexit__, in every case; then the last newline, or the exception. *)
Exit ==
    /\ at = "exit"
    /\ session' = FALSE
    /\ at' = "ended"
    /\ outcome' = IF outcome = "none" THEN "returned" ELSE outcome
    /\ UNCHANGED <<inbox, sent, over, printed, stream>>

LiveStep == Enter \/ Connect \/ Send \/ Receive \/ StreamEnds \/ CloseStream \/ Exit
LiveNext == LiveStep \/ Interrupted \/ (\E m \in Messages : ServerSends(m)) \/ ServerEnds

-----------------------------------------------------------------------------
(* The messages of the turn: up to the first that completes it. *)
InTurn(i) == i \in DOMAIN sent /\ \A j \in 1..(i - 1) : ~sent[j].complete

(* live.py: "Messages queued after turn_complete are ignored -- one user   *)
(* turn per invocation": what was printed is in order and of the turn; and *)
(* a session that returns has printed every text of its turn.              *)
PrintsOneTurn ==
    /\ \A n \in DOMAIN printed : InTurn(printed[n]) /\ sent[printed[n]].text
    /\ \A m, n \in DOMAIN printed : m < n => printed[m] < printed[n]
    /\ outcome = "returned" =>
          \A i \in DOMAIN sent : InTurn(i) /\ sent[i].text => \E n \in DOMAIN printed : printed[n] = i

(* However the turn ends, an error or Ctrl-C included, nothing stays open, *)
(* and the stream is closed while its session still is open.               *)
ClosesEverything ==
    [][/\ at' = "ended" => ~session' /\ ~stream'
       /\ session /\ ~session' => ~stream]_liveVars
=============================================================================
