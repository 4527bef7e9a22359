---------------------------- MODULE AtomicStore ----------------------------
(***************************************************************************)
(* What the state classes under core/state promise: "all mutating          *)
(* operations acquire the file lock and re-read from disk to prevent data  *)
(* loss from concurrent access".  A store is one document.  A call takes   *)
(* effect at one instant between its start and its return, on whatever the *)
(* document is then, or it raises and has no effect.  A caller that is     *)
(* killed had its effect or had not.  One thing they do not promise: a     *)
(* caller that cannot read the document is not told so, but takes it for   *)
(* empty, and its call, if it saves anything then, replaces the document.  *)
(***************************************************************************)
EXTENDS Naturals

CONSTANTS
    Procs,              \* the callers
    Ops, NoOp,          \* the mutating calls, with their arguments
    Docs, Empty,        \* the documents
    MaxTime,            \* bound of the clock
    Apply(_, _, _),     \* the document after a call, made at a time
    Saves(_, _, _)      \* whether the call saves it

VARIABLES doc, request, status, clock

atomicVars == <<doc, request, status, clock>>

AtomicInit ==
    /\ doc \in Docs
    /\ request = [p \in Procs |-> NoOp]
    /\ status = [p \in Procs |-> "idle"]
    /\ clock = 0

Invoke(p, o) ==
    /\ status[p] = "idle"
    /\ request' = [request EXCEPT ![p] = o]
    /\ status' = [status EXCEPT ![p] = "pending"]
    /\ UNCHANGED <<doc, clock>>

Effect(p, t) ==
    /\ status[p] = "pending"
    /\ t <= clock
    /\ doc' = Apply(request[p], doc, t)
    /\ status' = [status EXCEPT ![p] = "done"]
    /\ UNCHANGED <<request, clock>>

(* The read of the document fails. *)
Misread(p) ==
    /\ status[p] = "pending"
    /\ status' = [status EXCEPT ![p] = "blind"]
    /\ UNCHANGED <<doc, request, clock>>

(* The read fails, and of an empty document there is nothing to save. *)
Overlook(p, t) ==
    /\ status[p] = "pending"
    /\ t <= clock
    /\ ~Saves(request[p], Empty, t)
    /\ status' = [status EXCEPT ![p] = "done"]
    /\ UNCHANGED <<doc, request, clock>>

BlindEffect(p, t) ==
    /\ status[p] = "blind"
    /\ t <= clock
    /\ doc' = Apply(request[p], Empty, t)
    /\ status' = [status EXCEPT ![p] = "done"]
    /\ UNCHANGED <<request, clock>>

Reject(p) ==
    /\ status[p] \in {"pending", "blind"}
    /\ status' = [status EXCEPT ![p] = "failed"]
    /\ UNCHANGED <<doc, request, clock>>

Return(p) ==
    /\ status[p] \in {"done", "failed"}
    /\ request' = [request EXCEPT ![p] = NoOp]
    /\ status' = [status EXCEPT ![p] = "idle"]
    /\ UNCHANGED <<doc, clock>>

(* The caller is killed, or LockTimeout ends the call before it began. *)
Abandon(p) ==
    /\ status[p] # "idle"
    /\ request' = [request EXCEPT ![p] = NoOp]
    /\ status' = [status EXCEPT ![p] = "idle"]
    /\ UNCHANGED <<doc, clock>>

AtomicTick ==
    /\ clock < MaxTime
    /\ clock' = clock + 1
    /\ UNCHANGED <<doc, request, status>>

AtomicNext ==
    \/ \E p \in Procs :
          \/ \E o \in Ops : Invoke(p, o)
          \/ \E t \in 0..MaxTime : Effect(p, t) \/ Overlook(p, t) \/ BlindEffect(p, t)
          \/ Misread(p)
          \/ Reject(p)
          \/ Return(p)
          \/ Abandon(p)
    \/ AtomicTick

AtomicSpec == AtomicInit /\ [][AtomicNext]_atomicVars
=============================================================================
