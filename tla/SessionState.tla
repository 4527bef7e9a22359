---------------------------- MODULE SessionState ----------------------------
(***************************************************************************)
(* core/state/session_state.py: conversation histories, one file and one   *)
(* lock file per session.  append_message looks for the file before it     *)
(* takes the lock; create and append_message write under the lock;         *)
(* end_session unlinks without it.  A write (atomic_write.py) is one step  *)
(* here, done, failed or fallen short: LockedJson shows that these are its *)
(* outcomes.                                                               *)
(***************************************************************************)
EXTENDS Naturals, Sequences, SequencesExt

CONSTANTS
    Procs, Nobody,      \* the processes; a free lock
    Sessions,           \* the session ids
    NoFile,             \* the session has no file
    MayFail             \* reads and writes of files may fail

VARIABLES
    file,       \* the history in each session file
    recent,     \* the session files in the order of their mtime
    lock,       \* the flock of each session
    frame,      \* the method each process is in
    outcome,    \* how its last method ended
    wiped       \* history: the sessions that were ended, created anew, torn by a
                \* write, or overwritten by an append that could not read them

sessionVars == <<file, recent, lock, frame, outcome, wiped>>

NoFrame == [method |-> "none"]

InMethod(p) == frame[p] # NoFrame

(* The other files, in their order. *)
Without(s) ==
    IF s \in ToSet(recent)
    THEN RemoveAt(recent, CHOOSE i \in DOMAIN recent : recent[i] = s)
    ELSE recent

(* A written file becomes the most recently modified one. *)
Touch(s) == Append(Without(s), s)

(* _load: a session without a file has an empty history. *)
History(s) == IF file[s] = NoFile THEN << >> ELSE file[s]

(* What _load may return: [] too, when the read raises an OSError. *)
Loadable(s) == {History(s)} \cup (IF MayFail THEN {<< >>} ELSE {})

(* What a process in a method knows, where M are the messages. *)
AppendFrames(M) ==
    [method : {"append"}, sid : Sessions, at : {"lock", "load", "write", "overwrite"},
     message : M, contents : Seq(M)]
CreateFrames ==
    [method : {"create"}, sid : Sessions, at : {"lock", "overwrite"}, contents : {<< >>}]

SessionInit ==
    /\ file \in [Sessions -> {NoFile, << >>}]
    /\ recent \in SetToSeqs({s \in Sessions : file[s] # NoFile})
    /\ lock = [s \in Sessions |-> Nobody]
    /\ frame = [p \in Procs |-> NoFrame]
    /\ outcome = [p \in Procs |-> "ok"]
    /\ wiped = {}

-----------------------------------------------------------------------------
(* append_message returns at once when there is no file. *)
BeginAppend(p, s, m) ==
    /\ ~InMethod(p)
    /\ IF file[s] = NoFile
       THEN UNCHANGED frame
       ELSE frame' = [frame EXCEPT ![p] =
                        [method |-> "append", sid |-> s, at |-> "lock",
                         message |-> m, contents |-> << >>]]
    /\ outcome' = [outcome EXCEPT ![p] = "ok"]
    /\ UNCHANGED <<file, recent, lock, wiped>>

(* create resets the history, whether or not there is one. *)
BeginCreate(p, s) ==
    /\ ~InMethod(p)
    /\ frame' = [frame EXCEPT ![p] =
                    [method |-> "create", sid |-> s, at |-> "lock", contents |-> << >>]]
    /\ outcome' = [outcome EXCEPT ![p] = "ok"]
    /\ UNCHANGED <<file, recent, lock, wiped>>

(* end_session *)
Unlink(s) ==
    /\ file' = [file EXCEPT ![s] = NoFile]
    /\ recent' = Without(s)
    /\ wiped' = wiped \cup {s}
    /\ UNCHANGED <<lock, frame, outcome>>

(* Mutant of TakeLock: without a lock. *)
TakeNoLock(p) ==
    /\ InMethod(p)
    /\ frame[p].at = "lock"
    /\ frame' = [frame EXCEPT ![p].at =
                    IF frame[p].method = "append" THEN "load" ELSE "overwrite"]
    /\ UNCHANGED <<file, recent, lock, outcome, wiped>>

(* The lock is free; create has nothing to load. *)
TakeLock(p) ==
    /\ InMethod(p)
    /\ frame[p].at = "lock"
    /\ lock[frame[p].sid] = Nobody
    /\ lock' = [lock EXCEPT ![frame[p].sid] = p]
    /\ frame' = [frame EXCEPT ![p].at =
                    IF frame[p].method = "append" THEN "load" ELSE "overwrite"]
    /\ UNCHANGED <<file, recent, outcome, wiped>>

(* FileLock gives up and LockTimeout leaves the method. *)
LockTimeout(p) ==
    /\ InMethod(p)
    /\ frame[p].at = "lock"
    /\ lock[frame[p].sid] # Nobody
    /\ frame' = [frame EXCEPT ![p] = NoFrame]
    /\ outcome' = [outcome EXCEPT ![p] = "raised"]
    /\ UNCHANGED <<file, recent, lock, wiped>>

LoadHistory(p) ==
    /\ InMethod(p)
    /\ frame[p].at = "load"
    /\ frame' = [frame EXCEPT ![p] =
          [@ EXCEPT !.at = "write",
                    !.contents = Append(History(frame[p].sid), frame[p].message)]]
    /\ UNCHANGED <<file, recent, lock, outcome, wiped>>

(* The read raises an OSError, which _load turns into []: the append will  *)
(* overwrite what is there.                                                *)
LoadError(p) ==
    /\ MayFail
    /\ InMethod(p)
    /\ frame[p].at = "load"
    /\ file[frame[p].sid] # NoFile
    /\ frame' = [frame EXCEPT ![p] =
          [@ EXCEPT !.at = "overwrite", !.contents = <<frame[p].message>>]]
    /\ UNCHANGED <<file, recent, lock, outcome, wiped>>

(* Leaving the with block, normally or not, and the method. *)
Leave(p, how) ==
    /\ lock' = [lock EXCEPT ![frame[p].sid] = Nobody]
    /\ frame' = [frame EXCEPT ![p] = NoFrame]
    /\ outcome' = [outcome EXCEPT ![p] = how]

Writing(p) == InMethod(p) /\ frame[p].at \in {"write", "overwrite"}

WriteHistory(p) ==
    /\ Writing(p)
    /\ file' = [file EXCEPT ![frame[p].sid] = frame[p].contents]
    /\ recent' = Touch(frame[p].sid)
    /\ wiped' = wiped \cup {s \in {frame[p].sid} :
                    frame[p].at = "overwrite" /\ file[s] \notin {NoFile, << >>}}
    /\ Leave(p, "ok")

(* os.write falls short and nobody notices: of the part, _load makes []. *)
WriteLess(p) ==
    /\ MayFail
    /\ Writing(p)
    /\ file' = [file EXCEPT ![frame[p].sid] = << >>]
    /\ recent' = Touch(frame[p].sid)
    /\ wiped' = wiped \cup {frame[p].sid}
    /\ Leave(p, "ok")

(* The read or atomic_write_json raises, and the file is left alone. *)
MethodFails(p) ==
    /\ MayFail
    /\ InMethod(p)
    /\ frame[p].at # "lock"
    /\ Leave(p, "raised")
    /\ UNCHANGED <<file, recent, wiped>>

(* The process dies; the kernel drops its flock. *)
DropFrame(p) ==
    /\ lock' = [s \in Sessions |-> IF lock[s] = p THEN Nobody ELSE lock[s]]
    /\ frame' = [frame EXCEPT ![p] = NoFrame]
    /\ outcome' = [outcome EXCEPT ![p] = "ok"]
    /\ UNCHANGED <<file, recent, wiped>>

MethodStep(p) ==
    \/ TakeLock(p)
    \/ LockTimeout(p)
    \/ LoadHistory(p)
    \/ LoadError(p)
    \/ WriteHistory(p)
    \/ WriteLess(p)
    \/ MethodFails(p)

-----------------------------------------------------------------------------
(* No answer of h is without the question of its turn before it. *)
Answered(h) ==
    \A i \in DOMAIN h : h[i].role = "model" =>
        \E j \in 1..(i - 1) : h[j] = [role |-> "user", turn |-> h[i].turn]

(* text.py, plan_review.py: an answer is never saved without the question  *)
(* it answers, and only after it, although the two are saved by separate   *)
(* locked writes.  (This and the next claims are of sessions that were not *)
(* wiped.  An append whose read fails does wipe one, without any error:    *)
(* that is what the code does, and the history is gone.)                   *)
AnswersFollowQuestions ==
    \A s \in Sessions \ wiped : file[s] # NoFile => Answered(file[s])

(* session_state.py:8, "prevent data loss from concurrent access": a       *)
(* message that was saved stays in its file, in front of what is saved     *)
(* later.                                                                  *)
SavedMessagesStay ==
    [][\A s \in Sessions \ wiped' :
          file[s] # NoFile => file'[s] # NoFile /\ IsPrefix(file[s], file'[s])]_sessionVars

(* session_state.py: an append adds its one message to the file that is    *)
(* there when it writes, although it read it earlier and whoever created,  *)
(* timed out, failed or died meanwhile.  Only when the session was ended   *)
(* in between is the file made again, and only a torn write empties it.    *)
(* (An append that could not read the file is in "overwrite".)             *)
AppendsKeepHistory ==
    [][\A p \in Procs, s \in Sessions :
          (/\ InMethod(p) /\ frame[p].method = "append" /\ frame[p].at = "write"
           /\ frame[p].sid = s /\ frame'[p] = NoFrame /\ file'[s] # file[s])
          => \/ file[s] # NoFile /\ file'[s] = Append(file[s], frame[p].message)
             \/ file[s] = NoFile /\ s \in wiped
             \/ file'[s] = << >> /\ s \in wiped']_sessionVars
=============================================================================
