------------------------- MODULE PlanReview_proofs --------------------------
(***************************************************************************)
(* Reviews that share sessions, for any number of processes, sessions,     *)
(* default models and proposals: whatever fails and is tried again with    *)
(* the next model, whoever else appends, and with processes that are       *)
(* killed and sessions that are ended or created anew in between.          *)
(***************************************************************************)
EXTENDS PlanReview, FiniteSetTheorems, SequenceTheorems, TLAPS

USE ModelsAssumption, NamesAssumption, SwitchesAssumption

-----------------------------------------------------------------------------
(* Histories. *)

(* k begins with h. *)
Extends(h, k) == \A i \in DOMAIN h : i \in DOMAIN k /\ k[i] = h[i]

LEMMA AppendExtends ==
    ASSUME NEW S, NEW h \in Seq(S), NEW e \in S
    PROVE  /\ Append(h, e) \in Seq(S) /\ Extends(h, Append(h, e))
           /\ Len(h) \in Nat /\ DOMAIN h = 1..Len(h)
           /\ DOMAIN Append(h, e) = 1..(Len(h) + 1)
           /\ Append(h, e)[Len(h) + 1] = e
BY DEF Extends

LEMMA ExtendsIsPrefix ==
    ASSUME NEW S, NEW h \in Seq(S), NEW k \in Seq(S), Extends(h, k)
    PROVE  IsPrefix(h, k)
<1> DEFINE n == Len(h)
<1>1. n \in Nat /\ Len(k) \in Nat /\ DOMAIN h = 1..n /\ DOMAIN k = 1..Len(k)
  OBVIOUS
<1>2. n <= Len(k)
  <2>1. n = 0 \/ n \in 1..n
    BY <1>1
  <2>2. n \in 1..n => n \in 1..Len(k)
    BY <1>1 DEF Extends
  <2> QED
    BY <1>1, <2>1, <2>2
<1>3. /\ SubSeq(k, 1, n) \in Seq(S) /\ Len(SubSeq(k, 1, n)) = n
      /\ \A i \in 1..n : SubSeq(k, 1, n)[i] = k[i]
  BY <1>1, <1>2
<1>4. \A i \in 1..n : SubSeq(k, 1, n)[i] = h[i]
  BY <1>1, <1>3 DEF Extends
<1>5. SubSeq(k, 1, n) = h
  BY <1>1, <1>3, <1>4, SeqEqual
<1> QED
  BY <1>1, <1>2, <1>5 DEF IsPrefix

LEMMA InOrderGrows ==
    ASSUME NEW g, NEW h, NEW k, InOrder(g, h), Extends(h, k)
    PROVE  InOrder(g, k)
<1> SUFFICES ASSUME NEW i \in DOMAIN g, NEW j \in DOMAIN g, i <= j
             PROVE  \E a, b \in DOMAIN k :
                       a <= b /\ (i < j => a < b) /\ k[a] = g[i] /\ k[b] = g[j]
  BY DEF InOrder
<1>1. PICK a \in DOMAIN h, b \in DOMAIN h :
          a <= b /\ (i < j => a < b) /\ h[a] = g[i] /\ h[b] = g[j]
  BY DEF InOrder
<1> QED
  BY <1>1 DEF Extends

LEMMA InOrderBegins == ASSUME NEW S, NEW h \in Seq(S) PROVE InOrder(h, h)
<1>1. DOMAIN h \subseteq Nat
  OBVIOUS
<1> QED
  BY <1>1 DEF InOrder

(* A message that is no answer, or has its question, may be appended. *)
LEMMA AnsweredGrows ==
    ASSUME NEW h \in Seq(AllMessages), NEW m \in AllMessages, Answered(h),
           m.role = "model" => \E j \in DOMAIN h : h[j] = [role |-> "user", turn |-> m.turn]
    PROVE  Answered(Append(h, m))
<1> DEFINE n == Len(h)
           k == Append(h, m)
<1>1. /\ n \in Nat /\ DOMAIN h = 1..n /\ DOMAIN k = 1..(n + 1)
      /\ k[n + 1] = m /\ \A j \in 1..n : k[j] = h[j]
  OBVIOUS
<1> HIDE DEF n, k
<1>2. ASSUME NEW i \in DOMAIN k, k[i].role = "model"
      PROVE  \E j \in 1..(i - 1) : k[j] = [role |-> "user", turn |-> k[i].turn]
  <2>1. CASE i = n + 1
    BY <1>1, <1>2, <2>1
  <2>2. CASE i \in 1..n
    <3>1. PICK j \in 1..(i - 1) : h[j] = [role |-> "user", turn |-> h[i].turn]
      BY <1>1, <1>2, <2>2 DEF Answered
    <3>2. j \in 1..n
      BY <1>1, <2>2
    <3> QED
      BY <1>1, <2>2, <3>1, <3>2
  <2> QED
    BY <1>1, <2>1, <2>2
<1> QED
  BY <1>2 DEF Answered, k

(* Two messages behind g that are behind all of g in h. *)
LEMMA InOrderAppends ==
    ASSUME NEW S, NEW g \in Seq(S), NEW h \in Seq(S), NEW u \in S, NEW m \in S,
           InOrder(g, h), NEW b \in DOMAIN h, NEW c \in DOMAIN h, b < c, h[b] = u, h[c] = m,
           \A i \in DOMAIN g : \E a \in 1..(b - 1) : h[a] = g[i]
    PROVE  InOrder(Append(Append(g, u), m), h)
<1> DEFINE n == Len(g)
           k == Append(Append(g, u), m)
<1>1. /\ n \in Nat /\ DOMAIN g = 1..n /\ DOMAIN k = 1..(n + 2)
      /\ k[n + 1] = u /\ k[n + 2] = m /\ \A i \in 1..n : k[i] = g[i]
  OBVIOUS
<1>2. DOMAIN h = 1..Len(h) /\ Len(h) \in Nat
  OBVIOUS
<1> HIDE DEF n, k
<1> SUFFICES InOrder(k, h)
  BY DEF k
<1> SUFFICES ASSUME NEW i \in DOMAIN k, NEW j \in DOMAIN k, i <= j
             PROVE  \E a, d \in DOMAIN h :
                       a <= d /\ (i < j => a < d) /\ h[a] = k[i] /\ h[d] = k[j]
  BY DEF InOrder
<1>3. /\ i \in 1..n \/ i = n + 1 \/ i = n + 2
      /\ j \in 1..n \/ j = n + 1 \/ j = n + 2
      /\ n \in Nat
  <2>1. \A x \in 1..(n + 2) : x \in 1..n \/ x = n + 1 \/ x = n + 2
    BY <1>1
  <2> QED
    BY <1>1, <2>1
<1>4. CASE j \in 1..n
  <2>1. i \in DOMAIN g /\ j \in DOMAIN g /\ k[i] = g[i] /\ k[j] = g[j]
    BY <1>1, <1>4
  <2> QED
    BY <2>1 DEF InOrder
<1>5. CASE i \in 1..n /\ j \notin 1..n
  <2>1. PICK a \in 1..(b - 1) : h[a] = g[i]
    BY <1>1, <1>5
  <2>2. a \in DOMAIN h /\ a < b /\ a < c /\ a <= b /\ a <= c
    BY <1>2, <2>1
  <2>3. j = n + 1 \/ j = n + 2
    BY <1>3, <1>5
  <2> QED
    BY <1>1, <1>5, <2>1, <2>2, <2>3
<1>6. CASE i \notin 1..n
  <2>1. \/ i = n + 1 /\ j = n + 1
        \/ i = n + 1 /\ j = n + 2
        \/ i = n + 2 /\ j = n + 2
    BY <1>3, <1>6
  <2>2. b <= b /\ c <= c /\ b <= c
    BY <1>2
  <2> QED
    BY <1>1, <2>1, <2>2
<1> QED
  BY <1>1, <1>4, <1>5, <1>6

(* The order of the session files without one of them. *)
LEMMA WithoutIs ==
    ASSUME recent \in Seq(Sessions), NEW s
    PROVE  Without(s) \in Seq(Sessions)
<1>1. CASE s \notin ToSet(recent)
  BY <1>1 DEF Without
<1>2. CASE s \in ToSet(recent)
  <2> DEFINE k == CHOOSE i \in DOMAIN recent : recent[i] = s
             n == Len(recent)
  <2>1. n \in Nat /\ DOMAIN recent = 1..n
    OBVIOUS
  <2>2. k \in 1..n
    BY <1>2, <2>1 DEF ToSet
  <2> HIDE DEF k
  <2>3. /\ SubSeq(recent, 1, k - 1) \in Seq(Sessions)
        /\ SubSeq(recent, k + 1, n) \in Seq(Sessions)
    <3>1. \A i \in (k + 1)..n : recent[i] \in Sessions
      BY <2>1, <2>2
    <3>2. SubSeq(recent, k + 1, n) \in Seq(Sessions)
      <4> HIDE DEF n
      <4> QED
        BY <2>1, <2>2, <3>1, SubSeqProperties
    <3> QED
      BY <2>1, <2>2, <3>2
  <2>4. RemoveAt(recent, k) \in Seq(Sessions)
    BY <2>3, ConcatProperties DEF RemoveAt
  <2> QED
    BY <1>2, <2>4 DEF Without, k
<1> QED
  BY <1>1, <1>2

-----------------------------------------------------------------------------
(* The inductive invariant. *)
HoldsLock(p, s) == InMethod(p) /\ frame[p].sid = s /\ frame[p].at # "lock"

LockOK == \A p \in Procs, s \in Sessions : lock[s] = p <=> HoldsLock(p, s)

(* Which proposal and session a process is at, and in which method.        *)
PlaceOK(p) ==
    /\ pc[p] \in {"review", "append_user", "append_model", "appended"} =>
          proposal[p] \in 1..MaxProposals
    /\ pc[p] \in {"exists", "get_history", "create", "created",
                  "append_user", "append_model", "appended"} => sid[p] \in Sessions
    /\ pc[p] \in {"exists", "get_history", "create", "created"} => contents[p] = << >>
    /\ sid[p] = NoSession => contents[p] = << >>
    /\ InMethod(p) =>
          /\ frame[p].sid = sid[p]
          /\ \/ frame[p] \in CreateFrames /\ pc[p] = "created"
             \/ /\ frame[p] \in AppendFrames(AllMessages) /\ pc[p] = "append_model"
                /\ frame[p].message = Message(p, "user")
             \/ /\ frame[p] \in AppendFrames(AllMessages) /\ pc[p] = "appended"
                /\ frame[p].message = Message(p, "model")

(* What was read under the lock is still there, unless it was unlinked; an *)
(* append that could not read it knows its message alone.                  *)
LoadedOK(p) ==
    InMethod(p) /\ frame[p].method = "append" =>
       /\ frame[p].at = "write" /\ file[frame[p].sid] # NoFile =>
             frame[p].contents = Append(file[frame[p].sid], frame[p].message)
       /\ frame[p].at = "overwrite" => frame[p].contents = <<frame[p].message>>

(* The process has seen or made the file of its session.                   *)
Settled(p) ==
    \/ pc[p] \in {"get_history", "prompt", "review", "append_user", "append_model", "appended"}
    \/ pc[p] = "created" /\ ~InMethod(p) /\ outcome[p] = "ok"

FileOK(p) == Settled(p) /\ sid[p] \in Sessions \ wiped => file[sid[p]] # NoFile

(* What it remembers is saved in front of message b. *)
RememberedBefore(p, b) ==
    \A i \in DOMAIN contents[p] : \E a \in 1..(b - 1) : file[sid[p]][a] = contents[p][i]

(* Its question is saved behind what it remembers. *)
Asked(p) ==
    \/ pc[p] = "append_model" /\ ~InMethod(p) /\ outcome[p] = "ok"
    \/ pc[p] = "appended" /\ InMethod(p)

QuestionOK(p) ==
    Asked(p) /\ sid[p] \in Sessions \ wiped =>
        \E b \in DOMAIN file[sid[p]] :
            file[sid[p]][b] = Message(p, "user") /\ RememberedBefore(p, b)

(* And then its answer behind the question. *)
Told(p) == pc[p] = "appended" /\ ~InMethod(p) /\ outcome[p] = "ok"

AnswerOK(p) ==
    Told(p) /\ sid[p] \in Sessions \ wiped =>
        \E b, c \in DOMAIN file[sid[p]] :
            /\ b < c /\ RememberedBefore(p, b)
            /\ file[sid[p]][b] = Message(p, "user") /\ file[sid[p]][c] = Message(p, "model")

MemoryOK(p) ==
    sid[p] \notin wiped =>
        /\ contents[p] # << >> => file[sid[p]] # NoFile /\ InOrder(contents[p], file[sid[p]])
        /\ Answered(contents[p])

Local(p) ==
    PlaceOK(p) /\ LoadedOK(p) /\ FileOK(p) /\ QuestionOK(p) /\ AnswerOK(p) /\ MemoryOK(p)

IInv ==
    /\ TypeOK /\ LockOK
    /\ \A p \in Procs : Local(p)
    /\ AnswersFollowQuestions

(* q does nothing, and neither do others than p. *)
Same(q) ==
    /\ pc'[q] = pc[q] /\ sid'[q] = sid[q] /\ contents'[q] = contents[q]
    /\ proposal'[q] = proposal[q] /\ frame'[q] = frame[q] /\ outcome'[q] = outcome[q]

Others(p) == \A q \in Procs \ {p} : Same(q)

(* A history stays, grows by a message, or is created where there is none. *)
Grows(s) ==
    \/ file'[s] = file[s]
    \/ file[s] # NoFile /\ \E m \in AllMessages : file'[s] = Append(file[s], m)
    \/ file[s] \in {NoFile, << >>} /\ file'[s] = << >>

LEMMA FramesAre ==
    /\ NoFrame \notin AppendFrames(AllMessages) /\ NoFrame \notin CreateFrames
    /\ AppendFrames(AllMessages) \cap CreateFrames = {}
    /\ \A f \in AppendFrames(AllMessages) : f.method = "append"
    /\ \A f \in CreateFrames : f.method = "create" /\ f.at # "load" /\ f.at # "write" /\ f.contents = << >>
<1>1. \A f \in AppendFrames(AllMessages) : f.method = "append"
  BY DEF AppendFrames
<1>2. \A f \in CreateFrames : f.method = "create" /\ f.at # "load" /\ f.at # "write" /\ f.contents = << >>
  BY DEF CreateFrames
<1>3. NoFrame.method = "none"
  BY DEF NoFrame
<1> QED
  BY <1>1, <1>2, <1>3

LEMMA MessageIs ==
    ASSUME TypeOK, NEW p \in Procs, proposal[p] \in 1..MaxProposals,
           NEW r \in {"user", "model"}
    PROVE  /\ Message(p, r) \in AllMessages
           /\ Message(p, r).role = r /\ Message(p, r).turn = <<p, proposal[p]>>
BY DEF Message, AllMessages

LEMMA GrowsBy ==
    ASSUME TypeOK, NEW s \in Sessions, Grows(s), file[s] # NoFile
    PROVE  file'[s] # NoFile /\ file'[s] \in Seq(AllMessages) /\ Extends(file[s], file'[s])
<1>1. file[s] \in Seq(AllMessages)
  BY DEF TypeOK
<1>2. CASE file'[s] = file[s]
  BY <1>1, <1>2 DEF Extends
<1>3. ASSUME NEW m \in AllMessages, file'[s] = Append(file[s], m)
      PROVE  file'[s] # NoFile /\ file'[s] \in Seq(AllMessages) /\ Extends(file[s], file'[s])
  BY <1>1, <1>3, AppendExtends
<1> QED
  BY <1>1, <1>2, <1>3 DEF Grows

(* What the others know stays true. *)
LEMMA OthersKeep ==
    ASSUME TypeOK, wiped \subseteq wiped', \A s \in Sessions \ wiped' : Grows(s),
           NEW q \in Procs, Same(q), Local(q), LoadedOK(q)'
    PROVE  Local(q)'
<1>1. /\ pc'[q] = pc[q] /\ sid'[q] = sid[q] /\ contents'[q] = contents[q]
      /\ proposal'[q] = proposal[q] /\ frame'[q] = frame[q] /\ outcome'[q] = outcome[q]
      /\ sid[q] \in Sessions \cup {NoSession}
  BY DEF Same, TypeOK
<1>2. PlaceOK(q)'
  BY <1>1 DEF Local, PlaceOK, InMethod, Message
<1>3. /\ Settled(q)' <=> Settled(q)
      /\ Asked(q)' <=> Asked(q)
      /\ Told(q)' <=> Told(q)
      /\ \A r : Message(q, r)' = Message(q, r)
  BY <1>1 DEF Settled, Asked, Told, InMethod, Message
<1> DEFINE h == file[sid[q]]
           k == file'[sid[q]]
<1>4. ASSUME sid[q] \in Sessions \ wiped', h # NoFile
      PROVE  sid[q] \in Sessions \ wiped /\ k # NoFile /\ Extends(h, k)
  BY <1>4, GrowsBy
<1>5. FileOK(q)'
  BY <1>1, <1>3, <1>4 DEF Local, FileOK
<1>6. ASSUME NEW b \in DOMAIN h, sid[q] \in Sessions \ wiped', h # NoFile,
             RememberedBefore(q, b)
      PROVE  RememberedBefore(q, b)'
  <2>1. h \in Seq(AllMessages)
    BY <1>4, <1>6 DEF TypeOK
  <2>2. \A a \in 1..(b - 1) : a \in DOMAIN h /\ k[a] = h[a]
    BY <1>4, <1>6, <2>1 DEF Extends
  <2> HIDE DEF h, k
  <2> QED
    BY <1>1, <1>6, <2>2 DEF RememberedBefore, h, k
<1>7. QuestionOK(q)'
  <2> SUFFICES ASSUME Asked(q), sid[q] \in Sessions \ wiped'
               PROVE  \E b \in DOMAIN k : k[b] = Message(q, "user") /\ RememberedBefore(q, b)'
    BY <1>1, <1>3 DEF QuestionOK
  <2>1. h # NoFile
    BY <1>4 DEF Local, FileOK, Asked, Settled
  <2>2. PICK b \in DOMAIN h : h[b] = Message(q, "user") /\ RememberedBefore(q, b)
    BY <1>4 DEF Local, QuestionOK
  <2> QED
    BY <1>4, <1>6, <2>1, <2>2 DEF Extends
<1>8. AnswerOK(q)'
  <2> SUFFICES ASSUME Told(q), sid[q] \in Sessions \ wiped'
               PROVE  \E b, c \in DOMAIN k :
                         /\ b < c /\ RememberedBefore(q, b)'
                         /\ k[b] = Message(q, "user") /\ k[c] = Message(q, "model")
    BY <1>1, <1>3 DEF AnswerOK
  <2>1. h # NoFile
    BY <1>4 DEF Local, FileOK, Told, Settled
  <2>2. PICK b \in DOMAIN h, c \in DOMAIN h :
            /\ b < c /\ RememberedBefore(q, b)
            /\ h[b] = Message(q, "user") /\ h[c] = Message(q, "model")
    BY <1>4 DEF Local, AnswerOK
  <2> QED
    BY <1>4, <1>6, <2>1, <2>2 DEF Extends
<1>9. MemoryOK(q)'
  <2> SUFFICES ASSUME sid[q] \notin wiped'
               PROVE  /\ contents[q] # << >> => k # NoFile /\ InOrder(contents[q], k)
                      /\ Answered(contents[q])
    BY <1>1 DEF MemoryOK, Answered
  <2>1. /\ contents[q] # << >> => h # NoFile /\ InOrder(contents[q], h)
        /\ Answered(contents[q])
    BY DEF Local, MemoryOK
  <2>2. contents[q] # << >> => sid[q] \in Sessions
    BY <1>1 DEF Local, PlaceOK
  <2> HIDE DEF h, k
  <2> QED
    BY <1>4, <2>1, <2>2, InOrderGrows
<1> QED
  BY <1>2, <1>5, <1>7, <1>8, <1>9 DEF Local

(* A step of p that leaves the files alone. *)
LEMMA QuietStep ==
    ASSUME IInv, NEW p \in Procs, Others(p), UNCHANGED <<file, recent, wiped>>,
           TypeOK', LockOK', Local(p)'
    PROVE  IInv'
<1>1. \A s \in Sessions \ wiped' : Grows(s)
  BY DEF Grows
<1>2. ASSUME NEW q \in Procs \ {p}
      PROVE  Local(q)'
  <2>1. Same(q) /\ Local(q)
    BY DEF IInv, Others
  <2>2. LoadedOK(q)'
    BY <2>1 DEF Local, LoadedOK, Same, InMethod
  <2> QED
    BY <1>1, <2>1, <2>2, OthersKeep DEF IInv
<1>3. AnswersFollowQuestions'
  BY DEF IInv, AnswersFollowQuestions, Answered
<1> QED
  BY <1>2, <1>3 DEF IInv

(* One that does not enter or leave a method either. *)
LEMMA OutsideStep ==
    ASSUME IInv, NEW p \in Procs, Others(p),
           UNCHANGED <<file, recent, wiped, lock, frame, outcome>>,
           ~InMethod(p), TypeOK', pc'[p] \notin {"append_model", "appended"},
           PlaceOK(p)', FileOK(p)', MemoryOK(p)'
    PROVE  IInv'
<1>1. LockOK'
  BY DEF IInv, LockOK, HoldsLock, InMethod
<1>2. LoadedOK(p)' /\ QuestionOK(p)' /\ AnswerOK(p)'
  BY DEF LoadedOK, QuestionOK, AnswerOK, Asked, Told, InMethod
<1> QED
  BY <1>1, <1>2, QuietStep DEF Local

(* Where pc says that p is in no method, it is in none. *)
LEMMA Outside ==
    ASSUME IInv, NEW p \in Procs, pc[p] \notin {"created", "append_model", "appended"}
    PROVE  ~InMethod(p)
BY DEF IInv, Local, PlaceOK

LEMMA GotoIs ==
    ASSUME TypeOK, NEW p \in Procs, NEW l \in Labels, Goto(p, l)
    PROVE  pc'[p] = l /\ pc' \in [Procs -> Labels] /\ \A q \in Procs \ {p} : pc'[q] = pc[q]
BY DEF TypeOK, Goto

(* A process goes on without touching its session or what it remembers. *)
LEMMA MoveKeeps ==
    ASSUME IInv, NEW p \in Procs, ~InMethod(p), UNCHANGED <<sessionVars, sid, contents>>,
           NEW l \in Labels \ {"append_model", "appended"}, Goto(p, l),
           TypeOK', \A q \in Procs \ {p} : proposal'[q] = proposal[q],
           l \in {"review", "append_user"} => proposal'[p] \in 1..MaxProposals,
           l \in {"exists", "get_history", "create", "created", "append_user"} =>
              sid[p] \in Sessions,
           l \in {"exists", "get_history", "create", "created"} => contents[p] = << >>,
           \/ Settled(p)
           \/ l = "get_history" /\ file[sid[p]] # NoFile
           \/ l \in {"begin", "exists", "create", "ended"}
    PROVE  IInv'
<1>1. /\ TypeOK /\ PlaceOK(p) /\ FileOK(p) /\ MemoryOK(p)
      /\ UNCHANGED <<file, recent, lock, frame, outcome, wiped, sid, contents>>
  BY DEF IInv, Local, sessionVars
<1>2. pc'[p] = l /\ Others(p)
  BY <1>1, GotoIs DEF Others, Same
<1>3. PlaceOK(p)'
  BY <1>1, <1>2 DEF PlaceOK, InMethod
<1>4. FileOK(p)'
  BY <1>1, <1>2 DEF FileOK, Settled, InMethod
<1>5. MemoryOK(p)'
  BY <1>1 DEF MemoryOK, Answered
<1> QED
  BY <1>1, <1>2, <1>3, <1>4, <1>5, OutsideStep

LEMMA FailoverIs ==
    ASSUME TypeOK, NEW p \in Procs, Failover(p)
    PROVE  /\ candidate' \in [Procs -> 0..Models]
           /\ \E l \in {"review", "ended"} : Goto(p, l)
<1>1. Candidates(p) \in Nat /\ Candidates(p) <= Models
  BY DEF Candidates
<1>2. CASE candidate[p] < Candidates(p)
  <2>1. candidate' = [candidate EXCEPT ![p] = candidate[p] + 1] /\ Goto(p, "review")
    BY <1>2 DEF Failover
  <2>2. candidate[p] + 1 \in 0..Models
    BY <1>1, <1>2 DEF TypeOK
  <2> QED
    BY <2>1, <2>2 DEF TypeOK
<1>3. CASE ~(candidate[p] < Candidates(p))
  BY <1>3 DEF Failover, TypeOK
<1> QED
  BY <1>2, <1>3

(* A failed review, and appends of which one raised. *)
LEMMA FailoverKeeps ==
    ASSUME IInv, NEW p \in Procs, ~InMethod(p), Failover(p),
           pc[p] \in {"review", "append_model", "appended"},
           UNCHANGED <<sessionVars, sid, repl, requested, contents, proposal>>
    PROVE  IInv'
<1>1. TypeOK /\ PlaceOK(p) /\ UNCHANGED <<file, recent, lock, frame, outcome, wiped>>
  BY DEF IInv, Local, sessionVars
<1>2. PICK l \in {"review", "ended"} : Goto(p, l)
  BY <1>1, FailoverIs
<1>3. l \in Labels
  BY DEF Labels
<1>4. TypeOK'
  BY <1>1, <1>2, <1>3, FailoverIs, GotoIs DEF TypeOK
<1>5. Settled(p) /\ proposal'[p] \in 1..MaxProposals
  BY <1>1 DEF Settled, PlaceOK
<1> QED
  BY <1>2, <1>3, <1>4, <1>5, MoveKeeps

LEMMA BeginKeeps == ASSUME IInv, NEW p \in Procs, Begin(p) PROVE IInv'
<1>1. /\ TypeOK /\ pc[p] = "begin" /\ UNCHANGED <<proposal, candidate>>
      /\ UNCHANGED <<file, recent, lock, frame, outcome, wiped>>
      /\ contents' = [contents EXCEPT ![p] = << >>]
  BY DEF IInv, Begin, sessionVars
<1>2. PICK r \in BOOLEAN, m \in BOOLEAN, s \in Sessions \cup {NoSession} :
          /\ repl' = [repl EXCEPT ![p] = r]
          /\ requested' = [requested EXCEPT ![p] = m]
          /\ sid' = [sid EXCEPT ![p] = s]
          /\ Goto(p, IF s = NoSession THEN "prompt" ELSE "exists")
  BY DEF Begin
<1> DEFINE l == IF s = NoSession THEN "prompt" ELSE "exists"
<1>3. l \in Labels /\ ~InMethod(p)
  BY <1>1, Outside DEF Labels
<1>4. /\ pc'[p] = l /\ sid'[p] = s /\ contents'[p] = << >> /\ Others(p)
      /\ pc' \in [Procs -> Labels]
  BY <1>1, <1>2, <1>3, GotoIs DEF TypeOK, Others, Same
<1>5. TypeOK'
  <2>1. contents' \in [Procs -> Seq(AllMessages)]
    BY <1>1 DEF TypeOK
  <2> QED
    BY <1>1, <1>2, <1>4, <2>1 DEF TypeOK
<1>6. PlaceOK(p)' /\ FileOK(p)'
  BY <1>1, <1>3, <1>4 DEF PlaceOK, FileOK, Settled, InMethod
<1>7. MemoryOK(p)'
  <2>1. DOMAIN << >> = {}
    OBVIOUS
  <2> QED
    BY <1>4, <2>1 DEF MemoryOK, Answered
<1> QED
  BY <1>1, <1>3, <1>4, <1>5, <1>6, <1>7, OutsideStep

LEMMA GetHistoryKeeps == ASSUME IInv, NEW p \in Procs, GetHistory(p) PROVE IInv'
<1>0. PICK h \in {History(sid[p]), << >>} : contents' = [contents EXCEPT ![p] = h]
  BY DEF GetHistory, Loadable
<1>1. /\ TypeOK /\ PlaceOK(p) /\ FileOK(p) /\ pc[p] = "get_history" /\ AnswersFollowQuestions
      /\ UNCHANGED <<file, recent, lock, frame, outcome, wiped>>
      /\ UNCHANGED <<sid, repl, requested, proposal, candidate>>
      /\ contents' = [contents EXCEPT ![p] = h] /\ Goto(p, "prompt")
  BY <1>0 DEF IInv, Local, GetHistory, sessionVars
<1>2. ~InMethod(p) /\ "prompt" \in Labels
  BY <1>1, Outside DEF Labels
<1>3. sid[p] \in Sessions /\ h \in Seq(AllMessages)
  <2>1. sid[p] \in Sessions /\ << >> \in Seq(AllMessages)
    BY <1>1 DEF PlaceOK
  <2>2. History(sid[p]) \in Seq(AllMessages)
    BY <1>1, <2>1 DEF TypeOK, History
  <2> QED
    BY <1>0, <2>1, <2>2
<1>4. /\ pc'[p] = "prompt" /\ contents'[p] = h /\ Others(p)
      /\ pc' \in [Procs -> Labels]
  BY <1>1, <1>2, GotoIs DEF TypeOK, Others, Same
<1>5. TypeOK'
  <2>1. contents' \in [Procs -> Seq(AllMessages)]
    BY <1>1, <1>3 DEF TypeOK
  <2> QED
    BY <1>1, <1>4, <2>1 DEF TypeOK
<1>6. PlaceOK(p)' /\ FileOK(p)'
  BY <1>1, <1>2, <1>3, <1>4 DEF PlaceOK, FileOK, Settled, InMethod
<1>7. MemoryOK(p)'
  <2> SUFFICES ASSUME sid[p] \notin wiped
               PROVE  /\ h # << >> => file[sid[p]] # NoFile /\ InOrder(h, file[sid[p]])
                      /\ Answered(h)
    BY <1>1, <1>4 DEF MemoryOK, Answered
  <2>1. file[sid[p]] # NoFile
    BY <1>1, <1>3 DEF FileOK, Settled
  <2>2. h = file[sid[p]] \/ h = << >>
    BY <1>0, <2>1 DEF History
  <2>3. CASE h = file[sid[p]]
    BY <1>1, <1>3, <2>1, <2>3, InOrderBegins DEF AnswersFollowQuestions
  <2>4. CASE h = << >>
    BY <2>4 DEF Answered
  <2> QED
    BY <2>2, <2>3, <2>4
<1> QED
  BY <1>1, <1>2, <1>4, <1>5, <1>6, <1>7, OutsideStep

(* The steps between the calls of the session state.                       *)
LEMMA LookKeeps ==
    ASSUME IInv, NEW p \in Procs,
           \/ Exists(p) \/ Created(p) \/ Propose(p) \/ Quit(p) \/ ReviewAnswered(p)
           \/ Restart(p)
    PROVE  IInv'
<1>1. /\ TypeOK /\ PlaceOK(p)
      /\ UNCHANGED <<file, recent, lock, frame, outcome, wiped>>
      /\ UNCHANGED <<sessionVars, sid, repl, requested, contents>>
  BY DEF IInv, Local, Exists, Created, Propose, Quit, ReviewAnswered, Restart, sessionVars
<1>2. ~InMethod(p)
  <2>1. CASE Created(p)
    BY <2>1 DEF Created
  <2>2. CASE ~Created(p)
    BY <2>2, Outside DEF Exists, Propose, Quit, ReviewAnswered, Restart
  <2> QED
    BY <2>1, <2>2
<1>3. CASE Propose(p)
  <2>1. /\ pc[p] = "prompt" /\ Goto(p, "review") /\ "review" \in Labels
        /\ proposal[p] < MaxProposals
        /\ proposal' = [proposal EXCEPT ![p] = proposal[p] + 1]
        /\ candidate' = [candidate EXCEPT ![p] = 1]
    BY <1>3 DEF Propose, Labels
  <2>2. proposal[p] + 1 \in 1..MaxProposals
    BY <1>1, <2>1 DEF TypeOK
  <2>3. proposal' \in [Procs -> 0..MaxProposals] /\ proposal'[p] \in 1..MaxProposals
    BY <1>1, <2>1, <2>2 DEF TypeOK
  <2>4. TypeOK'
    BY <1>1, <2>1, <2>3, GotoIs DEF TypeOK
  <2>5. Settled(p) /\ \A q \in Procs \ {p} : proposal'[q] = proposal[q]
    BY <1>1, <2>1 DEF Settled, TypeOK
  <2> QED
    BY <1>1, <1>2, <2>1, <2>3, <2>4, <2>5, MoveKeeps
<1>4. ASSUME NEW l \in Labels \ {"append_model", "appended"}, Goto(p, l),
             UNCHANGED <<proposal, candidate>>,
             l \in {"review", "append_user"} => proposal[p] \in 1..MaxProposals,
             l \in {"exists", "get_history", "create", "created", "append_user"} =>
                sid[p] \in Sessions,
             l \in {"exists", "get_history", "create", "created"} => contents[p] = << >>,
             \/ Settled(p)
             \/ l = "get_history" /\ file[sid[p]] # NoFile
             \/ l \in {"begin", "exists", "create", "ended"}
      PROVE  IInv'
  <2>1. TypeOK'
    BY <1>1, <1>4, GotoIs DEF TypeOK
  <2> QED
    BY <1>1, <1>2, <1>4, <2>1, MoveKeeps
<1>5. CASE Exists(p)
  <2> DEFINE l == IF file[sid[p]] = NoFile THEN "create" ELSE "get_history"
  <2>1. Goto(p, l) /\ UNCHANGED <<proposal, candidate>> /\ pc[p] = "exists"
    BY <1>5 DEF Exists
  <2>2. l \in Labels \ {"append_model", "appended"}
    BY DEF Labels
  <2>3. sid[p] \in Sessions /\ contents[p] = << >>
    BY <1>1, <2>1 DEF PlaceOK
  <2> QED
    BY <1>4, <2>1, <2>2, <2>3
<1>6. CASE Created(p)
  <2> DEFINE l == IF outcome[p] = "ok" THEN "prompt" ELSE "ended"
  <2>1. Goto(p, l) /\ UNCHANGED <<proposal, candidate>> /\ pc[p] = "created"
    BY <1>6 DEF Created
  <2>2. l \in Labels \ {"append_model", "appended"}
    BY DEF Labels
  <2>3. Settled(p) \/ l = "ended"
    BY <1>2, <2>1 DEF Settled
  <2> QED
    BY <1>4, <2>1, <2>2, <2>3
<1>7. CASE Quit(p) \/ Restart(p)
  <2>1. PICK l \in {"begin", "ended"} : Goto(p, l) /\ UNCHANGED <<proposal, candidate>>
    BY <1>7 DEF Quit, Restart
  <2>2. l \in Labels \ {"append_model", "appended"}
    BY DEF Labels
  <2> QED
    BY <1>4, <2>1, <2>2
<1>8. CASE ReviewAnswered(p)
  <2>1. PICK l \in {"prompt", "ended", "append_user"} :
            Goto(p, l) /\ (l = "append_user" => sid[p] # NoSession)
    BY <1>8 DEF ReviewAnswered, Reviewed
  <2>2. UNCHANGED <<proposal, candidate>> /\ pc[p] = "review"
    BY <1>8 DEF ReviewAnswered
  <2>3. l \in Labels \ {"append_model", "appended"}
    BY DEF Labels
  <2>4. Settled(p) /\ proposal[p] \in 1..MaxProposals /\ (l = "append_user" => sid[p] \in Sessions)
    BY <1>1, <2>1, <2>2 DEF Settled, PlaceOK, TypeOK
  <2> QED
    BY <1>4, <2>1, <2>2, <2>3, <2>4
<1> QED
  BY <1>3, <1>5, <1>6, <1>7, <1>8

(* p enters or leaves a method without holding a lock. *)
LEMMA LockStays ==
    ASSUME IInv, NEW p \in Procs, Others(p), lock' = lock,
           InMethod(p) => frame[p].at = "lock",
           InMethod(p)' => frame'[p].at = "lock"
    PROVE  LockOK'
<1>1. \A s \in Sessions : ~HoldsLock(p, s) /\ ~HoldsLock(p, s)'
  BY DEF HoldsLock, InMethod
<1>2. \A q \in Procs \ {p}, s \in Sessions : HoldsLock(q, s)' <=> HoldsLock(q, s)
  BY DEF HoldsLock, InMethod, Others, Same
<1> QED
  BY <1>1, <1>2 DEF IInv, LockOK

LEMMA CreateKeeps == ASSUME IInv, NEW p \in Procs, Create(p) PROVE IInv'
<1>1. /\ TypeOK /\ PlaceOK(p) /\ MemoryOK(p) /\ pc[p] = "create" /\ sid[p] \in Sessions
      /\ UNCHANGED <<file, recent, lock, wiped>>
      /\ UNCHANGED <<sid, repl, requested, contents, proposal, candidate>>
      /\ outcome' = [outcome EXCEPT ![p] = "ok"] /\ Goto(p, "created")
  BY DEF IInv, Local, PlaceOK, Create, BeginCreate
<1>2. ~InMethod(p) /\ "created" \in Labels
  BY <1>1, Outside DEF Labels
<1> DEFINE f == [method |-> "create", sid |-> sid[p], at |-> "lock", contents |-> << >>]
<1>3. f \in CreateFrames /\ f.sid = sid[p] /\ f.at = "lock" /\ f.method = "create"
  BY <1>1 DEF CreateFrames
<1>4. frame' = [frame EXCEPT ![p] = f]
  BY DEF Create, BeginCreate
<1> HIDE DEF f
<1>5. frame'[p] = f /\ pc'[p] = "created" /\ TypeOK' /\ Others(p)
  BY <1>1, <1>2, <1>3, <1>4, GotoIs DEF TypeOK, Others, Same
<1>6. LockOK'
  BY <1>1, <1>2, <1>3, <1>5, LockStays
<1>7. f # NoFrame
  BY <1>3, FramesAre
<1>8. PlaceOK(p)' /\ LoadedOK(p)'
  BY <1>1, <1>3, <1>5, <1>7 DEF PlaceOK, LoadedOK, InMethod
<1>9. FileOK(p)' /\ QuestionOK(p)' /\ AnswerOK(p)'
  BY <1>5, <1>7 DEF FileOK, QuestionOK, AnswerOK, Settled, Asked, Told, InMethod
<1>10. MemoryOK(p)'
  BY <1>1 DEF MemoryOK, Answered
<1> QED
  BY <1>1, <1>5, <1>6, <1>8, <1>9, <1>10, QuietStep DEF Local

(* append_message begins: with a file it enters the method.                *)
LEMMA AppendKeeps ==
    ASSUME IInv, NEW p \in Procs, NEW r \in {"user", "model"},
           NEW l \in {"append_model", "appended"},
           BeginAppend(p, sid[p], Message(p, r)), Goto(p, l),
           UNCHANGED <<sid, repl, requested, contents, proposal, candidate>>,
           \/ pc[p] = "append_user" /\ r = "user" /\ l = "append_model"
           \/ /\ pc[p] = "append_model" /\ r = "model" /\ l = "appended"
              /\ outcome[p] = "ok"
    PROVE  IInv'
<1>1. /\ TypeOK /\ PlaceOK(p) /\ FileOK(p) /\ QuestionOK(p) /\ MemoryOK(p)
      /\ ~InMethod(p) /\ sid[p] \in Sessions /\ proposal[p] \in 1..MaxProposals
      /\ UNCHANGED <<file, recent, lock, wiped>>
      /\ outcome' = [outcome EXCEPT ![p] = "ok"]
  BY DEF IInv, Local, PlaceOK, BeginAppend
<1>2. Message(p, r) \in AllMessages /\ l \in Labels
  BY <1>1, MessageIs DEF Labels
<1> DEFINE m == Message(p, r)
           f == [method |-> "append", sid |-> sid[p], at |-> "lock",
                 message |-> m, contents |-> << >>]
<1>3. /\ f \in AppendFrames(AllMessages) /\ f.sid = sid[p] /\ f.at = "lock"
      /\ f.method = "append" /\ f.message = m
  <2> HIDE DEF m
  <2> QED
    BY <1>1, <1>2 DEF AppendFrames, m
<1>4. frame' = (IF file[sid[p]] = NoFile THEN frame ELSE [frame EXCEPT ![p] = f])
  BY DEF BeginAppend
<1> HIDE DEF f, m
<1>5. /\ frame'[p] = (IF file[sid[p]] = NoFile THEN NoFrame ELSE f)
      /\ pc'[p] = l /\ Others(p)
  BY <1>1, <1>2, <1>4, GotoIs DEF TypeOK, Others, Same, InMethod
<1>6. TypeOK'
  BY <1>1, <1>2, <1>3, <1>4, GotoIs DEF TypeOK
<1>7. LockOK'
  BY <1>1, <1>3, <1>5, LockStays DEF InMethod
<1>8. f # NoFrame /\ Message(p, r)' = m
  BY <1>1, <1>3, FramesAre DEF Message, m
<1>9. PlaceOK(p)' /\ LoadedOK(p)'
  BY <1>1, <1>3, <1>5, <1>8 DEF PlaceOK, LoadedOK, InMethod
<1>10. FileOK(p)' /\ MemoryOK(p)'
  BY <1>1, <1>5 DEF FileOK, MemoryOK, Settled, Answered
<1>11. ASSUME sid[p] \in Sessions \ wiped
       PROVE  InMethod(p)'
  BY <1>1, <1>5, <1>8, <1>11 DEF FileOK, Settled, InMethod
<1>12. QuestionOK(p)'
  <2> SUFFICES ASSUME Asked(p)', sid[p] \in Sessions \ wiped
               PROVE  \E b \in DOMAIN file[sid[p]] :
                         file[sid[p]][b] = Message(p, "user") /\ RememberedBefore(p, b)
    BY <1>1 DEF QuestionOK, Message, RememberedBefore
  <2>1. l = "appended"
    BY <1>5, <1>11 DEF Asked
  <2> QED
    BY <1>1, <2>1 DEF QuestionOK, Asked
<1>13. AnswerOK(p)'
  BY <1>1, <1>11 DEF AnswerOK, Told
<1> QED
  BY <1>1, <1>5, <1>6, <1>7, <1>9, <1>10, <1>12, <1>13, QuietStep DEF Local

LEMMA AppendsKeep ==
    ASSUME IInv, NEW p \in Procs, AppendUser(p) \/ AppendModel(p) \/ ReviewFails(p)
    PROVE  IInv'
<1>1. CASE AppendUser(p)
  BY <1>1, AppendKeeps DEF AppendUser
<1>2. CASE AppendModel(p) /\ outcome[p] = "ok"
  BY <1>2, AppendKeeps DEF AppendModel
<1>3. CASE AppendModel(p) /\ outcome[p] # "ok"
  BY <1>3, FailoverKeeps DEF AppendModel
<1>4. CASE ReviewFails(p)
  BY <1>4, Outside, FailoverKeeps DEF ReviewFails
<1> QED
  BY <1>1, <1>2, <1>3, <1>4

(* Both messages are saved when they are remembered. *)
LEMMA RememberKeeps == ASSUME IInv, NEW p \in Procs, Remember(p) PROVE IInv'
<1>1. /\ TypeOK /\ PlaceOK(p) /\ FileOK(p) /\ AnswerOK(p) /\ MemoryOK(p)
      /\ pc[p] = "appended" /\ ~InMethod(p)
      /\ UNCHANGED <<file, recent, lock, frame, outcome, wiped>>
      /\ UNCHANGED <<sessionVars, sid, repl, requested, proposal>>
  BY DEF IInv, Local, Remember, sessionVars
<1>2. CASE outcome[p] # "ok"
  BY <1>1, <1>2, FailoverKeeps DEF Remember
<1>3. CASE outcome[p] = "ok"
  <2> DEFINE u == Message(p, "user")
             m == Message(p, "model")
             g == contents[p]
             k == Append(Append(g, u), m)
             l == IF repl[p] THEN "prompt" ELSE "ended"
             h == file[sid[p]]
  <2>1. /\ contents' = [contents EXCEPT ![p] = g \o <<u, m>>] /\ Goto(p, l)
        /\ candidate' = candidate
    BY <1>3 DEF Remember, Reviewed
  <2>2. /\ u \in AllMessages /\ m \in AllMessages /\ g \in Seq(AllMessages) /\ l \in Labels
        /\ u.role = "user" /\ u = [role |-> "user", turn |-> m.turn]
    BY <1>1, MessageIs DEF PlaceOK, TypeOK, Labels, Message
  <2> HIDE DEF u, m, g, h
  <2>3. k \in Seq(AllMessages) /\ g \o <<u, m>> = k /\ k # << >>
    <3>1. /\ <<u, m>> \in Seq(AllMessages) /\ Len(<<u, m>>) = 2
          /\ <<u, m>>[1] = u /\ <<u, m>>[2] = m /\ Len(g) \in Nat
      BY <2>2
    <3> DEFINE w == g \o <<u, m>>
               n == Len(g)
    <3>2. /\ w \in Seq(AllMessages) /\ Len(w) = n + 2
          /\ \A i \in 1..n : w[i] = g[i]
          /\ w[n + 1] = u /\ w[n + 2] = m
      BY <2>2, <3>1
    <3>3. /\ k \in Seq(AllMessages) /\ Len(k) = n + 2
          /\ \A i \in 1..n : k[i] = g[i]
          /\ k[n + 1] = u /\ k[n + 2] = m
      BY <2>2
    <3>4. \A i \in 1..(n + 2) : i \in 1..n \/ i = n + 1 \/ i = n + 2
      BY <3>1
    <3> HIDE DEF w, k, n
    <3>5. \A i \in 1..(n + 2) : w[i] = k[i]
      BY <3>2, <3>3, <3>4
    <3>6. w = k
      BY <3>2, <3>3, <3>5, SeqEqual
    <3>7. k # << >>
      BY <3>1, <3>3 DEF n
    <3> QED
      BY <3>3, <3>6, <3>7 DEF w
  <2>4. /\ pc'[p] = l /\ contents'[p] = k /\ Others(p) /\ TypeOK'
    <3>1. contents' = [contents EXCEPT ![p] = k]
      BY <2>1, <2>3
    <3> HIDE DEF k
    <3>2. contents' \in [Procs -> Seq(AllMessages)] /\ contents'[p] = k
      BY <1>1, <2>3, <3>1 DEF TypeOK
    <3>3. \A q \in Procs \ {p} : contents'[q] = contents[q]
      BY <1>1, <3>1 DEF TypeOK
    <3> QED
      BY <1>1, <2>1, <2>2, <3>2, <3>3, GotoIs DEF TypeOK, Others, Same
  <2>5. PlaceOK(p)' /\ FileOK(p)'
    BY <1>1, <2>4, NamesAssumption DEF PlaceOK, FileOK, Settled, InMethod
  <2>6. MemoryOK(p)'
    <3> SUFFICES ASSUME sid[p] \notin wiped
                 PROVE  h # NoFile /\ InOrder(k, h) /\ Answered(k)
      BY <1>1, <2>4 DEF MemoryOK, Answered, h
    <3>1. sid[p] \in Sessions \ wiped /\ h # NoFile
      BY <1>1 DEF PlaceOK, FileOK, Settled, h
    <3>2. h \in Seq(AllMessages)
      BY <1>1, <3>1 DEF TypeOK, h
    <3>3. PICK b \in DOMAIN h, c \in DOMAIN h :
              b < c /\ RememberedBefore(p, b) /\ h[b] = u /\ h[c] = m
      BY <1>1, <1>3, <3>1 DEF AnswerOK, Told, h, u, m
    <3>4. InOrder(g, h) /\ Answered(g)
      <4>1. g = << >> => InOrder(g, h)
        BY DEF InOrder
      <4> QED
        BY <1>1, <3>1, <4>1 DEF MemoryOK, g, h
    <3>5. InOrder(k, h)
      BY <2>2, <3>2, <3>3, <3>4, InOrderAppends DEF RememberedBefore, g, h
    <3>6. Answered(Append(g, u)) /\ Append(g, u) \in Seq(AllMessages)
      BY <2>2, <3>4, AnsweredGrows
    <3>7. \E j \in DOMAIN Append(g, u) : Append(g, u)[j] = u
      <4>1. Len(g) + 1 \in DOMAIN Append(g, u) /\ Append(g, u)[Len(g) + 1] = u
        BY <2>2
      <4> QED
        BY <4>1
    <3>8. Answered(k)
      BY <2>2, <3>6, <3>7, AnsweredGrows
    <3> QED
      BY <3>1, <3>5, <3>8
  <2>7. l \notin {"append_model", "appended"}
    OBVIOUS
  <2> QED
    BY <1>1, <2>4, <2>5, <2>6, <2>7, OutsideStep
<1> QED
  BY <1>2, <1>3

-----------------------------------------------------------------------------
(* The steps inside a method. *)
LEMMA FrameIs ==
    ASSUME IInv, NEW p \in Procs, InMethod(p)
    PROVE  /\ frame[p].sid \in Sessions /\ frame[p].sid = sid[p]
           /\ frame[p] \in AppendFrames(AllMessages) \cup CreateFrames
           /\ frame[p].method = "append" => frame[p] \in AppendFrames(AllMessages)
           /\ frame[p].method # "append" => frame[p] \in CreateFrames
BY FramesAre DEF IInv, Local, PlaceOK, AppendFrames, CreateFrames

LEMMA FrameAt ==
    ASSUME NEW f, NEW a \in {"lock", "load", "overwrite"}
    PROVE  LET g == [f EXCEPT !.at = a]
           IN  /\ f \in AppendFrames(AllMessages) =>
                     /\ g \in AppendFrames(AllMessages) /\ g.at = a /\ g.sid = f.sid
                     /\ g.method = f.method /\ g.message = f.message
               /\ f \in CreateFrames /\ a # "load" =>
                     g \in CreateFrames /\ g.at = a /\ g.sid = f.sid /\ g.method = f.method
<1>1. CASE f \in AppendFrames(AllMessages)
  BY <1>1, FramesAre DEF AppendFrames
<1>2. CASE f \in CreateFrames
  BY <1>2, FramesAre DEF CreateFrames
<1> QED
  BY <1>1, <1>2

(* Between entering and leaving a method, what p has saved stays known. *)
LEMMA InsideStep ==
    ASSUME IInv, NEW p \in Procs, InMethod(p), InMethod(p)',
           UNCHANGED <<file, recent, outcome, wiped>>, UNCHANGED runVars
    PROVE  FileOK(p)' /\ QuestionOK(p)' /\ AnswerOK(p)' /\ MemoryOK(p)'
<1>1. /\ FileOK(p) /\ QuestionOK(p) /\ MemoryOK(p)
      /\ UNCHANGED <<pc, sid, contents, proposal>>
  BY DEF IInv, Local, runVars
<1>2. FileOK(p)' /\ MemoryOK(p)'
  BY <1>1 DEF FileOK, MemoryOK, Settled, Answered
<1>3. QuestionOK(p)'
  BY <1>1 DEF QuestionOK, RememberedBefore, Asked, Message
<1>4. AnswerOK(p)'
  BY DEF AnswerOK, Told
<1> QED
  BY <1>2, <1>3, <1>4

LEMMA TakeLockKeeps == ASSUME IInv, NEW p \in Procs, TakeLock(p), UNCHANGED runVars PROVE IInv'
<1> DEFINE f == frame[p]
           a == IF f.method = "append" THEN "load" ELSE "overwrite"
           g == [f EXCEPT !.at = a]
<1>1. /\ TypeOK /\ PlaceOK(p) /\ InMethod(p) /\ f.at = "lock" /\ lock[f.sid] = Nobody
      /\ UNCHANGED <<file, recent, outcome, wiped>>
      /\ UNCHANGED <<pc, sid, repl, requested, contents, proposal, candidate>>
      /\ lock' = [lock EXCEPT ![f.sid] = p] /\ frame' = [frame EXCEPT ![p] = g]
  BY DEF IInv, Local, TakeLock, runVars
<1>2. f.sid \in Sessions /\ f.sid = sid[p] /\ f \in AppendFrames(AllMessages) \cup CreateFrames
  BY <1>1, FrameIs
<1>3. /\ g \in AppendFrames(AllMessages) \cup CreateFrames /\ g.sid = f.sid /\ g.at = a
      /\ g.method = f.method /\ a # "lock"
      /\ f \in AppendFrames(AllMessages) =>
            g \in AppendFrames(AllMessages) /\ g.message = f.message
      /\ f \in CreateFrames => g \in CreateFrames
      /\ f.method = "append" => a = "load"
  <2>1. CASE f \in AppendFrames(AllMessages)
    <3>1. f.method = "append" /\ a = "load" /\ f \notin CreateFrames
      BY <2>1, FramesAre
    <3> HIDE DEF f, a
    <3> QED
      BY <2>1, <3>1, FrameAt
  <2>2. CASE f \in CreateFrames
    <3>1. f.method = "create" /\ a = "overwrite" /\ f \notin AppendFrames(AllMessages)
      BY <2>2, FramesAre
    <3> HIDE DEF f, a
    <3> QED
      BY <2>2, <3>1, FrameAt
  <2> QED
    BY <1>2, <2>1, <2>2
<1> HIDE DEF g, a
<1>4. frame'[p] = g /\ Others(p) /\ TypeOK'
  <2>1. frame'[p] = g /\ Others(p)
    BY <1>1 DEF TypeOK, Others, Same
  <2>2. frame' \in [Procs -> {NoFrame} \cup AppendFrames(AllMessages) \cup CreateFrames]
    BY <1>1, <1>3 DEF TypeOK
  <2>3. lock' \in [Sessions -> Procs \cup {Nobody}]
    BY <1>1 DEF TypeOK
  <2> QED
    BY <1>1, <2>1, <2>2, <2>3 DEF TypeOK
<1>5. g # NoFrame
  BY <1>3, FramesAre
<1>6. LockOK'
  <2> SUFFICES ASSUME NEW q \in Procs, NEW s \in Sessions
               PROVE  (lock'[s] = q) <=> HoldsLock(q, s)'
    BY DEF LockOK
  <2>1. lock[s] = q <=> HoldsLock(q, s)
    BY DEF IInv, LockOK
  <2>2. lock'[s] = IF s = f.sid THEN p ELSE lock[s]
    BY <1>1, <1>2 DEF TypeOK
  <2>3. CASE q = p
    <3>1. HoldsLock(p, s)' <=> s = f.sid
      BY <1>3, <1>4, <1>5 DEF HoldsLock, InMethod
    <3>2. ~HoldsLock(p, s)
      BY <1>1 DEF HoldsLock
    <3> QED
      BY <2>1, <2>2, <2>3, <3>1, <3>2
  <2>4. CASE q # p
    <3>1. HoldsLock(q, s)' <=> HoldsLock(q, s)
      BY <1>4, <2>4 DEF HoldsLock, InMethod, Others, Same
    <3> QED
      BY <1>1, <2>1, <2>2, <2>4, <3>1
  <2> QED
    BY <2>3, <2>4
<1>7. PlaceOK(p)' /\ LoadedOK(p)' /\ InMethod(p)'
  BY <1>1, <1>2, <1>3, <1>4, <1>5, FramesAre DEF PlaceOK, LoadedOK, InMethod, Message
<1>8. FileOK(p)' /\ QuestionOK(p)' /\ AnswerOK(p)' /\ MemoryOK(p)'
  BY <1>1, <1>7, InsideStep
<1> QED
  BY <1>1, <1>4, <1>6, <1>7, <1>8, QuietStep DEF Local

(* A method that raises has done nothing. *)
LEMMA RaiseKeeps ==
    ASSUME IInv, NEW p \in Procs, InMethod(p), TypeOK', LockOK',
           UNCHANGED <<file, recent, wiped>>, UNCHANGED runVars,
           frame' = [frame EXCEPT ![p] = NoFrame],
           outcome' = [outcome EXCEPT ![p] = "raised"]
    PROVE  IInv'
<1>1. /\ TypeOK /\ PlaceOK(p) /\ FileOK(p) /\ MemoryOK(p)
      /\ UNCHANGED <<pc, sid, contents, proposal>>
  BY DEF IInv, Local, runVars
<1>2. frame'[p] = NoFrame /\ outcome'[p] = "raised" /\ Others(p)
  BY <1>1 DEF TypeOK, Others, Same
<1>3. PlaceOK(p)' /\ LoadedOK(p)' /\ FileOK(p)' /\ QuestionOK(p)' /\ AnswerOK(p)'
  BY <1>1, <1>2 DEF PlaceOK, LoadedOK, FileOK, QuestionOK, AnswerOK, Settled, Asked, Told,
     InMethod
<1>4. MemoryOK(p)'
  BY <1>1 DEF MemoryOK, Answered
<1> QED
  BY <1>2, <1>3, <1>4, QuietStep DEF Local

(* Leaving the with block frees the lock. *)
LEMMA UnlockKeeps ==
    ASSUME IInv, NEW p \in Procs, InMethod(p), frame[p].at # "lock", Others(p),
           frame'[p] = NoFrame, lock' = [lock EXCEPT ![frame[p].sid] = Nobody]
    PROVE  LockOK'
<1> SUFFICES ASSUME NEW q \in Procs, NEW s \in Sessions
             PROVE  (lock'[s] = q) <=> HoldsLock(q, s)'
  BY DEF LockOK
<1>1. lock[s] = q <=> HoldsLock(q, s)
  BY DEF IInv, LockOK
<1>2. frame[p].sid \in Sessions /\ lock[frame[p].sid] = p
  BY FrameIs DEF IInv, LockOK, HoldsLock
<1>3. lock'[s] = IF s = frame[p].sid THEN Nobody ELSE lock[s]
  BY <1>2 DEF IInv, TypeOK
<1>4. CASE q = p
  <2>1. ~HoldsLock(p, s)' /\ (HoldsLock(p, s) => s = frame[p].sid)
    BY DEF HoldsLock, InMethod
  <2> QED
    BY <1>1, <1>3, <1>4, <2>1
<1>5. CASE q # p
  <2>1. HoldsLock(q, s)' <=> HoldsLock(q, s)
    BY <1>5 DEF HoldsLock, InMethod, Others, Same
  <2> QED
    BY <1>1, <1>2, <1>3, <1>5, <2>1
<1> QED
  BY <1>4, <1>5

LEMMA FailKeeps ==
    ASSUME IInv, NEW p \in Procs, LockTimeout(p) \/ MethodFails(p), UNCHANGED runVars
    PROVE  IInv'
<1>1. /\ TypeOK /\ InMethod(p) /\ UNCHANGED <<file, recent, wiped>>
      /\ UNCHANGED <<pc, sid, repl, requested, contents, proposal, candidate>>
      /\ frame' = [frame EXCEPT ![p] = NoFrame]
      /\ outcome' = [outcome EXCEPT ![p] = "raised"]
  BY DEF IInv, LockTimeout, MethodFails, Leave, runVars
<1>2. frame'[p] = NoFrame /\ Others(p)
  BY <1>1 DEF TypeOK, Others, Same
<1>3. CASE LockTimeout(p)
  <2>1. lock' = lock /\ frame[p].at = "lock"
    BY <1>3 DEF LockTimeout
  <2>2. TypeOK'
    BY <1>1, <2>1 DEF TypeOK
  <2>3. LockOK'
    BY <1>2, <2>1, LockStays DEF InMethod
  <2> QED
    BY <1>1, <2>2, <2>3, RaiseKeeps
<1>4. CASE MethodFails(p)
  <2>1. lock' = [lock EXCEPT ![frame[p].sid] = Nobody] /\ frame[p].at # "lock"
    BY <1>4 DEF MethodFails, Leave
  <2>2. TypeOK'
    BY <1>1, <2>1 DEF TypeOK
  <2>3. LockOK'
    BY <1>1, <1>2, <2>1, UnlockKeeps
  <2> QED
    BY <1>1, <2>2, <2>3, RaiseKeeps
<1> QED
  BY <1>3, <1>4

(* The end of a read, good or not. *)
LEMMA LoadKeeps ==
    ASSUME IInv, NEW p \in Procs, LoadHistory(p) \/ LoadError(p), UNCHANGED runVars
    PROVE  IInv'
<1> DEFINE f == frame[p]
<1>0. PICK a \in {"write", "overwrite"}, c \in {Append(History(f.sid), f.message), <<f.message>>} :
          /\ frame' = [frame EXCEPT ![p] = [f EXCEPT !.at = a, !.contents = c]]
          /\ a = "write" => c = Append(History(f.sid), f.message)
          /\ a = "overwrite" => c = <<f.message>>
  BY DEF LoadHistory, LoadError
<1> DEFINE g == [f EXCEPT !.at = a, !.contents = c]
<1>1. /\ TypeOK /\ PlaceOK(p) /\ InMethod(p) /\ f.at = "load"
      /\ UNCHANGED <<file, recent, lock, outcome, wiped>>
      /\ UNCHANGED <<pc, sid, repl, requested, contents, proposal, candidate>>
      /\ frame' = [frame EXCEPT ![p] = g]
  BY <1>0 DEF IInv, Local, LoadHistory, LoadError, runVars
<1>2. f \in AppendFrames(AllMessages) /\ f.sid \in Sessions /\ f.sid = sid[p]
  BY <1>1, FrameIs, FramesAre
<1>3. c \in Seq(AllMessages)
  <2>1. History(f.sid) \in Seq(AllMessages) /\ f.message \in AllMessages
    BY <1>1, <1>2 DEF History, TypeOK, AppendFrames
  <2>2. <<f.message>> \in Seq(AllMessages) /\ Append(History(f.sid), f.message) \in Seq(AllMessages)
    BY <2>1
  <2> QED
    BY <1>0, <2>2
<1>4. /\ g \in AppendFrames(AllMessages) /\ g.sid = f.sid /\ g.at = a
      /\ g.message = f.message /\ g.contents = c /\ g.method = "append"
  BY <1>2, <1>3 DEF AppendFrames
<1>5. a = "write" /\ file[f.sid] # NoFile => c = Append(file[f.sid], f.message)
  BY <1>0 DEF History
<1> HIDE DEF g
<1>6. frame'[p] = g /\ Others(p) /\ TypeOK'
  BY <1>1, <1>4 DEF TypeOK, Others, Same
<1>7. g # NoFrame
  BY <1>4, FramesAre
<1>8. LockOK'
  <2>1. \A q \in Procs, s \in Sessions : HoldsLock(q, s)' <=> HoldsLock(q, s)
    BY <1>1, <1>4, <1>6, <1>7 DEF HoldsLock, InMethod, Others, Same
  <2> QED
    BY <1>1, <2>1 DEF IInv, LockOK
<1>9. PlaceOK(p)' /\ LoadedOK(p)' /\ InMethod(p)'
  <2>1. PlaceOK(p)' /\ InMethod(p)'
    BY <1>1, <1>2, <1>4, <1>6, <1>7, FramesAre DEF PlaceOK, InMethod, Message
  <2>2. LoadedOK(p)'
    BY <1>0, <1>1, <1>4, <1>5, <1>6 DEF LoadedOK, InMethod
  <2> QED
    BY <2>1, <2>2
<1>10. FileOK(p)' /\ QuestionOK(p)' /\ AnswerOK(p)' /\ MemoryOK(p)'
  BY <1>1, <1>9, InsideStep
<1> QED
  BY <1>1, <1>6, <1>8, <1>9, <1>10, QuietStep DEF Local

(* A write, whole or torn, of the contents c. *)
Writes(p, c) ==
    LET s == frame[p].sid
    IN  /\ Writing(p) /\ Leave(p, "ok")
        /\ file' = [file EXCEPT ![s] = c] /\ recent' = Touch(s)
        /\ \A r \in wiped : r \in wiped'
        /\ \A r \in wiped' : r \in wiped \/ r = s
        /\ c \in {frame[p].contents, << >>}
        /\ s \notin wiped' =>
              c = frame[p].contents /\ (frame[p].at = "overwrite" => file[s] \in {NoFile, << >>})

LEMMA WritesAre ==
    ASSUME NEW p \in Procs
    PROVE  /\ WriteHistory(p) => Writes(p, frame[p].contents)
           /\ WriteLess(p) => Writes(p, << >>)
BY DEF Writes, WriteHistory, WriteLess

(* A history that is written extends the one that is there, or begins it. *)
LEMMA WriteIs ==
    ASSUME IInv, NEW p \in Procs, NEW c, Writes(p, c)
    PROVE  LET s == frame[p].sid
           IN  /\ s \notin wiped' /\ frame[p] \in AppendFrames(AllMessages) =>
                     /\ file[s] # NoFile /\ c = Append(file[s], frame[p].message)
                     /\ frame[p].message \in AllMessages
               /\ s \notin wiped' /\ frame[p] \in CreateFrames =>
                     file[s] \in {NoFile, << >>} /\ c = << >>
               /\ \A r \in Sessions \ wiped' : Grows(r)
<1> DEFINE f == frame[p]
           s == f.sid
<1>1. /\ TypeOK /\ PlaceOK(p) /\ LoadedOK(p) /\ FileOK(p)
      /\ InMethod(p) /\ f.at \in {"write", "overwrite"}
      /\ file' = [file EXCEPT ![s] = c] /\ \A r \in wiped : r \in wiped'
      /\ s \notin wiped' =>
            c = f.contents /\ (f.at = "overwrite" => file[s] \in {NoFile, << >>})
  <2>1. TypeOK /\ PlaceOK(p) /\ LoadedOK(p) /\ FileOK(p)
    BY DEF IInv, Local
  <2>2. InMethod(p) /\ f.at \in {"write", "overwrite"}
    BY DEF Writes, Writing
  <2>3. file' = [file EXCEPT ![s] = c] /\ \A r \in wiped : r \in wiped'
    BY DEF Writes
  <2>4. s \notin wiped' =>
            c = f.contents /\ (f.at = "overwrite" => file[s] \in {NoFile, << >>})
    BY Zenon DEF Writes
  <2> QED
    BY <2>1, <2>2, <2>3, <2>4
<1>2. s \in Sessions /\ s = sid[p] /\ f \in AppendFrames(AllMessages) \cup CreateFrames
  BY <1>1, FrameIs
<1>3. file'[s] = c /\ \A r \in Sessions \ {s} : file'[r] = file[r]
  BY <1>1, <1>2 DEF TypeOK
<1>4. wiped \subseteq wiped'
  BY <1>1
<1>5. ASSUME s \notin wiped', f \in AppendFrames(AllMessages)
      PROVE  /\ file[s] # NoFile /\ c = Append(file[s], f.message)
             /\ f.message \in AllMessages
  <2>1. s \notin wiped /\ f.method = "append" /\ f.message \in AllMessages
    BY <1>4, <1>5, FramesAre DEF AppendFrames
  <2>2. Settled(p)
    BY <1>1, <1>5, FramesAre DEF PlaceOK, Settled
  <2>3. file[s] # NoFile /\ c = f.contents
    BY <1>1, <1>2, <1>5, <2>1, <2>2 DEF FileOK
  <2>4. CASE f.at = "write"
    BY <1>1, <2>1, <2>3, <2>4 DEF LoadedOK
  <2>5. CASE f.at = "overwrite"
    <3>1. file[s] = << >> /\ c = <<f.message>>
      BY <1>1, <1>5, <2>1, <2>3, <2>5 DEF LoadedOK
    <3> QED
      BY <2>1, <2>3, <3>1
  <2> QED
    BY <1>1, <2>4, <2>5
<1>6. ASSUME s \notin wiped', f \in CreateFrames
      PROVE  file[s] \in {NoFile, << >>} /\ c = << >>
  <2>1. c = << >> /\ f.at = "overwrite"
    BY <1>1, <1>6, FramesAre
  <2> QED
    BY <1>1, <1>6, <2>1
<1>7. \A r \in Sessions \ wiped' : Grows(r)
  BY <1>2, <1>3, <1>5, <1>6 DEF Grows
<1> QED
  BY <1>5, <1>6, <1>7

(* What p has saved when its method ends. *)
LEMMA SavedIs ==
    ASSUME IInv, NEW p \in Procs, NEW c, Writes(p, c), UNCHANGED runVars,
           sid[p] \notin wiped', frame[p] \in AppendFrames(AllMessages)
    PROVE  LET h == file[sid[p]]
           IN  /\ h \in Seq(AllMessages) /\ file'[sid[p]] = Append(h, frame[p].message)
               /\ frame[p].message \in AllMessages
               /\ \A i \in DOMAIN contents[p] : \E a \in DOMAIN h : h[a] = contents[p][i]
<1> DEFINE h == file[sid[p]]
<1>1. /\ TypeOK /\ MemoryOK(p) /\ InMethod(p)
      /\ file' = [file EXCEPT ![frame[p].sid] = c] /\ \A r \in wiped : r \in wiped'
  BY DEF IInv, Local, Writes, Writing
<1>2. sid[p] \in Sessions /\ frame[p].sid = sid[p]
  BY <1>1, FrameIs
<1>3. /\ h # NoFile /\ c = Append(h, frame[p].message)
      /\ frame[p].message \in AllMessages
  BY <1>2, WriteIs
<1>4. h \in Seq(AllMessages) /\ file'[sid[p]] = Append(h, frame[p].message)
  BY <1>1, <1>2, <1>3 DEF TypeOK
<1>5. ASSUME NEW i \in DOMAIN contents[p]
      PROVE  \E a \in DOMAIN h : h[a] = contents[p][i]
  <2>1. contents[p] \in Seq(AllMessages) /\ contents[p] # << >> /\ i <= i
    BY <1>1, <1>5 DEF TypeOK
  <2>2. InOrder(contents[p], h)
    BY <1>1, <2>1 DEF MemoryOK
  <2> QED
    BY <2>1, <2>2 DEF InOrder
<1> QED
  BY <1>3, <1>4, <1>5

LEMMA WriteKeeps ==
    ASSUME IInv, NEW p \in Procs, WriteHistory(p) \/ WriteLess(p), UNCHANGED runVars
    PROVE  IInv'
<1> DEFINE f == frame[p]
           s == f.sid
<1>0. PICK c \in {f.contents, << >>} : Writes(p, c)
  BY WritesAre
<1>1. /\ TypeOK /\ PlaceOK(p) /\ FileOK(p) /\ QuestionOK(p) /\ MemoryOK(p)
      /\ InMethod(p) /\ f.at # "lock"
      /\ UNCHANGED <<pc, sid, repl, requested, contents, proposal, candidate>>
      /\ file' = [file EXCEPT ![s] = c] /\ recent' = Touch(s)
      /\ lock' = [lock EXCEPT ![s] = Nobody]
      /\ frame' = [frame EXCEPT ![p] = NoFrame] /\ outcome' = [outcome EXCEPT ![p] = "ok"]
      /\ \A r \in wiped : r \in wiped'
      /\ \A r \in wiped' : r \in wiped \/ r = s
  BY <1>0 DEF IInv, Local, Writes, Writing, Leave, runVars
<1>2. s \in Sessions /\ s = sid[p] /\ f \in AppendFrames(AllMessages) \cup CreateFrames
  BY <1>1, FrameIs
<1>3. c \in Seq(AllMessages) /\ c # NoFile
  <2>1. f.contents \in Seq(AllMessages) \/ f.contents = << >>
    BY <1>2, FramesAre DEF AppendFrames
  <2>2. << >> \in Seq(AllMessages)
    OBVIOUS
  <2> QED
    BY <2>1, <2>2
<1>4. /\ frame'[p] = NoFrame /\ outcome'[p] = "ok" /\ Others(p)
      /\ file'[s] = c /\ \A r \in Sessions \ {s} : file'[r] = file[r]
  BY <1>1, <1>2 DEF TypeOK, Others, Same
<1>5. TypeOK'
  <2>1. recent' \in Seq(Sessions)
    <3>1. Without(s) \in Seq(Sessions)
      BY <1>1, WithoutIs DEF TypeOK
    <3> QED
      BY <1>1, <1>2, <3>1 DEF Touch
  <2>2. file' \in [Sessions -> {NoFile} \cup Seq(AllMessages)]
    BY <1>1, <1>3 DEF TypeOK
  <2>3. wiped' \subseteq Sessions /\ lock' \in [Sessions -> Procs \cup {Nobody}]
    BY <1>1, <1>2 DEF TypeOK
  <2> QED
    BY <1>1, <2>1, <2>2, <2>3 DEF TypeOK
<1>6. LockOK'
  BY <1>1, <1>4, UnlockKeeps
<1>7. wiped \subseteq wiped'
  BY <1>1
<1>8. \A r \in Sessions \ wiped' : Grows(r)
  BY <1>0, WriteIs
<1>9. ASSUME NEW q \in Procs \ {p}
      PROVE  Local(q)'
  <2>1. Same(q) /\ Local(q)
    BY <1>4 DEF Others, IInv
  <2>2. LoadedOK(q)'
    <3> SUFFICES ASSUME InMethod(q), frame[q].method = "append", frame[q].at = "write",
                        file'[frame[q].sid] # NoFile
                 PROVE  frame[q].contents = Append(file'[frame[q].sid], frame[q].message)
      BY <2>1 DEF Local, LoadedOK, InMethod, Same
    <3>1. frame[q].sid \in Sessions
      BY FrameIs
    <3>2. HoldsLock(q, frame[q].sid) /\ HoldsLock(p, s)
      BY <1>1 DEF HoldsLock
    <3>3. frame[q].sid # s
      BY <1>2, <3>1, <3>2 DEF IInv, LockOK
    <3> QED
      BY <1>4, <2>1, <3>1, <3>3 DEF Local, LoadedOK
  <2> QED
    BY <1>1, <1>7, <1>8, <2>1, <2>2, OthersKeep
<1>10. PlaceOK(p)' /\ LoadedOK(p)' /\ FileOK(p)'
  BY <1>1, <1>2, <1>3, <1>4 DEF PlaceOK, LoadedOK, FileOK, InMethod
<1> DEFINE h == file[s]
           n == Len(h)
           m == f.message
<1>11. ASSUME s \notin wiped', f \in AppendFrames(AllMessages)
       PROVE  /\ h \in Seq(AllMessages) /\ m \in AllMessages
              /\ n \in Nat /\ DOMAIN h = 1..n /\ n + 1 \in DOMAIN file'[s]
              /\ file'[s] = Append(h, m) /\ file'[s][n + 1] = m
              /\ \A j \in 1..n : j \in DOMAIN file'[s] /\ file'[s][j] = h[j]
              /\ \A i \in DOMAIN contents[p] : \E a \in 1..n : file'[s][a] = contents[p][i]
  <2>1. /\ h \in Seq(AllMessages) /\ m \in AllMessages /\ file'[s] = Append(h, m)
        /\ \A i \in DOMAIN contents[p] : \E a \in DOMAIN h : h[a] = contents[p][i]
    BY <1>0, <1>2, <1>11, SavedIs
  <2> HIDE DEF h, m, s
  <2>2. /\ n \in Nat /\ DOMAIN h = 1..n /\ n + 1 \in DOMAIN file'[s]
        /\ file'[s][n + 1] = m
        /\ \A j \in 1..n : j \in DOMAIN file'[s] /\ file'[s][j] = h[j]
    BY <2>1
  <2> HIDE DEF n
  <2> QED
    BY <2>1, <2>2
<1>12. QuestionOK(p)'
  <2> SUFFICES ASSUME pc[p] = "append_model", s \notin wiped'
               PROVE  \E b \in DOMAIN file'[s] :
                         file'[s][b] = Message(p, "user") /\ RememberedBefore(p, b)'
    BY <1>1, <1>2, <1>4 DEF QuestionOK, Asked, InMethod, Message
  <2>1. f \in AppendFrames(AllMessages) /\ m = Message(p, "user")
    BY <1>1 DEF PlaceOK
  <2>2. PICK b \in DOMAIN file'[s] : b = n + 1
    BY <1>11, <2>1
  <2>3. RememberedBefore(p, b)'
    <3>1. /\ n \in Nat
          /\ \A i \in DOMAIN contents[p] : \E a \in 1..n : file'[s][a] = contents[p][i]
      BY <1>11, <2>1
    <3>2. b - 1 = n
      BY <2>2, <3>1
    <3> HIDE DEF n
    <3> QED
      BY <1>1, <1>2, <3>1, <3>2 DEF RememberedBefore
  <2> QED
    BY <1>11, <2>1, <2>2, <2>3
<1>13. AnswerOK(p)'
  <2> SUFFICES ASSUME pc[p] = "appended", s \notin wiped'
               PROVE  \E b, d \in DOMAIN file'[s] :
                         /\ b < d /\ RememberedBefore(p, b)'
                         /\ file'[s][b] = Message(p, "user")
                         /\ file'[s][d] = Message(p, "model")
    BY <1>1, <1>2, <1>4 DEF AnswerOK, Told, InMethod, Message
  <2>1. f \in AppendFrames(AllMessages) /\ m = Message(p, "model")
    BY <1>1 DEF PlaceOK
  <2>2. PICK b \in DOMAIN h : h[b] = Message(p, "user") /\ RememberedBefore(p, b)
    BY <1>1, <1>2, <1>7 DEF QuestionOK, Asked
  <2>3. b \in 1..n /\ n \in Nat
    BY <1>11, <2>1, <2>2
  <2>4. b < n + 1 /\ \A a \in 1..(b - 1) : a \in 1..n
    BY <2>3
  <2>5. RememberedBefore(p, b)'
    <3>1. \A a \in 1..(b - 1) : file'[s][a] = h[a]
      BY <1>11, <2>1, <2>4
    <3> QED
      BY <1>1, <1>2, <2>2, <3>1 DEF RememberedBefore
  <2> QED
    BY <1>11, <2>1, <2>2, <2>3, <2>4, <2>5
<1>14. MemoryOK(p)'
  <2> SUFFICES ASSUME s \notin wiped'
               PROVE  /\ contents[p] # << >> => file'[s] # NoFile /\ InOrder(contents[p], file'[s])
                      /\ Answered(contents[p])
    BY <1>1, <1>2 DEF MemoryOK, Answered
  <2>1. /\ contents[p] # << >> => h # NoFile /\ InOrder(contents[p], h)
        /\ Answered(contents[p])
    BY <1>1, <1>2, <1>7 DEF MemoryOK
  <2>2. h # NoFile => file'[s] # NoFile /\ Extends(h, file'[s])
    BY <1>1, <1>2, <1>8, GrowsBy
  <2> HIDE DEF h, s
  <2> QED
    BY <2>1, <2>2, InOrderGrows
<1>15. AnswersFollowQuestions'
  <2> SUFFICES ASSUME NEW r \in Sessions \ wiped', file'[r] # NoFile
               PROVE  Answered(file'[r])
    BY DEF AnswersFollowQuestions, Answered
  <2>1. r \notin wiped /\ AnswersFollowQuestions
    BY <1>7 DEF IInv
  <2>2. CASE r # s
    BY <1>4, <2>1, <2>2 DEF AnswersFollowQuestions
  <2>3. CASE r = s /\ f \in AppendFrames(AllMessages)
    <3>1. h \in Seq(AllMessages) /\ m \in AllMessages /\ file'[s] = Append(h, m)
      BY <1>11, <2>3
    <3>2. Answered(h)
      BY <1>2, <2>1, <2>3, <3>1 DEF AnswersFollowQuestions
    <3>3. ASSUME m.role = "model"
          PROVE  \E j \in DOMAIN h : h[j] = [role |-> "user", turn |-> m.turn]
      <4>1. pc[p] = "appended" /\ m = Message(p, "model")
        <5>1. Message(p, "user").role = "user"
          BY DEF Message
        <5>2. m # Message(p, "user")
          BY <3>3, <5>1
        <5> QED
          BY <1>1, <2>3, <5>2, FramesAre DEF PlaceOK
      <4>2. PICK j \in DOMAIN h : h[j] = Message(p, "user")
        BY <1>1, <1>2, <2>1, <2>3, <4>1 DEF QuestionOK, Asked
      <4>3. Message(p, "user") = [role |-> "user", turn |-> m.turn]
        BY <4>1 DEF Message
      <4> QED
        BY <4>2, <4>3
    <3> QED
      BY <2>3, <3>1, <3>2, <3>3, AnsweredGrows
  <2>4. CASE r = s /\ f \in CreateFrames
    <3>1. file'[s] = << >>
      BY <1>0, <1>4, <2>4, FramesAre
    <3> QED
      BY <2>4, <3>1 DEF Answered
  <2> QED
    BY <1>2, <2>2, <2>3, <2>4
<1> QED
  BY <1>5, <1>6, <1>9, <1>10, <1>12, <1>13, <1>14, <1>15 DEF IInv, Local

-----------------------------------------------------------------------------
(* Deaths, ended sessions and whole behaviours. *)
LEMMA CrashKeeps == ASSUME IInv, NEW p \in Procs, Crash(p) PROVE IInv'
<1>1. /\ TypeOK /\ Goto(p, "ended") /\ "ended" \in Labels
      /\ UNCHANGED <<file, recent, wiped, sid, repl, requested, proposal, candidate>>
      /\ contents' = [contents EXCEPT ![p] = << >>]
      /\ lock' = [s \in Sessions |-> IF lock[s] = p THEN Nobody ELSE lock[s]]
      /\ frame' = [frame EXCEPT ![p] = NoFrame] /\ outcome' = [outcome EXCEPT ![p] = "ok"]
  BY DEF IInv, Crash, DropFrame, Labels
<1>2. /\ frame'[p] = NoFrame /\ pc'[p] = "ended" /\ contents'[p] = << >> /\ Others(p)
      /\ pc' \in [Procs -> Labels]
  BY <1>1, GotoIs DEF TypeOK, Others, Same
<1>3. TypeOK'
  <2>1. contents' \in [Procs -> Seq(AllMessages)]
    BY <1>1 DEF TypeOK
  <2> QED
    BY <1>1, <1>2, <2>1 DEF TypeOK
<1>4. LockOK'
  <2> SUFFICES ASSUME NEW q \in Procs, NEW s \in Sessions
               PROVE  (lock'[s] = q) <=> HoldsLock(q, s)'
    BY DEF LockOK
  <2>1. lock[s] = q <=> HoldsLock(q, s)
    BY DEF IInv, LockOK
  <2>2. CASE q = p
    BY <1>1, <1>2, <2>2 DEF HoldsLock, InMethod
  <2>3. CASE q # p
    <3>1. HoldsLock(q, s)' <=> HoldsLock(q, s)
      BY <1>2, <2>3 DEF HoldsLock, InMethod, Others, Same
    <3> QED
      BY <1>1, <2>1, <2>3, <3>1
  <2> QED
    BY <2>2, <2>3
<1>5. PlaceOK(p)' /\ LoadedOK(p)' /\ FileOK(p)' /\ QuestionOK(p)' /\ AnswerOK(p)'
  BY <1>2 DEF PlaceOK, LoadedOK, FileOK, QuestionOK, AnswerOK, Settled, Asked, Told, InMethod
<1>6. MemoryOK(p)'
  <2>1. DOMAIN << >> = {}
    OBVIOUS
  <2> QED
    BY <1>2, <2>1 DEF MemoryOK, Answered
<1> QED
  BY <1>1, <1>2, <1>3, <1>4, <1>5, <1>6, QuietStep DEF Local

LEMMA EndKeeps == ASSUME IInv, NEW s \in Sessions, End(s) PROVE IInv'
<1>1. /\ TypeOK /\ UNCHANGED <<lock, frame, outcome>>
      /\ UNCHANGED <<pc, sid, repl, requested, contents, proposal, candidate>>
      /\ file' = [file EXCEPT ![s] = NoFile] /\ recent' = Without(s)
      /\ wiped' = wiped \cup {s}
  BY DEF IInv, End, Unlink, runVars
<1>2. file'[s] = NoFile /\ \A r \in Sessions \ {s} : file'[r] = file[r]
  BY <1>1 DEF TypeOK
<1>3. TypeOK'
  <2>1. recent' \in Seq(Sessions)
    BY <1>1, WithoutIs DEF TypeOK
  <2> QED
    BY <1>1, <2>1 DEF TypeOK
<1>4. LockOK'
  BY <1>1 DEF IInv, LockOK, HoldsLock, InMethod
<1>5. \A r \in Sessions \ wiped' : Grows(r)
  BY <1>1, <1>2 DEF Grows
<1>6. ASSUME NEW q \in Procs
      PROVE  Local(q)'
  <2>1. Same(q) /\ Local(q)
    BY <1>1 DEF Same, IInv
  <2>2. LoadedOK(q)'
    <3>1. InMethod(q) => frame[q].sid \in Sessions
      BY FrameIs
    <3> QED
      BY <1>1, <1>2, <2>1, <3>1 DEF Local, LoadedOK, InMethod
  <2> QED
    BY <1>1, <1>5, <2>1, <2>2, OthersKeep
<1>7. AnswersFollowQuestions'
  BY <1>1, <1>2 DEF IInv, AnswersFollowQuestions, Answered
<1> QED
  BY <1>3, <1>4, <1>6, <1>7 DEF IInv

LEMMA InitEstablishes == Init => IInv
<1> SUFFICES ASSUME Init
             PROVE  IInv
  OBVIOUS
<1> DEFINE F == {s \in Sessions : file[s] # NoFile}
           n == Cardinality(F)
<1>1. file \in [Sessions -> {NoFile, << >>}] /\ recent \in SetToSeqs(F)
  BY DEF Init, SessionInit
<1>2. n \in Nat /\ IsFiniteSet(F)
  BY FS_Subset, FS_CardinalityType
<1>3. recent \in [1..n -> F]
  BY <1>1 DEF SetToSeqs
<1>4. recent \in Seq(Sessions)
  <2> HIDE DEF n
  <2>1. recent \in [1..n -> Sessions]
    BY <1>3
  <2> QED
    BY <1>2, <2>1
<1>5. TypeOK
  <2>1. << >> \in Seq(AllMessages) /\ "begin" \in Labels
    BY DEF Labels
  <2>2. /\ file \in [Sessions -> {NoFile} \cup Seq(AllMessages)]
        /\ contents \in [Procs -> Seq(AllMessages)]
    BY <1>1, <2>1 DEF Init
  <2>3. 0 \in 0..MaxProposals /\ 0 \in 0..Models
    OBVIOUS
  <2> QED
    BY <1>4, <2>1, <2>2, <2>3 DEF Init, SessionInit, TypeOK
<1>6. \A p \in Procs : ~InMethod(p) /\ pc[p] = "begin" /\ contents[p] = << >>
  BY DEF Init, SessionInit, InMethod
<1>7. LockOK
  BY <1>6 DEF LockOK, HoldsLock, Init, SessionInit
<1>8. ASSUME NEW p \in Procs
      PROVE  Local(p)
  <2>1. MemoryOK(p)
    <3>1. DOMAIN << >> = {}
      OBVIOUS
    <3> QED
      BY <1>6, <3>1 DEF MemoryOK, Answered
  <2> QED
    BY <1>6, <2>1 DEF Local, PlaceOK, LoadedOK, FileOK, QuestionOK, AnswerOK, Settled, Asked,
       Told
<1>9. AnswersFollowQuestions
  BY <1>1 DEF AnswersFollowQuestions, Answered
<1> QED
  BY <1>5, <1>7, <1>8, <1>9 DEF IInv

LEMMA NextKeeps == IInv /\ [Next]_vars => IInv'
<1> SUFFICES ASSUME IInv, [Next]_vars
             PROVE  IInv'
  OBVIOUS
<1>1. ASSUME NEW p \in Procs, InState(p)
      PROVE  IInv'
  BY <1>1, TakeLockKeeps, FailKeeps, LoadKeeps, WriteKeeps DEF InState, MethodStep
<1>2. CASE UNCHANGED vars
  <2>1. /\ UNCHANGED <<file, recent, lock, frame, outcome, wiped>>
        /\ UNCHANGED <<pc, sid, repl, requested, contents, proposal, candidate>>
    BY <1>2 DEF vars, sessionVars
  <2>2. TypeOK'
    BY <2>1 DEF IInv, TypeOK
  <2>3. LockOK' /\ AnswersFollowQuestions'
    BY <2>1 DEF IInv, LockOK, HoldsLock, InMethod, AnswersFollowQuestions, Answered
  <2>4. ASSUME NEW q \in Procs
        PROVE  Local(q)'
    <3>1. Same(q) /\ Local(q) /\ TypeOK
      BY <2>1 DEF Same, IInv
    <3>2. LoadedOK(q)'
      BY <2>1, <3>1 DEF Local, LoadedOK, InMethod
    <3>3. \A s \in Sessions \ wiped' : Grows(s)
      BY <2>1 DEF Grows
    <3> QED
      BY <2>1, <3>1, <3>2, <3>3, OthersKeep
  <2> QED
    BY <2>2, <2>3, <2>4 DEF IInv
<1> QED
  BY <1>1, <1>2, BeginKeeps, GetHistoryKeeps, LookKeeps, CreateKeeps, AppendsKeep,
     RememberKeeps, CrashKeeps, EndKeeps DEF Next

LEMMA Holds == Spec => []IInv
BY InitEstablishes, NextKeeps, PTL DEF Spec

-----------------------------------------------------------------------------
(* Every variable, what the files and the memories hold and what a method  *)
(* knows keeps its type.                                                   *)
THEOREM TypesHold == Spec => []TypeOK
<1>1. IInv => TypeOK
  BY DEF IInv
<1> QED
  BY <1>1, Holds, PTL

(* plan_review.py: whatever fails between the two appends, and whichever   *)
(* model is tried next, what a REPL remembers is in its session file, in   *)
(* the same order.                                                         *)
THEOREM MemoryIsSaved == Spec => []SavedConversation
<1>1. IInv => SavedConversation
  BY DEF IInv, Local, MemoryOK, SavedConversation
<1> QED
  BY <1>1, Holds, PTL

(* plan_review.py: a failover leaves questions without an answer on disk,  *)
(* never an answer without its question in memory.                         *)
THEOREM MemoryHasItsQuestions == Spec => []MemoryIsComplete
<1>1. IInv => MemoryIsComplete
  BY DEF IInv, Local, MemoryOK, MemoryIsComplete
<1> QED
  BY <1>1, Holds, PTL

(* Nor on disk, where the question and the answer of a review are saved by *)
(* two separate writes.                                                    *)
THEOREM AnswersAreBehindQuestions == Spec => []AnswersFollowQuestions
<1>1. IInv => AnswersFollowQuestions
  BY DEF IInv
<1> QED
  BY <1>1, Holds, PTL

-----------------------------------------------------------------------------
(* What a step does to the files. *)
LEMMA FilesChange ==
    ASSUME IInv, [Next]_vars
    PROVE  \/ file' = file /\ wiped' = wiped
           \/ \E p \in Procs : WriteHistory(p) \/ WriteLess(p)
           \/ \E s \in Sessions : End(s)
<1>1. CASE UNCHANGED vars
  BY <1>1 DEF vars, sessionVars
<1>2. ASSUME NEW p \in Procs, InState(p)
      PROVE  (file' = file /\ wiped' = wiped) \/ WriteHistory(p) \/ WriteLess(p)
  BY <1>2 DEF InState, MethodStep, TakeLock, LockTimeout, LoadHistory, LoadError,
     MethodFails
<1>3. ASSUME NEW p \in Procs,
             \/ Begin(p) \/ Exists(p) \/ GetHistory(p) \/ Create(p) \/ Created(p)
             \/ Propose(p) \/ Quit(p) \/ ReviewFails(p) \/ ReviewAnswered(p)
             \/ AppendUser(p) \/ AppendModel(p) \/ Remember(p) \/ Restart(p) \/ Crash(p)
      PROVE  file' = file /\ wiped' = wiped
  BY <1>3 DEF Begin, Exists, GetHistory, Create, Created, Propose, Quit, ReviewFails,
     ReviewAnswered, AppendUser, AppendModel, Remember, Restart, Crash, DropFrame,
     BeginCreate, BeginAppend, sessionVars
<1> QED
  BY <1>1, <1>2, <1>3 DEF Next

(* session_state.py:8: a saved message stays in its file, in its place,    *)
(* until its session is ended or created anew; a review that starts while  *)
(* others run takes nothing from them.                                     *)
THEOREM NothingSavedIsLost == Spec => SavedMessagesStay
<1>1. ASSUME IInv, [Next]_vars, NEW s \in Sessions \ wiped', file[s] # NoFile
      PROVE  file'[s] # NoFile /\ IsPrefix(file[s], file'[s])
  <2>1. TypeOK /\ file[s] \in Seq(AllMessages)
    BY <1>1 DEF IInv, TypeOK
  <2>2. ASSUME NEW r \in Sessions, End(r)
        PROVE  Grows(s)
    BY <1>1, <2>1, <2>2 DEF End, Unlink, TypeOK, Grows
  <2>3. Grows(s)
    BY <1>1, <2>2, FilesChange, WritesAre, WriteIs DEF Grows
  <2> QED
    BY <1>1, <2>1, <2>3, GrowsBy, ExtendsIsPrefix
<1>2. IInv /\ [Next]_vars =>
         [\A s \in Sessions \ wiped' :
             file[s] # NoFile =>
                file'[s] # NoFile /\ IsPrefix(file[s], file'[s])]_sessionVars
  BY <1>1
<1> QED
  BY <1>2, Holds, PTL DEF Spec, SavedMessagesStay

(* append_message writes the history it read under the lock and its        *)
(* message, and nobody wrote the file in between; only somebody who ended  *)
(* the session, or a write that fell short, takes the history away.        *)
THEOREM AppendsExtend == Spec => AppendsKeepHistory
<1> DEFINE Writer(p, s) ==
               /\ InMethod(p) /\ frame[p].method = "append" /\ frame[p].at = "write"
               /\ frame[p].sid = s /\ frame'[p] = NoFrame /\ file'[s] # file[s]
           Result(p, s) ==
               \/ file[s] # NoFile /\ file'[s] = Append(file[s], frame[p].message)
               \/ file[s] = NoFile /\ s \in wiped
               \/ file'[s] = << >> /\ s \in wiped'
<1>1. ASSUME IInv, [Next]_vars, NEW p \in Procs, NEW s \in Sessions, Writer(p, s)
      PROVE  Result(p, s)
  <2>1. TypeOK /\ PlaceOK(p) /\ LoadedOK(p) /\ FileOK(p) /\ s = sid[p]
    BY <1>1, FrameIs DEF IInv, Local
  <2>2. ASSUME NEW r \in Sessions, End(r)
        PROVE  FALSE
    BY <1>1, <2>2 DEF End, Unlink, InMethod
  <2>3. PICK q \in Procs : WriteHistory(q) \/ WriteLess(q)
    BY <1>1, <2>2, FilesChange
  <2>4. frame' = [frame EXCEPT ![q] = NoFrame]
    BY <2>3 DEF WriteHistory, WriteLess, Leave
  <2>5. q = p
    BY <1>1, <2>1, <2>4 DEF TypeOK, InMethod
  <2>6. CASE WriteLess(p)
    BY <1>1, <2>1, <2>6 DEF WriteLess, TypeOK
  <2>7. CASE WriteHistory(p)
    <3>1. file'[s] = frame[p].contents
      BY <1>1, <2>1, <2>7 DEF WriteHistory, TypeOK
    <3>2. Settled(p)
      BY <1>1, <2>1, FramesAre DEF PlaceOK, Settled
    <3> QED
      BY <1>1, <2>1, <3>1, <3>2 DEF LoadedOK, FileOK
  <2> QED
    BY <2>3, <2>5, <2>6, <2>7
<1>2. IInv /\ [Next]_vars =>
         [\A p \in Procs, s \in Sessions : Writer(p, s) => Result(p, s)]_sessionVars
  BY <1>1
<1> QED
  BY <1>2, Holds, PTL DEF Spec, AppendsKeepHistory
=============================================================================
