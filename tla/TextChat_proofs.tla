-------------------------- MODULE TextChat_proofs ---------------------------
(***************************************************************************)
(* Conversations that several processes share through session files, for   *)
(* any number of processes, sessions and turns, with locks that time out,  *)
(* writes that fail, processes that are killed and sessions that are ended *)
(* or created anew in between.                                             *)
(***************************************************************************)
EXTENDS TextChat, FiniteSetTheorems, SequenceTheorems, TLAPS

USE TurnsAssumption, NamesAssumption, SwitchesAssumption

-----------------------------------------------------------------------------
(* Sequences. *)
LEMMA PrefixMeans ==
    ASSUME NEW S, NEW g \in Seq(S), NEW h \in Seq(S)
    PROVE  IsPrefix(g, h) <=>
              (Len(g) <= Len(h) /\ \A i \in 1..Len(g) : g[i] = h[i])
<1>1. Len(g) \in Nat /\ Len(h) \in Nat
  OBVIOUS
<1>2. SubSeq(g, 1, Len(g)) = g
  OBVIOUS
<1>3. ASSUME Len(g) <= Len(h)
      PROVE  /\ SubSeq(h, 1, Len(g)) \in Seq(S) /\ Len(SubSeq(h, 1, Len(g))) = Len(g)
             /\ \A i \in 1..Len(g) : SubSeq(h, 1, Len(g))[i] = h[i]
  BY <1>1, <1>3
<1>4. ASSUME Len(g) <= Len(h)
      PROVE  SubSeq(h, 1, Len(g)) = g <=> \A i \in 1..Len(g) : g[i] = h[i]
  BY <1>1, <1>3, <1>4
<1> QED
  BY <1>2, <1>4 DEF IsPrefix

LEMMA PrefixBegins ==
    ASSUME NEW S, NEW g \in Seq(S)
    PROVE  IsPrefix(g, g) /\ IsPrefix(<< >>, g)
<1>1. Len(g) \in Nat /\ Len(<< >>) = 0 /\ << >> \in Seq(S)
  OBVIOUS
<1>2. IsPrefix(g, g)
  BY <1>1, PrefixMeans
<1>3. ASSUME NEW none \in Seq(S), Len(none) = 0
      PROVE  IsPrefix(none, g)
  <2>1. Len(none) <= Len(g) /\ \A i \in 1..Len(none) : none[i] = g[i]
    BY <1>1, <1>3
  <2> QED
    BY <2>1, PrefixMeans
<1> QED
  BY <1>1, <1>2, <1>3

LEMMA PrefixGrows ==
    ASSUME NEW S, NEW g \in Seq(S), NEW h \in Seq(S), NEW e \in S, IsPrefix(g, h)
    PROVE  IsPrefix(g, Append(h, e))
<1>1. Append(h, e) \in Seq(S)
  OBVIOUS
<1>2. Len(g) <= Len(h) /\ \A i \in 1..Len(g) : g[i] = h[i]
  BY PrefixMeans
<1>3. Len(g) <= Len(Append(h, e)) /\ \A i \in 1..Len(g) : g[i] = Append(h, e)[i]
  BY <1>2
<1> QED
  BY <1>1, <1>3, PrefixMeans

NoRepeats(r) == \A i, j \in DOMAIN r : r[i] = r[j] => i = j

(* The order of the session files without one of them. *)
LEMMA WithoutIs ==
    ASSUME recent \in Seq(Sessions), NoRepeats(recent), NEW s
    PROVE  /\ Without(s) \in Seq(Sessions) /\ NoRepeats(Without(s))
           /\ ToSet(Without(s)) = ToSet(recent) \ {s}
<1>1. CASE s \notin ToSet(recent)
  BY <1>1 DEF Without
<1>2. CASE s \in ToSet(recent)
  <2> DEFINE k == CHOOSE i \in DOMAIN recent : recent[i] = s
             n == Len(recent)
             w == RemoveAt(recent, k)
  <2>1. n \in Nat /\ DOMAIN recent = 1..n
    OBVIOUS
  <2>2. k \in 1..n /\ recent[k] = s
    BY <1>2, <2>1 DEF ToSet
  <2> HIDE DEF k
  <2>3. /\ w \in Seq(Sessions) /\ Len(w) = n - 1
        /\ \A i \in 1..(n - 1) : w[i] = IF i < k THEN recent[i] ELSE recent[i + 1]
    <3> DEFINE a == SubSeq(recent, 1, k - 1)
               b == SubSeq(recent, k + 1, n)
    <3>1. /\ a \in Seq(Sessions) /\ Len(a) = k - 1
          /\ \A i \in 1..(k - 1) : a[i] = recent[i]
      BY <2>1, <2>2
    <3>2. /\ b \in Seq(Sessions) /\ Len(b) = n - k
          /\ \A i \in 1..(n - k) : b[i] = recent[k + i]
      <4>1. \A i \in (k + 1)..n : recent[i] \in Sessions
        BY <2>1, <2>2
      <4>2. k + 1 \in Int /\ n \in Int /\ n - (k + 1) + 1 = n - k
        BY <2>1, <2>2
      <4>3. /\ b \in Seq(Sessions)
            /\ Len(b) = (IF k + 1 <= n THEN n - (k + 1) + 1 ELSE 0)
            /\ \A i \in 1..(n - (k + 1) + 1) : b[i] = recent[(k + 1) + i - 1]
        BY <4>1, <4>2, SubSeqProperties
      <4>4. \A i \in 1..(n - k) : (k + 1) + i - 1 = k + i
        BY <2>1, <2>2
      <4> HIDE DEF b, n
      <4> QED
        BY <2>1, <2>2, <4>2, <4>3, <4>4
    <3>3. w = a \o b
      BY DEF RemoveAt
    <3> HIDE DEF a, b, w, n
    <3>4. /\ w \in Seq(Sessions) /\ Len(w) = Len(a) + Len(b)
          /\ \A i \in 1..(Len(a) + Len(b)) :
                w[i] = IF i <= Len(a) THEN a[i] ELSE b[i - Len(a)]
      BY <3>1, <3>2, <3>3, ConcatProperties
    <3>5. Len(a) + Len(b) = n - 1
      BY <2>1, <2>2, <3>1, <3>2
    <3>6. ASSUME NEW i \in 1..(n - 1)
          PROVE  w[i] = IF i < k THEN recent[i] ELSE recent[i + 1]
      <4>1. w[i] = IF i <= k - 1 THEN a[i] ELSE b[i - (k - 1)]
        BY <3>1, <3>4, <3>5
      <4>2. CASE i < k
        BY <2>1, <2>2, <3>1, <4>1, <4>2
      <4>3. CASE i >= k
        <5>1. i - (k - 1) \in 1..(n - k) /\ k + (i - (k - 1)) = i + 1 /\ ~(i <= k - 1)
          BY <2>1, <2>2, <4>3
        <5> QED
          BY <2>1, <2>2, <3>2, <4>1, <4>3, <5>1
      <4> QED
        BY <2>1, <2>2, <4>2, <4>3
    <3> QED
      BY <3>4, <3>5, <3>6
  <2>4. Without(s) = w
    BY <1>2 DEF Without, k
  <2> HIDE DEF w, n
  <2> DEFINE from(i) == IF i < k THEN i ELSE i + 1
  <2>5. /\ DOMAIN w = 1..(n - 1)
        /\ \A i \in 1..(n - 1) : /\ from(i) \in 1..n /\ from(i) # k
                                 /\ w[i] = recent[from(i)]
        /\ \A i, j \in 1..(n - 1) : from(i) = from(j) => i = j
    BY <2>1, <2>2, <2>3
  <2> HIDE DEF from
  <2>6. NoRepeats(w)
    BY <2>1, <2>5 DEF NoRepeats
  <2>7. ToSet(w) \subseteq ToSet(recent) \ {s}
    <3>1. \A i \in 1..(n - 1) : recent[from(i)] # s
      BY <2>1, <2>2, <2>5 DEF NoRepeats
    <3> QED
      BY <2>1, <2>5, <3>1 DEF ToSet
  <2>8. ASSUME NEW x \in ToSet(recent) \ {s}
        PROVE  x \in ToSet(w)
    <3>1. PICK j \in 1..n : recent[j] = x
      BY <2>1 DEF ToSet
    <3>2. j # k
      BY <2>2, <3>1
    <3>3. \E i \in 1..(n - 1) : w[i] = x
      <4>1. CASE j < k
        BY <2>1, <2>2, <2>3, <3>1, <4>1
      <4>2. CASE j > k
        <5>1. j - 1 \in 1..(n - 1) /\ ~(j - 1 < k) /\ (j - 1) + 1 = j
          BY <2>1, <2>2, <3>1, <4>2
        <5> QED
          BY <2>3, <3>1, <5>1
      <4> QED
        BY <2>1, <2>2, <3>1, <3>2, <4>1, <4>2
    <3> QED
      BY <2>1, <2>3, <3>3 DEF ToSet
  <2> QED
    BY <2>3, <2>4, <2>6, <2>7, <2>8
<1> QED
  BY <1>1, <1>2

LEMMA TouchIs ==
    ASSUME recent \in Seq(Sessions), NoRepeats(recent), NEW s \in Sessions
    PROVE  /\ Touch(s) \in Seq(Sessions) /\ NoRepeats(Touch(s))
           /\ ToSet(Touch(s)) = ToSet(recent) \cup {s}
<1> DEFINE w == Without(s)
<1>1. w \in Seq(Sessions) /\ NoRepeats(w) /\ ToSet(w) = ToSet(recent) \ {s}
  BY WithoutIs
<1>2. Touch(s) = Append(w, s)
  BY DEF Touch
<1> HIDE DEF w
<1>3. Touch(s) \in Seq(Sessions)
  BY <1>1, <1>2
<1>4. /\ DOMAIN w = 1..Len(w) /\ Len(w) \in Nat
      /\ DOMAIN Append(w, s) = 1..(Len(w) + 1)
      /\ Append(w, s)[Len(w) + 1] = s /\ \A i \in 1..Len(w) : Append(w, s)[i] = w[i]
  BY <1>1
<1>5. \A i \in 1..Len(w) : w[i] # s
  BY <1>1, <1>4 DEF ToSet
<1>6. NoRepeats(Append(w, s))
  BY <1>1, <1>4, <1>5 DEF NoRepeats
<1>7. ToSet(Append(w, s)) = ToSet(w) \cup {s}
  BY <1>4 DEF ToSet
<1> QED
  BY <1>1, <1>2, <1>3, <1>6, <1>7

-----------------------------------------------------------------------------
(* The inductive invariant. *)
HoldsLock(p, s) == InMethod(p) /\ frame[p].sid = s /\ frame[p].at # "lock"

LockOK == \A p \in Procs, s \in Sessions : lock[s] = p <=> HoldsLock(p, s)

(* Which method a process is in, and of which session. *)
PlaceOK(p) ==
    /\ pc[p] # "start" => turn[p] \in 1..MaxTurns
    /\ pc[p] \notin {"start", "api"} => sid[p] \in Sessions
    /\ pc[p] \in {"exists", "create", "created"} => sent[p] = << >>
    /\ InMethod(p) =>
          /\ frame[p].sid = sid[p]
          /\ \/ frame[p] \in CreateFrames /\ pc[p] = "created"
             \/ /\ frame[p] \in AppendFrames(AllMessages) /\ pc[p] = "append_model"
                /\ frame[p].message = Message(p, "user")
             \/ /\ frame[p] \in AppendFrames(AllMessages) /\ pc[p] = "appended"
                /\ frame[p].message = Message(p, "model")

(* What was read under the lock is still there, unless it was unlinked; an *)
(* append that could not read it knows its message alone.                  *)
LoadedOK(p) ==
    InMethod(p) /\ frame[p].method = "append" =>
       /\ frame[p].at = "write" /\ file[frame[p].sid] # NoFile =>
             frame[p].contents = Append(file[frame[p].sid], frame[p].message)
       /\ frame[p].at = "overwrite" => frame[p].contents = <<frame[p].message>>

(* The process has seen or made the file of its session.                   *)
Settled(p) ==
    \/ pc[p] \in {"get_history", "api", "append_user", "append_model", "appended"}
    \/ pc[p] = "created" /\ ~InMethod(p) /\ outcome[p] = "ok"

FileOK(p) == Settled(p) /\ sid[p] \in Sessions \ wiped => file[sid[p]] # NoFile

(* Its question is saved. *)
Asked(p) ==
    \/ pc[p] = "append_model" /\ ~InMethod(p) /\ outcome[p] = "ok"
    \/ pc[p] = "appended" /\ InMethod(p)

QuestionOK(p) ==
    Asked(p) /\ sid[p] \in Sessions \ wiped =>
        \E j \in DOMAIN file[sid[p]] : file[sid[p]][j] = Message(p, "user")

SentOK(p) ==
    pc[p] \in {"api", "append_user", "append_model", "appended"}
       /\ sid[p] \in Sessions \ wiped
        => file[sid[p]] # NoFile /\ IsPrefix(sent[p], file[sid[p]])

Local(p) == PlaceOK(p) /\ LoadedOK(p) /\ FileOK(p) /\ QuestionOK(p) /\ SentOK(p)

IInv ==
    /\ TypeOK /\ NoRepeats(recent) /\ LockOK
    /\ \A p \in Procs : Local(p)
    /\ AnswersFollowQuestions

(* q does nothing, and neither do others than p. *)
Same(q) ==
    /\ pc'[q] = pc[q] /\ sid'[q] = sid[q] /\ sent'[q] = sent[q]
    /\ turn'[q] = turn[q] /\ frame'[q] = frame[q] /\ outcome'[q] = outcome[q]

Others(p) == \A q \in Procs \ {p} : Same(q)

(* A history stays, grows by a message, or is created where there is none. *)
Grows(s) ==
    \/ file'[s] = file[s]
    \/ file[s] # NoFile /\ \E m \in AllMessages : file'[s] = Append(file[s], m)
    \/ file[s] \in {NoFile, << >>} /\ file'[s] = << >>

LEMMA FramesAre ==
    /\ NoFrame \notin AppendFrames(AllMessages) /\ NoFrame \notin CreateFrames
    /\ AppendFrames(AllMessages) \cap CreateFrames = {}
    /\ \A f \in AppendFrames(AllMessages) : f.method = "append"
    /\ \A f \in CreateFrames : f.method = "create" /\ f.at # "load" /\ f.at # "write" /\ f.contents = << >>
<1>1. \A f \in AppendFrames(AllMessages) : f.method = "append"
  BY DEF AppendFrames
<1>2. \A f \in CreateFrames : f.method = "create" /\ f.at # "load" /\ f.at # "write" /\ f.contents = << >>
  BY DEF CreateFrames
<1>3. NoFrame.method = "none"
  BY DEF NoFrame
<1> QED
  BY <1>1, <1>2, <1>3

LEMMA MessageIs ==
    ASSUME TypeOK, NEW p \in Procs, turn[p] \in 1..MaxTurns, NEW r \in {"user", "model"}
    PROVE  /\ Message(p, r) \in AllMessages
           /\ Message(p, r).role = r /\ Message(p, r).turn = <<p, turn[p]>>
BY DEF Message, AllMessages

LEMMA GrowsBy ==
    ASSUME TypeOK, NEW s \in Sessions, Grows(s), file[s] # NoFile
    PROVE  /\ file'[s] # NoFile /\ file'[s] \in Seq(AllMessages)
           /\ \A i \in DOMAIN file[s] : i \in DOMAIN file'[s] /\ file'[s][i] = file[s][i]
           /\ \A g \in Seq(AllMessages) :
                 IsPrefix(g, file[s]) => IsPrefix(g, file'[s])
<1>1. file[s] \in Seq(AllMessages)
  BY DEF TypeOK
<1>2. CASE file'[s] = file[s]
  BY <1>1, <1>2
<1>3. ASSUME NEW m \in AllMessages, file'[s] = Append(file[s], m)
      PROVE  /\ file'[s] # NoFile /\ file'[s] \in Seq(AllMessages)
             /\ \A i \in DOMAIN file[s] : i \in DOMAIN file'[s] /\ file'[s][i] = file[s][i]
             /\ \A g \in Seq(AllMessages) :
                   IsPrefix(g, file[s]) => IsPrefix(g, file'[s])
  <2>1. file'[s] \in Seq(AllMessages) /\ file'[s] # NoFile
    BY <1>1, <1>3
  <2>2. \A i \in DOMAIN file[s] : i \in DOMAIN file'[s] /\ file'[s][i] = file[s][i]
    BY <1>1, <1>3
  <2>3. \A g \in Seq(AllMessages) : IsPrefix(g, file[s]) => IsPrefix(g, file'[s])
    BY <1>1, <1>3, PrefixGrows
  <2> QED
    BY <2>1, <2>2, <2>3
<1> QED
  BY <1>1, <1>2, <1>3 DEF Grows

(* What the others know stays true. *)
LEMMA OthersKeep ==
    ASSUME TypeOK, wiped \subseteq wiped', \A s \in Sessions \ wiped' : Grows(s),
           NEW q \in Procs, Same(q), Local(q), LoadedOK(q)'
    PROVE  Local(q)'
<1>1. /\ pc'[q] = pc[q] /\ sid'[q] = sid[q] /\ sent'[q] = sent[q]
      /\ turn'[q] = turn[q] /\ frame'[q] = frame[q] /\ outcome'[q] = outcome[q]
      /\ sent[q] \in Seq(AllMessages)
  BY DEF Same, TypeOK
<1>2. PlaceOK(q)'
  BY <1>1 DEF Local, PlaceOK, InMethod, Message
<1>3. /\ Settled(q)' <=> Settled(q)
      /\ Asked(q)' <=> Asked(q)
      /\ Message(q, "user")' = Message(q, "user")
  BY <1>1 DEF Settled, Asked, InMethod, Message
<1>4. ASSUME sid[q] \in Sessions \ wiped'
      PROVE  sid[q] \in Sessions \ wiped /\ Grows(sid[q])
  BY <1>4
<1>5. FileOK(q)'
  BY <1>1, <1>3, <1>4, GrowsBy DEF Local, FileOK
<1>6. QuestionOK(q)'
  <2> SUFFICES ASSUME Asked(q), sid[q] \in Sessions \ wiped'
               PROVE  \E j \in DOMAIN file'[sid[q]] : file'[sid[q]][j] = Message(q, "user")
    BY <1>1, <1>3 DEF QuestionOK
  <2>1. file[sid[q]] # NoFile
    BY <1>4 DEF Local, FileOK, Asked, Settled
  <2>2. PICK j \in DOMAIN file[sid[q]] : file[sid[q]][j] = Message(q, "user")
    BY <1>4 DEF Local, QuestionOK
  <2> QED
    BY <1>4, <2>1, <2>2, GrowsBy
<1>7. SentOK(q)'
  BY <1>1, <1>4, GrowsBy DEF Local, SentOK
<1> QED
  BY <1>2, <1>5, <1>6, <1>7 DEF Local

(* A step of p that leaves the files alone. *)
LEMMA QuietStep ==
    ASSUME IInv, NEW p \in Procs, Others(p), UNCHANGED <<file, recent, wiped>>,
           TypeOK', LockOK', Local(p)'
    PROVE  IInv'
<1>1. \A s \in Sessions \ wiped' : Grows(s)
  BY DEF Grows
<1>2. ASSUME NEW q \in Procs \ {p}
      PROVE  Local(q)'
  <2>1. LoadedOK(q)'
    BY DEF IInv, Local, LoadedOK, Others, Same, InMethod
  <2> QED
    BY <1>1, <2>1, OthersKeep DEF IInv, Others
<1>3. AnswersFollowQuestions'
  BY DEF IInv, AnswersFollowQuestions, Answered
<1> QED
  BY <1>2, <1>3 DEF IInv

(* One that does not enter or leave a method either. *)
LEMMA OutsideStep ==
    ASSUME IInv, NEW p \in Procs, Others(p),
           UNCHANGED <<file, recent, wiped, lock, frame, outcome>>,
           ~InMethod(p), TypeOK', PlaceOK(p)', FileOK(p)', QuestionOK(p)', SentOK(p)'
    PROVE  IInv'
<1>1. LockOK'
  BY DEF IInv, LockOK, HoldsLock, InMethod
<1>2. LoadedOK(p)'
  BY DEF LoadedOK, InMethod
<1> QED
  BY <1>1, <1>2, QuietStep DEF Local

(* Where pc says that p is in no method, it is in none. *)
LEMMA Outside ==
    ASSUME IInv, NEW p \in Procs,
           pc[p] \in {"start", "exists", "get_history", "create", "api", "append_user"}
    PROVE  ~InMethod(p)
BY DEF IInv, Local, PlaceOK

LEMMA GotoIs ==
    ASSUME TypeOK, NEW p \in Procs,
           NEW l \in {"start", "exists", "get_history", "create", "created", "api",
                      "append_user", "append_model", "appended"},
           Goto(p, l)
    PROVE  /\ pc'[p] = l /\ \A q \in Procs \ {p} : pc'[q] = pc[q]
           /\ pc' \in [Procs -> {"start", "exists", "get_history", "create", "created", "api",
                                 "append_user", "append_model", "appended"}]
BY DEF TypeOK, Goto

LEMMA StartKeeps == ASSUME IInv, NEW p \in Procs, Start(p) PROVE IInv'
<1>1. TypeOK /\ pc[p] = "start" /\ turn[p] < MaxTurns /\ UNCHANGED sessionVars
  BY DEF IInv, Start
<1>2. ~InMethod(p)
  BY <1>1, Outside
<1> DEFINE l == IF recent = << >> THEN NoSession ELSE Last(recent)
<1>3. l \in Sessions \cup {NoSession}
  BY <1>1 DEF TypeOK, Last
<1>4. PICK s \in Sessions \cup {l} :
          /\ sid' = [sid EXCEPT ![p] = s]
          /\ Goto(p, IF s = NoSession THEN "api" ELSE "exists")
  BY DEF Start
<1>5. s \in Sessions \cup {NoSession}
  BY <1>3, <1>4
<1>6. /\ turn' = [turn EXCEPT ![p] = turn[p] + 1] /\ sent' = [sent EXCEPT ![p] = << >>]
      /\ turn[p] + 1 \in 1..MaxTurns
  BY <1>1 DEF Start, TypeOK
<1>7. /\ pc'[p] = (IF s = NoSession THEN "api" ELSE "exists") /\ sid'[p] = s
      /\ sent'[p] = << >> /\ turn'[p] \in 1..MaxTurns /\ Others(p)
  BY <1>1, <1>4, <1>6, GotoIs DEF TypeOK, Others, Same, sessionVars
<1>8. TypeOK'
  BY <1>1, <1>4, <1>5, <1>6, GotoIs DEF TypeOK, sessionVars
<1>9. PlaceOK(p)' /\ FileOK(p)' /\ QuestionOK(p)' /\ SentOK(p)'
  BY <1>1, <1>2, <1>5, <1>7 DEF PlaceOK, FileOK, QuestionOK, SentOK, Settled, Asked,
     InMethod, sessionVars
<1> QED
  BY <1>1, <1>2, <1>7, <1>8, <1>9, OutsideStep DEF sessionVars

LEMMA LookKeeps ==
    ASSUME IInv, NEW p \in Procs, Exists(p) \/ GetHistory(p) \/ CallApi(p)
    PROVE  IInv'
<1>1. /\ TypeOK /\ PlaceOK(p) /\ FileOK(p) /\ SentOK(p)
      /\ pc[p] \in {"exists", "get_history", "api"}
      /\ UNCHANGED <<file, recent, lock, frame, outcome, wiped, sid, turn>>
  BY DEF IInv, Local, Exists, GetHistory, CallApi, sessionVars
<1>2. ~InMethod(p)
  BY <1>1, Outside
<1>3. CASE Exists(p)
  <2> DEFINE l == IF file[sid[p]] = NoFile THEN "create" ELSE "get_history"
  <2>1. Goto(p, l) /\ sent' = sent /\ pc[p] = "exists"
    BY <1>3 DEF Exists
  <2>2. pc'[p] = l /\ TypeOK' /\ Others(p)
    BY <1>1, <2>1, GotoIs DEF TypeOK, Others, Same
  <2>3. PlaceOK(p)' /\ FileOK(p)' /\ QuestionOK(p)' /\ SentOK(p)'
    BY <1>1, <1>2, <2>1, <2>2 DEF PlaceOK, FileOK, QuestionOK, SentOK, Settled, Asked, InMethod
  <2> QED
    BY <1>1, <1>2, <2>2, <2>3, OutsideStep
<1>4. CASE GetHistory(p)
  <2>1. PICK h \in {History(sid[p]), << >>} :
            /\ Goto(p, "api") /\ sent' = [sent EXCEPT ![p] = h]
            /\ pc[p] = "get_history"
    BY <1>4 DEF GetHistory, Loadable
  <2>2. sid[p] \in Sessions /\ h \in Seq(AllMessages)
    <3>1. sid[p] \in Sessions /\ << >> \in Seq(AllMessages)
      BY <1>1, <2>1 DEF PlaceOK
    <3>2. History(sid[p]) \in Seq(AllMessages)
      BY <1>1, <3>1 DEF TypeOK, History
    <3> QED
      BY <2>1, <3>1, <3>2
  <2>3. pc'[p] = "api" /\ sent'[p] = h /\ TypeOK' /\ Others(p)
    BY <1>1, <2>1, <2>2, GotoIs DEF TypeOK, Others, Same
  <2>4. PlaceOK(p)' /\ FileOK(p)' /\ QuestionOK(p)'
    BY <1>1, <1>2, <2>1, <2>3 DEF PlaceOK, FileOK, QuestionOK, Settled, Asked, InMethod
  <2>5. SentOK(p)'
    <3> SUFFICES ASSUME sid[p] \in Sessions \ wiped
                 PROVE  file[sid[p]] # NoFile /\ IsPrefix(h, file[sid[p]])
      BY <1>1, <2>1, <2>3 DEF SentOK
    <3>1. file[sid[p]] # NoFile
      BY <1>1, <2>1 DEF FileOK, Settled
    <3>2. file[sid[p]] \in Seq(AllMessages)
      BY <1>1, <3>1 DEF TypeOK
    <3> QED
      BY <2>1, <3>1, <3>2, PrefixBegins DEF History
  <2> QED
    BY <1>1, <1>2, <2>3, <2>4, <2>5, OutsideStep
<1>5. CASE CallApi(p)
  <2>1. PICK l \in {"start", "append_user"} :
            Goto(p, l) /\ (l = "append_user" => sid[p] # NoSession)
    BY <1>5 DEF CallApi
  <2>2. sent' = sent /\ pc[p] = "api"
    BY <1>5 DEF CallApi
  <2>3. pc'[p] = l /\ TypeOK' /\ Others(p)
    BY <1>1, <2>1, <2>2, GotoIs DEF TypeOK, Others, Same
  <2>4. l = "append_user" => sid[p] \in Sessions
    BY <1>1, <2>1 DEF TypeOK
  <2>5. PlaceOK(p)' /\ FileOK(p)' /\ QuestionOK(p)' /\ SentOK(p)'
    BY <1>1, <1>2, <2>1, <2>2, <2>3, <2>4
       DEF PlaceOK, FileOK, QuestionOK, SentOK, Settled, Asked, InMethod
  <2> QED
    BY <1>1, <1>2, <2>3, <2>5, OutsideStep
<1> QED
  BY <1>3, <1>4, <1>5

(* p enters or leaves a method without holding a lock. *)
LEMMA LockStays ==
    ASSUME IInv, NEW p \in Procs, Others(p), lock' = lock,
           InMethod(p) => frame[p].at = "lock",
           InMethod(p)' => frame'[p].at = "lock"
    PROVE  LockOK'
<1>1. \A s \in Sessions : ~HoldsLock(p, s) /\ ~HoldsLock(p, s)'
  BY DEF HoldsLock, InMethod
<1>2. \A q \in Procs \ {p}, s \in Sessions : HoldsLock(q, s)' <=> HoldsLock(q, s)
  BY DEF HoldsLock, InMethod, Others, Same
<1> QED
  BY <1>1, <1>2 DEF IInv, LockOK

LEMMA CreateKeeps == ASSUME IInv, NEW p \in Procs, Create(p) PROVE IInv'
<1>1. /\ TypeOK /\ PlaceOK(p) /\ pc[p] = "create" /\ sid[p] \in Sessions
      /\ UNCHANGED <<file, recent, lock, wiped, sid, sent, turn>>
      /\ outcome' = [outcome EXCEPT ![p] = "ok"] /\ Goto(p, "created")
  BY DEF IInv, Local, PlaceOK, Create, BeginCreate
<1>2. ~InMethod(p)
  BY <1>1, Outside
<1> DEFINE f == [method |-> "create", sid |-> sid[p], at |-> "lock", contents |-> << >>]
<1>3. f \in CreateFrames /\ f.sid = sid[p] /\ f.at = "lock" /\ f.method = "create"
  BY <1>1 DEF CreateFrames
<1>4. frame' = [frame EXCEPT ![p] = f]
  BY DEF Create, BeginCreate
<1> HIDE DEF f
<1>5. frame'[p] = f /\ pc'[p] = "created" /\ TypeOK' /\ Others(p)
  BY <1>1, <1>3, <1>4, GotoIs DEF TypeOK, Others, Same
<1>6. LockOK'
  BY <1>1, <1>2, <1>3, <1>5, LockStays
<1>7. f # NoFrame
  BY <1>3, FramesAre
<1>8. Local(p)'
  BY <1>1, <1>3, <1>5, <1>7 DEF Local, PlaceOK, LoadedOK, FileOK, QuestionOK, SentOK,
     Settled, Asked, InMethod
<1> QED
  BY <1>1, <1>5, <1>6, <1>8, QuietStep

LEMMA CreatedKeeps == ASSUME IInv, NEW p \in Procs, Created(p) \/ Done(p) PROVE IInv'
<1>1. /\ TypeOK /\ PlaceOK(p) /\ FileOK(p) /\ ~InMethod(p) /\ pc[p] \in {"created", "appended"}
      /\ UNCHANGED <<file, recent, lock, frame, outcome, wiped, sid, sent, turn>>
  BY DEF IInv, Local, Created, Done, sessionVars
<1>2. PICK l \in {"start", "api"} :
          /\ Goto(p, l)
          /\ l = "api" => pc[p] = "created" /\ outcome[p] = "ok"
  BY DEF Created, Done
<1>3. pc'[p] = l /\ TypeOK' /\ Others(p)
  BY <1>1, <1>2, GotoIs DEF TypeOK, Others, Same
<1>4. PlaceOK(p)' /\ FileOK(p)' /\ QuestionOK(p)'
  BY <1>1, <1>2, <1>3 DEF PlaceOK, FileOK, QuestionOK, Settled, Asked, InMethod
<1>5. SentOK(p)'
  <2> SUFFICES ASSUME l = "api", sid[p] \in Sessions \ wiped
               PROVE  file[sid[p]] # NoFile /\ IsPrefix(sent[p], file[sid[p]])
    BY <1>1, <1>3 DEF SentOK
  <2>1. file[sid[p]] # NoFile /\ sent[p] = << >>
    BY <1>1, <1>2 DEF FileOK, PlaceOK, Settled
  <2>2. file[sid[p]] \in Seq(AllMessages)
    BY <1>1, <2>1 DEF TypeOK
  <2> QED
    BY <2>1, <2>2, PrefixBegins
<1> QED
  BY <1>1, <1>3, <1>4, <1>5, OutsideStep

(* append_message begins: with a file it enters the method.                *)
LEMMA AppendKeeps ==
    ASSUME IInv, NEW p \in Procs, NEW r \in {"user", "model"},
           NEW l \in {"append_model", "appended"},
           BeginAppend(p, sid[p], Message(p, r)), Goto(p, l), UNCHANGED <<sid, sent, turn>>,
           \/ pc[p] = "append_user" /\ r = "user" /\ l = "append_model"
           \/ /\ pc[p] = "append_model" /\ r = "model" /\ l = "appended"
              /\ outcome[p] = "ok"
    PROVE  IInv'
<1>1. /\ TypeOK /\ PlaceOK(p) /\ FileOK(p) /\ SentOK(p) /\ QuestionOK(p)
      /\ ~InMethod(p) /\ sid[p] \in Sessions /\ turn[p] \in 1..MaxTurns
      /\ UNCHANGED <<file, recent, lock, wiped>>
      /\ outcome' = [outcome EXCEPT ![p] = "ok"]
  BY DEF IInv, Local, PlaceOK, BeginAppend
<1>2. Message(p, r) \in AllMessages
  BY <1>1, MessageIs
<1> DEFINE m == Message(p, r)
           f == [method |-> "append", sid |-> sid[p], at |-> "lock",
                 message |-> m, contents |-> << >>]
<1>3. /\ f \in AppendFrames(AllMessages) /\ f.sid = sid[p] /\ f.at = "lock" /\ f.method = "append"
      /\ f.message = m
  <2> HIDE DEF m
  <2> QED
    BY <1>1, <1>2 DEF AppendFrames, m
<1>4. frame' = (IF file[sid[p]] = NoFile THEN frame ELSE [frame EXCEPT ![p] = f])
  BY DEF BeginAppend
<1> HIDE DEF f, m
<1>5. /\ frame'[p] = (IF file[sid[p]] = NoFile THEN NoFrame ELSE f)
      /\ pc'[p] = l /\ Others(p)
  BY <1>1, <1>4, GotoIs DEF TypeOK, Others, Same, InMethod
<1>6. TypeOK'
  BY <1>1, <1>3, <1>4, GotoIs DEF TypeOK
<1>7. LockOK'
  BY <1>1, <1>3, <1>5, LockStays DEF InMethod
<1>8. f # NoFrame /\ Message(p, r)' = m
  BY <1>1, <1>3, FramesAre DEF Message, m
<1>9. PlaceOK(p)' /\ LoadedOK(p)'
  BY <1>1, <1>3, <1>5, <1>8 DEF PlaceOK, LoadedOK, InMethod
<1>10. FileOK(p)' /\ SentOK(p)'
  BY <1>1, <1>5 DEF FileOK, SentOK, Settled
<1>11. QuestionOK(p)'
  <2> SUFFICES ASSUME Asked(p)', sid[p] \in Sessions \ wiped
               PROVE  \E j \in DOMAIN file[sid[p]] : file[sid[p]][j] = Message(p, "user")
    BY <1>1 DEF QuestionOK, Message
  <2>1. file[sid[p]] # NoFile
    BY <1>1 DEF FileOK, Settled
  <2>2. l = "appended"
    BY <1>5, <1>8, <2>1 DEF Asked, InMethod
  <2> QED
    BY <1>1, <2>2 DEF QuestionOK, Asked
<1> QED
  BY <1>1, <1>5, <1>6, <1>7, <1>9, <1>10, <1>11, QuietStep DEF Local

LEMMA AppendsKeep ==
    ASSUME IInv, NEW p \in Procs, AppendUser(p) \/ AppendModel(p)
    PROVE  IInv'
<1>1. CASE AppendUser(p)
  BY <1>1, AppendKeeps DEF AppendUser
<1>2. CASE AppendModel(p) /\ outcome[p] = "ok"
  BY <1>2, AppendKeeps DEF AppendModel
<1>3. CASE AppendModel(p) /\ outcome[p] # "ok"
  <2>1. /\ Goto(p, "start") /\ ~InMethod(p) /\ TypeOK /\ PlaceOK(p)
        /\ UNCHANGED <<file, recent, lock, frame, outcome, wiped, sid, sent, turn>>
    BY <1>3 DEF AppendModel, sessionVars, IInv, Local
  <2>2. pc'[p] = "start" /\ TypeOK' /\ Others(p)
    BY <2>1, GotoIs DEF TypeOK, Others, Same
  <2>3. PlaceOK(p)' /\ FileOK(p)' /\ QuestionOK(p)' /\ SentOK(p)'
    BY <2>1, <2>2 DEF PlaceOK, FileOK, QuestionOK, SentOK, Settled, Asked, InMethod
  <2> QED
    BY <2>1, <2>2, <2>3, OutsideStep
<1> QED
  BY <1>1, <1>2, <1>3

-----------------------------------------------------------------------------
(* The steps inside a method. *)
LEMMA FrameIs ==
    ASSUME IInv, NEW p \in Procs, InMethod(p)
    PROVE  /\ frame[p].sid \in Sessions /\ frame[p].sid = sid[p]
           /\ frame[p] \in AppendFrames(AllMessages) \cup CreateFrames
           /\ frame[p].method = "append" => frame[p] \in AppendFrames(AllMessages)
           /\ frame[p].method # "append" => frame[p] \in CreateFrames
BY FramesAre DEF IInv, Local, PlaceOK, AppendFrames, CreateFrames

LEMMA FrameAt ==
    ASSUME NEW f, NEW a \in {"lock", "load", "overwrite"}
    PROVE  LET g == [f EXCEPT !.at = a]
           IN  /\ f \in AppendFrames(AllMessages) =>
                     /\ g \in AppendFrames(AllMessages) /\ g.at = a /\ g.sid = f.sid
                     /\ g.method = f.method /\ g.message = f.message
               /\ f \in CreateFrames /\ a # "load" =>
                     g \in CreateFrames /\ g.at = a /\ g.sid = f.sid /\ g.method = f.method
<1>1. CASE f \in AppendFrames(AllMessages)
  BY <1>1, FramesAre DEF AppendFrames
<1>2. CASE f \in CreateFrames
  BY <1>2, FramesAre DEF CreateFrames
<1> QED
  BY <1>1, <1>2

LEMMA TakeLockKeeps == ASSUME IInv, NEW p \in Procs, TakeLock(p), UNCHANGED runVars PROVE IInv'
<1> DEFINE f == frame[p]
           a == IF f.method = "append" THEN "load" ELSE "overwrite"
           g == [f EXCEPT !.at = a]
<1>1. /\ TypeOK /\ PlaceOK(p) /\ FileOK(p) /\ QuestionOK(p) /\ SentOK(p)
      /\ InMethod(p) /\ f.at = "lock" /\ lock[f.sid] = Nobody
      /\ UNCHANGED <<file, recent, outcome, wiped, pc, sid, sent, turn>>
      /\ lock' = [lock EXCEPT ![f.sid] = p] /\ frame' = [frame EXCEPT ![p] = g]
  BY DEF IInv, Local, TakeLock, runVars
<1>2. f.sid \in Sessions /\ f.sid = sid[p] /\ f \in AppendFrames(AllMessages) \cup CreateFrames
  BY <1>1, FrameIs
<1>3. /\ g \in AppendFrames(AllMessages) \cup CreateFrames /\ g.sid = f.sid /\ g.at = a
      /\ g.method = f.method /\ a # "lock"
      /\ f \in AppendFrames(AllMessages) => g \in AppendFrames(AllMessages) /\ g.message = f.message
      /\ f \in CreateFrames => g \in CreateFrames
      /\ f.method = "append" => a = "load"
  <2>1. CASE f \in AppendFrames(AllMessages)
    <3>1. f.method = "append" /\ a = "load" /\ f \notin CreateFrames
      BY <2>1, FramesAre
    <3> HIDE DEF f, a
    <3> QED
      BY <2>1, <3>1, FrameAt
  <2>2. CASE f \in CreateFrames
    <3>1. f.method = "create" /\ a = "overwrite" /\ f \notin AppendFrames(AllMessages)
      BY <2>2, FramesAre
    <3> HIDE DEF f, a
    <3> QED
      BY <2>2, <3>1, FrameAt
  <2> QED
    BY <1>2, <2>1, <2>2
<1> HIDE DEF g, a
<1>4. frame'[p] = g /\ Others(p) /\ TypeOK'
  <2>1. frame'[p] = g /\ Others(p)
    BY <1>1 DEF TypeOK, Others, Same
  <2>2. frame' \in [Procs -> {NoFrame} \cup AppendFrames(AllMessages) \cup CreateFrames]
    BY <1>1, <1>3 DEF TypeOK
  <2>3. lock' \in [Sessions -> Procs \cup {Nobody}]
    BY <1>1 DEF TypeOK
  <2> QED
    BY <1>1, <2>1, <2>2, <2>3 DEF TypeOK
<1>5. g # NoFrame
  BY <1>3, FramesAre
<1>6. LockOK'
  <2> SUFFICES ASSUME NEW q \in Procs, NEW s \in Sessions
               PROVE  (lock'[s] = q) <=> HoldsLock(q, s)'
    BY DEF LockOK
  <2>1. lock[s] = q <=> HoldsLock(q, s)
    BY DEF IInv, LockOK
  <2>2. lock'[s] = IF s = f.sid THEN p ELSE lock[s]
    BY <1>1, <1>2 DEF TypeOK
  <2>3. CASE q = p
    <3>1. HoldsLock(p, s)' <=> s = f.sid
      BY <1>3, <1>4, <1>5 DEF HoldsLock, InMethod
    <3>2. ~HoldsLock(p, s)
      BY <1>1 DEF HoldsLock
    <3> QED
      BY <2>1, <2>2, <2>3, <3>1, <3>2
  <2>4. CASE q # p
    <3>1. HoldsLock(q, s)' <=> HoldsLock(q, s)
      BY <1>4, <2>4 DEF HoldsLock, InMethod, Others, Same
    <3> QED
      BY <1>1, <2>1, <2>2, <2>4, <3>1
  <2> QED
    BY <2>3, <2>4
<1>7. PlaceOK(p)' /\ LoadedOK(p)'
  BY <1>1, <1>2, <1>3, <1>4, <1>5, FramesAre DEF PlaceOK, LoadedOK, InMethod, Message
<1>8. FileOK(p)' /\ QuestionOK(p)' /\ SentOK(p)'
  BY <1>1, <1>4, <1>5 DEF FileOK, QuestionOK, SentOK, Settled, Asked, InMethod, Message
<1> QED
  BY <1>1, <1>4, <1>6, <1>7, <1>8, QuietStep DEF Local

(* A method that raises has done nothing. *)
LEMMA RaiseKeeps ==
    ASSUME IInv, NEW p \in Procs, InMethod(p), TypeOK', LockOK',
           UNCHANGED <<file, recent, wiped, pc, sid, sent, turn>>,
           frame' = [frame EXCEPT ![p] = NoFrame],
           outcome' = [outcome EXCEPT ![p] = "raised"]
    PROVE  IInv'
<1>1. TypeOK /\ PlaceOK(p) /\ FileOK(p) /\ SentOK(p)
  BY DEF IInv, Local
<1>2. frame'[p] = NoFrame /\ outcome'[p] = "raised" /\ Others(p)
  BY <1>1 DEF TypeOK, Others, Same
<1>3. Local(p)'
  BY <1>1, <1>2 DEF Local, PlaceOK, LoadedOK, FileOK, QuestionOK, SentOK, Settled, Asked,
     InMethod
<1> QED
  BY <1>2, <1>3, QuietStep

(* Leaving the with block frees the lock. *)
LEMMA UnlockKeeps ==
    ASSUME IInv, NEW p \in Procs, InMethod(p), frame[p].at # "lock", Others(p),
           frame'[p] = NoFrame, lock' = [lock EXCEPT ![frame[p].sid] = Nobody]
    PROVE  LockOK'
<1> SUFFICES ASSUME NEW q \in Procs, NEW s \in Sessions
             PROVE  (lock'[s] = q) <=> HoldsLock(q, s)'
  BY DEF LockOK
<1>1. lock[s] = q <=> HoldsLock(q, s)
  BY DEF IInv, LockOK
<1>2. frame[p].sid \in Sessions /\ lock[frame[p].sid] = p
  BY FrameIs DEF IInv, LockOK, HoldsLock
<1>3. lock'[s] = IF s = frame[p].sid THEN Nobody ELSE lock[s]
  BY <1>2 DEF IInv, TypeOK
<1>4. CASE q = p
  <2>1. ~HoldsLock(p, s)' /\ (HoldsLock(p, s) => s = frame[p].sid)
    BY DEF HoldsLock, InMethod
  <2> QED
    BY <1>1, <1>3, <1>4, <2>1
<1>5. CASE q # p
  <2>1. HoldsLock(q, s)' <=> HoldsLock(q, s)
    BY <1>5 DEF HoldsLock, InMethod, Others, Same
  <2> QED
    BY <1>1, <1>2, <1>3, <1>5, <2>1
<1> QED
  BY <1>4, <1>5

LEMMA FailKeeps ==
    ASSUME IInv, NEW p \in Procs, LockTimeout(p) \/ MethodFails(p), UNCHANGED runVars
    PROVE  IInv'
<1>1. /\ TypeOK /\ InMethod(p) /\ UNCHANGED <<file, recent, wiped, pc, sid, sent, turn>>
      /\ frame' = [frame EXCEPT ![p] = NoFrame]
      /\ outcome' = [outcome EXCEPT ![p] = "raised"]
  BY DEF IInv, LockTimeout, MethodFails, Leave, runVars
<1>2. frame'[p] = NoFrame /\ Others(p)
  BY <1>1 DEF TypeOK, Others, Same
<1>3. CASE LockTimeout(p)
  <2>1. lock' = lock /\ frame[p].at = "lock"
    BY <1>3 DEF LockTimeout
  <2>2. TypeOK'
    BY <1>1, <2>1 DEF TypeOK
  <2>3. LockOK'
    BY <1>2, <2>1, LockStays DEF InMethod
  <2> QED
    BY <1>1, <2>2, <2>3, RaiseKeeps
<1>4. CASE MethodFails(p)
  <2>1. lock' = [lock EXCEPT ![frame[p].sid] = Nobody] /\ frame[p].at # "lock"
    BY <1>4 DEF MethodFails, Leave
  <2>2. TypeOK'
    BY <1>1, <2>1 DEF TypeOK
  <2>3. LockOK'
    BY <1>1, <1>2, <2>1, UnlockKeeps
  <2> QED
    BY <1>1, <2>2, <2>3, RaiseKeeps
<1> QED
  BY <1>3, <1>4

(* The end of a read, good or not. *)
LEMMA LoadKeeps ==
    ASSUME IInv, NEW p \in Procs, LoadHistory(p) \/ LoadError(p), UNCHANGED runVars
    PROVE  IInv'
<1> DEFINE f == frame[p]
<1>0. PICK a \in {"write", "overwrite"}, c \in {Append(History(f.sid), f.message), <<f.message>>} :
          /\ frame' = [frame EXCEPT ![p] = [f EXCEPT !.at = a, !.contents = c]]
          /\ a = "write" => c = Append(History(f.sid), f.message)
          /\ a = "overwrite" => c = <<f.message>>
  BY DEF LoadHistory, LoadError
<1> DEFINE g == [f EXCEPT !.at = a, !.contents = c]
<1>1. /\ TypeOK /\ PlaceOK(p) /\ FileOK(p) /\ QuestionOK(p) /\ SentOK(p)
      /\ InMethod(p) /\ f.at = "load"
      /\ UNCHANGED <<file, recent, lock, outcome, wiped, pc, sid, sent, turn>>
      /\ frame' = [frame EXCEPT ![p] = g]
  BY <1>0 DEF IInv, Local, LoadHistory, LoadError, runVars
<1>2. f \in AppendFrames(AllMessages) /\ f.sid \in Sessions /\ f.sid = sid[p]
  BY <1>1, FrameIs, FramesAre
<1>3. c \in Seq(AllMessages)
  <2>1. History(f.sid) \in Seq(AllMessages) /\ f.message \in AllMessages
    BY <1>1, <1>2 DEF History, TypeOK, AppendFrames
  <2>2. <<f.message>> \in Seq(AllMessages) /\ Append(History(f.sid), f.message) \in Seq(AllMessages)
    BY <2>1
  <2> QED
    BY <1>0, <2>2
<1>4. /\ g \in AppendFrames(AllMessages) /\ g.sid = f.sid /\ g.at = a /\ g.message = f.message
      /\ g.contents = c /\ g.method = "append"
  BY <1>2, <1>3 DEF AppendFrames
<1>5. a = "write" /\ file[f.sid] # NoFile => c = Append(file[f.sid], f.message)
  BY <1>0 DEF History
<1> HIDE DEF g
<1>6. frame'[p] = g /\ Others(p) /\ TypeOK'
  BY <1>1, <1>4 DEF TypeOK, Others, Same
<1>7. g # NoFrame
  BY <1>4, FramesAre
<1>8. LockOK'
  <2>1. \A q \in Procs, s \in Sessions : HoldsLock(q, s)' <=> HoldsLock(q, s)
    BY <1>1, <1>4, <1>6, <1>7 DEF HoldsLock, InMethod, Others, Same
  <2> QED
    BY <1>1, <2>1 DEF IInv, LockOK
<1>9. PlaceOK(p)' /\ LoadedOK(p)'
  <2>1. PlaceOK(p)'
    BY <1>1, <1>2, <1>4, <1>6, <1>7, FramesAre DEF PlaceOK, InMethod, Message
  <2>2. LoadedOK(p)'
    BY <1>0, <1>1, <1>4, <1>5, <1>6 DEF LoadedOK, InMethod
  <2> QED
    BY <2>1, <2>2
<1>10. FileOK(p)' /\ QuestionOK(p)' /\ SentOK(p)'
  BY <1>1, <1>6, <1>7 DEF FileOK, QuestionOK, SentOK, Settled, Asked, InMethod, Message
<1> QED
  BY <1>1, <1>6, <1>8, <1>9, <1>10, QuietStep DEF Local

(* A write, whole or torn, of the contents c. *)
Writes(p, c) ==
    LET s == frame[p].sid
    IN  /\ Writing(p) /\ Leave(p, "ok")
        /\ file' = [file EXCEPT ![s] = c] /\ recent' = Touch(s)
        /\ \A r \in wiped : r \in wiped'
        /\ \A r \in wiped' : r \in wiped \/ r = s
        /\ c \in {frame[p].contents, << >>}
        /\ s \notin wiped' =>
              c = frame[p].contents /\ (frame[p].at = "overwrite" => file[s] \in {NoFile, << >>})

LEMMA WritesAre ==
    ASSUME NEW p \in Procs
    PROVE  /\ WriteHistory(p) => Writes(p, frame[p].contents)
           /\ WriteLess(p) => Writes(p, << >>)
BY DEF Writes, WriteHistory, WriteLess

(* A history that is written extends the one that is there, or begins it. *)
LEMMA WriteIs ==
    ASSUME IInv, NEW p \in Procs, NEW c, Writes(p, c)
    PROVE  LET s == frame[p].sid
           IN  /\ s \notin wiped' /\ frame[p] \in AppendFrames(AllMessages) =>
                     /\ file[s] # NoFile /\ c = Append(file[s], frame[p].message)
                     /\ frame[p].message \in AllMessages
               /\ s \notin wiped' /\ frame[p] \in CreateFrames =>
                     file[s] \in {NoFile, << >>} /\ c = << >>
               /\ \A r \in Sessions \ wiped' : Grows(r)
<1> DEFINE f == frame[p]
           s == f.sid
<1>1. /\ TypeOK /\ PlaceOK(p) /\ LoadedOK(p) /\ FileOK(p)
      /\ InMethod(p) /\ f.at \in {"write", "overwrite"}
      /\ file' = [file EXCEPT ![s] = c] /\ \A r \in wiped : r \in wiped'
      /\ s \notin wiped' =>
            c = f.contents /\ (f.at = "overwrite" => file[s] \in {NoFile, << >>})
  <2>1. TypeOK /\ PlaceOK(p) /\ LoadedOK(p) /\ FileOK(p)
    BY DEF IInv, Local
  <2>2. InMethod(p) /\ f.at \in {"write", "overwrite"}
    BY DEF Writes, Writing
  <2>3. file' = [file EXCEPT ![s] = c] /\ \A r \in wiped : r \in wiped'
    BY DEF Writes
  <2>4. s \notin wiped' =>
            c = f.contents /\ (f.at = "overwrite" => file[s] \in {NoFile, << >>})
    BY Zenon DEF Writes
  <2> QED
    BY <2>1, <2>2, <2>3, <2>4
<1>2. s \in Sessions /\ s = sid[p] /\ f \in AppendFrames(AllMessages) \cup CreateFrames
  BY <1>1, FrameIs
<1>3. file'[s] = c /\ \A r \in Sessions \ {s} : file'[r] = file[r]
  BY <1>1, <1>2 DEF TypeOK
<1>4. wiped \subseteq wiped'
  BY <1>1
<1>5. ASSUME s \notin wiped', f \in AppendFrames(AllMessages)
      PROVE  /\ file[s] # NoFile /\ c = Append(file[s], f.message)
             /\ f.message \in AllMessages
  <2>1. s \notin wiped /\ f.method = "append" /\ f.message \in AllMessages
    BY <1>4, <1>5, FramesAre DEF AppendFrames
  <2>2. Settled(p)
    BY <1>1, <1>5, FramesAre DEF PlaceOK, Settled
  <2>3. file[s] # NoFile /\ c = f.contents
    BY <1>1, <1>2, <1>5, <2>1, <2>2 DEF FileOK
  <2>4. CASE f.at = "write"
    BY <1>1, <2>1, <2>3, <2>4 DEF LoadedOK
  <2>5. CASE f.at = "overwrite"
    <3>1. file[s] = << >> /\ c = <<f.message>>
      BY <1>1, <1>5, <2>1, <2>3, <2>5 DEF LoadedOK
    <3> QED
      BY <2>1, <2>3, <3>1
  <2> QED
    BY <1>1, <2>4, <2>5
<1>6. ASSUME s \notin wiped', f \in CreateFrames
      PROVE  file[s] \in {NoFile, << >>} /\ c = << >>
  <2>1. c = << >> /\ f.at = "overwrite"
    BY <1>1, <1>6, FramesAre
  <2> QED
    BY <1>1, <1>6, <2>1
<1>7. \A r \in Sessions \ wiped' : Grows(r)
  BY <1>2, <1>3, <1>5, <1>6 DEF Grows
<1> QED
  BY <1>5, <1>6, <1>7

LEMMA WriteKeeps ==
    ASSUME IInv, NEW p \in Procs, WriteHistory(p) \/ WriteLess(p), UNCHANGED runVars
    PROVE  IInv'
<1> DEFINE f == frame[p]
           s == f.sid
<1>0. PICK c \in {f.contents, << >>} : Writes(p, c)
  BY WritesAre
<1>1. /\ TypeOK /\ PlaceOK(p) /\ LoadedOK(p) /\ FileOK(p) /\ QuestionOK(p) /\ SentOK(p)
      /\ InMethod(p) /\ f.at # "lock" /\ UNCHANGED <<pc, sid, sent, turn>>
      /\ file' = [file EXCEPT ![s] = c] /\ recent' = Touch(s)
      /\ lock' = [lock EXCEPT ![s] = Nobody]
      /\ frame' = [frame EXCEPT ![p] = NoFrame] /\ outcome' = [outcome EXCEPT ![p] = "ok"]
      /\ \A r \in wiped : r \in wiped'
      /\ \A r \in wiped' : r \in wiped \/ r = s
  BY <1>0 DEF IInv, Local, Writes, Writing, Leave, runVars
<1>2. s \in Sessions /\ s = sid[p] /\ f \in AppendFrames(AllMessages) \cup CreateFrames
  BY <1>1, FrameIs
<1>3. c \in Seq(AllMessages) /\ c # NoFile
  <2>1. f.contents \in Seq(AllMessages) \/ f.contents = << >>
    BY <1>2, FramesAre DEF AppendFrames
  <2>2. << >> \in Seq(AllMessages)
    OBVIOUS
  <2> QED
    BY <2>1, <2>2
<1>4. /\ frame'[p] = NoFrame /\ outcome'[p] = "ok" /\ Others(p)
      /\ file'[s] = c /\ \A r \in Sessions \ {s} : file'[r] = file[r]
  BY <1>1, <1>2 DEF TypeOK, Others, Same
<1>5. TypeOK' /\ NoRepeats(recent)'
  <2>1. /\ recent' \in Seq(Sessions) /\ NoRepeats(recent')
        /\ ToSet(recent') = ToSet(recent) \cup {s}
    BY <1>1, <1>2, TouchIs DEF IInv, TypeOK
  <2>2. file' \in [Sessions -> {NoFile} \cup Seq(AllMessages)]
    BY <1>1, <1>3 DEF TypeOK
  <2>3. ToSet(recent') = {r \in Sessions : file'[r] # NoFile}
    BY <1>1, <1>2, <1>3, <1>4, <2>1 DEF TypeOK
  <2>4. wiped' \subseteq Sessions /\ lock' \in [Sessions -> Procs \cup {Nobody}]
    BY <1>1, <1>2 DEF TypeOK
  <2> QED
    BY <1>1, <2>1, <2>2, <2>3, <2>4 DEF TypeOK
<1>6. LockOK'
  BY <1>1, <1>4, UnlockKeeps
<1>7. wiped \subseteq wiped'
  BY <1>1
<1>8. s \notin wiped' /\ f \in AppendFrames(AllMessages) =>
         file[s] # NoFile /\ c = Append(file[s], f.message) /\ f.message \in AllMessages
  BY <1>0, WriteIs
<1>9. s \notin wiped' /\ f \in CreateFrames => file[s] \in {NoFile, << >>} /\ c = << >>
  BY <1>0, WriteIs
<1>10. \A r \in Sessions \ wiped' : Grows(r)
  BY <1>0, WriteIs
<1>11. ASSUME NEW q \in Procs \ {p}
       PROVE  Local(q)'
  <2>1. Same(q) /\ Local(q)
    BY <1>4 DEF Others, IInv
  <2>2. LoadedOK(q)'
    <3> SUFFICES ASSUME InMethod(q), frame[q].method = "append", frame[q].at = "write",
                        file'[frame[q].sid] # NoFile
                 PROVE  frame[q].contents = Append(file'[frame[q].sid], frame[q].message)
      BY <2>1 DEF Local, LoadedOK, InMethod, Same
    <3>1. frame[q].sid \in Sessions
      BY FrameIs
    <3>2. HoldsLock(q, frame[q].sid) /\ HoldsLock(p, s)
      BY <1>1 DEF HoldsLock
    <3>3. frame[q].sid # s
      BY <1>2, <3>1, <3>2 DEF IInv, LockOK
    <3> QED
      BY <1>4, <2>1, <3>1, <3>3 DEF Local, LoadedOK
  <2> QED
    BY <1>1, <1>7, <1>10, <2>1, <2>2, OthersKeep
<1>12. PlaceOK(p)' /\ LoadedOK(p)' /\ FileOK(p)'
  BY <1>1, <1>2, <1>3, <1>4 DEF PlaceOK, LoadedOK, FileOK, InMethod
<1>13. QuestionOK(p)'
  <2> SUFFICES ASSUME pc[p] = "append_model", s \notin wiped'
               PROVE  \E j \in DOMAIN file'[s] : file'[s][j] = Message(p, "user")
    BY <1>1, <1>2, <1>4 DEF QuestionOK, Asked, InMethod, Message
  <2>1. f \in AppendFrames(AllMessages) /\ f.message = Message(p, "user")
    BY <1>1 DEF PlaceOK
  <2>2. /\ file[s] \in Seq(AllMessages) /\ file'[s] = Append(file[s], f.message)
        /\ f.message \in AllMessages
    BY <1>1, <1>2, <1>4, <1>8, <2>1 DEF TypeOK
  <2>3. /\ Len(file[s]) + 1 \in DOMAIN file'[s]
        /\ file'[s][Len(file[s]) + 1] = f.message
    BY <2>2
  <2> QED
    BY <2>1, <2>3
<1>14. SentOK(p)'
  <2> SUFFICES ASSUME pc[p] \in {"append_model", "appended"}, s \notin wiped'
               PROVE  IsPrefix(sent[p], file'[s])
    BY <1>1, <1>2, <1>3, <1>4 DEF SentOK, PlaceOK
  <2>1. s \notin wiped /\ Grows(s) /\ sent[p] \in Seq(AllMessages)
    BY <1>1, <1>2, <1>7, <1>10 DEF TypeOK
  <2>2. file[s] # NoFile /\ IsPrefix(sent[p], file[s])
    BY <1>1, <1>2, <2>1 DEF SentOK
  <2> QED
    BY <1>1, <1>2, <2>1, <2>2, GrowsBy
<1>15. AnswersFollowQuestions'
  <2> SUFFICES ASSUME NEW r \in Sessions \ wiped', file'[r] # NoFile,
                      NEW i \in DOMAIN file'[r], file'[r][i].role = "model"
               PROVE  \E j \in 1..(i - 1) :
                          file'[r][j] = [role |-> "user", turn |-> file'[r][i].turn]
    BY DEF AnswersFollowQuestions, Answered
  <2>1. r \notin wiped /\ AnswersFollowQuestions
    BY <1>7 DEF IInv
  <2>2. CASE r # s
    BY <1>4, <2>1, <2>2 DEF AnswersFollowQuestions, Answered
  <2>3. CASE r = s /\ f \in AppendFrames(AllMessages)
    <3> DEFINE h == file[s]
               m == f.message
               n == Len(h)
    <3>1. h \in Seq(AllMessages) /\ m \in AllMessages /\ file'[s] = Append(h, m) /\ h # NoFile
      BY <1>1, <1>2, <1>4, <1>8, <2>3 DEF TypeOK
    <3>5. \A k \in DOMAIN h : h[k].role = "model" =>
             \E j \in 1..(k - 1) : h[j] = [role |-> "user", turn |-> h[k].turn]
      BY <1>2, <2>1, <2>3, <3>1 DEF AnswersFollowQuestions, Answered
    <3> HIDE DEF h, m, n, f, s
    <3>2. /\ n \in Nat /\ DOMAIN h = 1..n /\ i \in 1..(n + 1)
          /\ \A j \in 1..n : file'[s][j] = h[j]
          /\ file'[s][n + 1] = m
      BY <2>3, <3>1 DEF n
    <3>3. CASE i \in 1..n
      <4>1. \E j \in 1..(i - 1) : h[j] = [role |-> "user", turn |-> h[i].turn]
        BY <2>3, <3>2, <3>3, <3>5
      <4>2. \A j \in 1..(i - 1) : j \in 1..n
        BY <3>2, <3>3
      <4> QED
        BY <2>3, <3>2, <3>3, <4>1, <4>2
    <3>4. CASE i = n + 1
      <4>1. m.role = "model" /\ file'[s][i] = m
        BY <2>3, <3>2, <3>4
      <4>2. pc[p] = "appended" /\ m = Message(p, "model") /\ turn[p] \in 1..MaxTurns
        <5>1. pc[p] \in {"append_model", "appended"} /\ turn[p] \in 1..MaxTurns
          BY <1>1, <2>3, FramesAre DEF PlaceOK, f
        <5>2. Message(p, "user").role = "user"
          BY DEF Message
        <5>3. m # Message(p, "user")
          BY <4>1, <5>2
        <5> QED
          BY <1>1, <2>3, <5>1, <5>3, FramesAre DEF PlaceOK, f, m
      <4>3. PICK j \in DOMAIN h : h[j] = Message(p, "user")
        BY <1>1, <1>2, <2>1, <2>3, <4>2 DEF QuestionOK, Asked, h
      <4>4. Message(p, "user") = [role |-> "user", turn |-> m.turn]
        BY <4>2 DEF Message
      <4>5. j \in 1..(i - 1) /\ file'[s][j] = h[j]
        BY <3>2, <3>4
      <4> QED
        BY <2>3, <4>1, <4>3, <4>4, <4>5
    <3> QED
      BY <3>2, <3>3, <3>4
  <2>4. CASE r = s /\ f \in CreateFrames
    BY <1>4, <1>9, <2>4
  <2> QED
    BY <1>2, <2>2, <2>3, <2>4
<1> QED
  BY <1>5, <1>6, <1>11, <1>12, <1>13, <1>14, <1>15 DEF IInv, Local

LEMMA CrashKeeps == ASSUME IInv, NEW p \in Procs, Crash(p) PROVE IInv'
<1>1. /\ TypeOK /\ Goto(p, "start") /\ UNCHANGED <<file, recent, wiped, sid, sent, turn>>
      /\ lock' = [s \in Sessions |-> IF lock[s] = p THEN Nobody ELSE lock[s]]
      /\ frame' = [frame EXCEPT ![p] = NoFrame] /\ outcome' = [outcome EXCEPT ![p] = "ok"]
  BY DEF IInv, Crash, DropFrame
<1>2. frame'[p] = NoFrame /\ pc'[p] = "start" /\ Others(p) /\ TypeOK'
  BY <1>1, GotoIs DEF TypeOK, Others, Same
<1>3. LockOK'
  <2> SUFFICES ASSUME NEW q \in Procs, NEW s \in Sessions
               PROVE  (lock'[s] = q) <=> HoldsLock(q, s)'
    BY DEF LockOK
  <2>1. lock[s] = q <=> HoldsLock(q, s)
    BY DEF IInv, LockOK
  <2>2. CASE q = p
    BY <1>1, <1>2, <2>2 DEF HoldsLock, InMethod
  <2>3. CASE q # p
    <3>1. HoldsLock(q, s)' <=> HoldsLock(q, s)
      BY <1>2, <2>3 DEF HoldsLock, InMethod, Others, Same
    <3> QED
      BY <1>1, <2>1, <2>3, <3>1
  <2> QED
    BY <2>2, <2>3
<1>4. Local(p)'
  BY <1>2 DEF Local, PlaceOK, LoadedOK, FileOK, QuestionOK, SentOK, Settled, Asked, InMethod
<1> QED
  BY <1>1, <1>2, <1>3, <1>4, QuietStep

LEMMA EndKeeps == ASSUME IInv, NEW s \in Sessions, End(s) PROVE IInv'
<1>1. /\ TypeOK /\ UNCHANGED <<lock, frame, outcome, pc, sid, sent, turn>>
      /\ file' = [file EXCEPT ![s] = NoFile] /\ recent' = Without(s)
      /\ wiped' = wiped \cup {s}
  BY DEF IInv, End, Unlink, runVars
<1>2. file'[s] = NoFile /\ \A r \in Sessions \ {s} : file'[r] = file[r]
  BY <1>1 DEF TypeOK
<1>3. TypeOK' /\ NoRepeats(recent)'
  <2>1. /\ recent' \in Seq(Sessions) /\ NoRepeats(recent')
        /\ ToSet(recent') = ToSet(recent) \ {s}
    BY <1>1, WithoutIs DEF IInv, TypeOK
  <2>2. ToSet(recent') = {r \in Sessions : file'[r] # NoFile}
    BY <1>1, <1>2, <2>1 DEF TypeOK
  <2> QED
    BY <1>1, <2>1, <2>2 DEF TypeOK
<1>4. LockOK'
  BY <1>1 DEF IInv, LockOK, HoldsLock, InMethod
<1>5. \A r \in Sessions \ wiped' : Grows(r)
  BY <1>1, <1>2 DEF Grows
<1>6. ASSUME NEW q \in Procs
      PROVE  Local(q)'
  <2>1. Same(q) /\ Local(q)
    BY <1>1 DEF Same, IInv
  <2>2. LoadedOK(q)'
    <3>1. InMethod(q) => frame[q].sid \in Sessions
      BY FrameIs
    <3> QED
      BY <1>1, <1>2, <2>1, <3>1 DEF Local, LoadedOK, InMethod
  <2> QED
    BY <1>1, <1>5, <2>1, <2>2, OthersKeep
<1>7. AnswersFollowQuestions'
  BY <1>1, <1>2 DEF IInv, AnswersFollowQuestions, Answered
<1> QED
  BY <1>3, <1>4, <1>6, <1>7 DEF IInv

LEMMA InitEstablishes == Init => IInv
<1> SUFFICES ASSUME Init
             PROVE  IInv
  OBVIOUS
<1> DEFINE F == {s \in Sessions : file[s] # NoFile}
           n == Cardinality(F)
<1>1. file \in [Sessions -> {NoFile, << >>}] /\ recent \in SetToSeqs(F)
  BY DEF Init, SessionInit
<1>2. n \in Nat /\ IsFiniteSet(F)
  BY FS_Subset, FS_CardinalityType
<1>3. recent \in [1..n -> F] /\ \A i, j \in 1..n : i # j => recent[i] # recent[j]
  BY <1>1 DEF SetToSeqs
<1> HIDE DEF n
<1>4. recent \in Seq(Sessions) /\ NoRepeats(recent)
  <2>1. recent \in [1..n -> Sessions] /\ DOMAIN recent = 1..n
    BY <1>3
  <2>2. recent \in Seq(Sessions)
    BY <1>2, <2>1
  <2> QED
    BY <1>3, <2>1, <2>2 DEF NoRepeats
<1>5. ToSet(recent) = F
  <2> HIDE DEF F
  <2>1. recent \in Injection(1..n, F)
    BY <1>3 DEF Injection, IsInjective
  <2>2. Cardinality(1..n) = Cardinality(F)
    BY <1>2, FS_Interval DEF n
  <2>3. recent \in Surjection(1..n, F)
    BY <1>2, <2>1, <2>2, FS_Injection
  <2> QED
    BY <1>3, <2>3 DEF Surjection, ToSet
<1>6. TypeOK
  <2>1. file \in [Sessions -> {NoFile} \cup Seq(AllMessages)]
    <3>1. << >> \in Seq(AllMessages)
      OBVIOUS
    <3> QED
      BY <1>1, <3>1
  <2> QED
    BY <1>4, <1>5, <2>1 DEF Init, SessionInit, TypeOK
<1>7. \A p \in Procs : ~InMethod(p) /\ pc[p] = "start"
  BY DEF Init, SessionInit, InMethod
<1>8. LockOK
  BY <1>7 DEF LockOK, HoldsLock, Init, SessionInit
<1>9. \A p \in Procs : Local(p)
  BY <1>7 DEF Local, PlaceOK, LoadedOK, FileOK, QuestionOK, SentOK, Settled, Asked
<1>10. AnswersFollowQuestions
  BY <1>1 DEF AnswersFollowQuestions, Answered
<1> QED
  BY <1>4, <1>6, <1>8, <1>9, <1>10 DEF IInv

LEMMA NextKeeps == IInv /\ [Next]_vars => IInv'
<1> SUFFICES ASSUME IInv, [Next]_vars
             PROVE  IInv'
  OBVIOUS
<1>1. ASSUME NEW p \in Procs, InState(p)
      PROVE  IInv'
  BY <1>1, TakeLockKeeps, FailKeeps, LoadKeeps, WriteKeeps DEF InState, MethodStep
<1>2. CASE UNCHANGED vars
  <2>1. UNCHANGED <<file, recent, lock, frame, outcome, wiped, pc, sid, sent, turn>>
    BY <1>2 DEF vars, sessionVars
  <2>2. TypeOK' /\ NoRepeats(recent)'
    BY <2>1 DEF IInv, TypeOK
  <2>3. LockOK' /\ AnswersFollowQuestions'
    BY <2>1 DEF IInv, LockOK, HoldsLock, InMethod, AnswersFollowQuestions, Answered
  <2>4. ASSUME NEW p \in Procs
        PROVE  Local(p)'
    <3>1. Local(p)
      BY DEF IInv
    <3>2. PlaceOK(p)' /\ LoadedOK(p)' /\ FileOK(p)'
      BY <2>1, <3>1 DEF Local, PlaceOK, LoadedOK, FileOK, Settled, InMethod, Message
    <3>3. QuestionOK(p)' /\ SentOK(p)'
      BY <2>1, <3>1 DEF Local, QuestionOK, SentOK, Asked, InMethod, Message
    <3> QED
      BY <3>2, <3>3 DEF Local
  <2> QED
    BY <2>2, <2>3, <2>4 DEF IInv
<1> QED
  BY <1>1, <1>2, StartKeeps, LookKeeps, CreateKeeps, CreatedKeeps, AppendsKeep, CrashKeeps,
     EndKeeps DEF Next

LEMMA Holds == Spec => []IInv
BY InitEstablishes, NextKeeps, PTL DEF Spec

-----------------------------------------------------------------------------
(* Every variable, what the files hold and what a method knows keeps its   *)
(* type, and the order of the files lists each of them.                    *)
THEOREM TypesHold == Spec => []TypeOK
<1>1. IInv => TypeOK
  BY DEF IInv
<1> QED
  BY <1>1, Holds, PTL

(* text.py saves the question and the answer by two separate writes; an    *)
(* answer is only ever saved behind its question.                          *)
THEOREM AnswersAreBehindQuestions == Spec => []AnswersFollowQuestions
<1>1. IInv => AnswersFollowQuestions
  BY DEF IInv
<1> QED
  BY <1>1, Holds, PTL

(* text.py reads the history without the lock; what it sends to the API is *)
(* what the file begins with nevertheless.                                 *)
THEOREM WhatIsSentIsSaved == Spec => []SentWasSaved
<1>1. IInv => SentWasSaved
  BY DEF IInv, Local, SentOK, SentWasSaved
<1> QED
  BY <1>1, Holds, PTL

-----------------------------------------------------------------------------
(* What a step does to the files. *)
LEMMA FilesChange ==
    ASSUME IInv, [Next]_vars
    PROVE  \/ file' = file /\ wiped' = wiped
           \/ \E p \in Procs : WriteHistory(p) \/ WriteLess(p)
           \/ \E s \in Sessions : End(s)
<1>1. CASE UNCHANGED vars
  BY <1>1 DEF vars, sessionVars
<1>2. ASSUME NEW p \in Procs, InState(p)
      PROVE  (file' = file /\ wiped' = wiped) \/ WriteHistory(p) \/ WriteLess(p)
  BY <1>2 DEF InState, MethodStep, TakeLock, LockTimeout, LoadHistory, LoadError,
     MethodFails
<1>3. ASSUME NEW p \in Procs,
             \/ Start(p) \/ Exists(p) \/ GetHistory(p) \/ Create(p) \/ Created(p)
             \/ CallApi(p) \/ AppendUser(p) \/ AppendModel(p) \/ Done(p) \/ Crash(p)
      PROVE  file' = file /\ wiped' = wiped
  BY <1>3 DEF Start, Exists, GetHistory, Create, Created, CallApi, AppendUser, AppendModel,
     Done, Crash, DropFrame, BeginCreate, BeginAppend, sessionVars
<1> QED
  BY <1>1, <1>2, <1>3 DEF Next

LEMMA HistoriesGrow ==
    ASSUME IInv, [Next]_vars
    PROVE  \A r \in Sessions \ wiped' : Grows(r)
<1>1. ASSUME NEW s \in Sessions, End(s)
      PROVE  \A r \in Sessions \ wiped' : Grows(r)
  BY <1>1 DEF End, Unlink, IInv, TypeOK, Grows
<1> QED
  BY <1>1, FilesChange, WritesAre, WriteIs DEF Grows

(* session_state.py:8: a saved message stays in its file, in its place,    *)
(* until its session is ended or created anew.                             *)
THEOREM NothingSavedIsLost == Spec => SavedMessagesStay
<1>1. ASSUME IInv, [Next]_vars, NEW s \in Sessions \ wiped', file[s] # NoFile
      PROVE  file'[s] # NoFile /\ IsPrefix(file[s], file'[s])
  <2>1. Grows(s) /\ TypeOK
    BY <1>1, HistoriesGrow DEF IInv
  <2>2. file[s] \in Seq(AllMessages)
    BY <1>1, <2>1 DEF TypeOK
  <2>3. IsPrefix(file[s], file[s])
    BY <2>2, PrefixBegins
  <2> QED
    BY <1>1, <2>1, <2>2, <2>3, GrowsBy
<1>2. IInv /\ [Next]_vars =>
         [\A s \in Sessions \ wiped' :
             file[s] # NoFile =>
                file'[s] # NoFile /\ IsPrefix(file[s], file'[s])]_sessionVars
  BY <1>1
<1> QED
  BY <1>2, Holds, PTL DEF Spec, SavedMessagesStay

(* append_message writes the history it read under the lock and its        *)
(* message, and nobody wrote the file in between; only somebody who ended  *)
(* the session, or a write that fell short, takes the history away.        *)
THEOREM AppendsExtend == Spec => AppendsKeepHistory
<1> DEFINE Writer(p, s) ==
               /\ InMethod(p) /\ frame[p].method = "append" /\ frame[p].at = "write"
               /\ frame[p].sid = s /\ frame'[p] = NoFrame /\ file'[s] # file[s]
           Result(p, s) ==
               \/ file[s] # NoFile /\ file'[s] = Append(file[s], frame[p].message)
               \/ file[s] = NoFile /\ s \in wiped
               \/ file'[s] = << >> /\ s \in wiped'
<1>1. ASSUME IInv, [Next]_vars, NEW p \in Procs, NEW s \in Sessions, Writer(p, s)
      PROVE  Result(p, s)
  <2>1. TypeOK /\ PlaceOK(p) /\ LoadedOK(p) /\ FileOK(p) /\ s = sid[p]
    BY <1>1, FrameIs DEF IInv, Local
  <2>2. ASSUME NEW r \in Sessions, End(r)
        PROVE  FALSE
    BY <1>1, <2>2 DEF End, Unlink, InMethod
  <2>3. PICK q \in Procs : WriteHistory(q) \/ WriteLess(q)
    BY <1>1, <2>2, FilesChange
  <2>4. frame' = [frame EXCEPT ![q] = NoFrame]
    BY <2>3 DEF WriteHistory, WriteLess, Leave
  <2>5. q = p
    BY <1>1, <2>1, <2>4 DEF TypeOK, InMethod
  <2>6. CASE WriteLess(p)
    BY <1>1, <2>1, <2>6 DEF WriteLess, TypeOK
  <2>7. CASE WriteHistory(p)
    <3>1. file'[s] = frame[p].contents
      BY <1>1, <2>1, <2>7 DEF WriteHistory, TypeOK
    <3>2. Settled(p)
      BY <1>1, <2>1, FramesAre DEF PlaceOK, Settled
    <3> QED
      BY <1>1, <2>1, <3>1, <3>2 DEF LoadedOK, FileOK
  <2> QED
    BY <2>3, <2>5, <2>6, <2>7
<1>2. IInv /\ [Next]_vars =>
         [\A p \in Procs, s \in Sessions : Writer(p, s) => Result(p, s)]_sessionVars
  BY <1>1
<1> QED
  BY <1>2, Holds, PTL DEF Spec, AppendsKeepHistory
=============================================================================
