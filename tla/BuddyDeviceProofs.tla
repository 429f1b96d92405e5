--------------------------- MODULE BuddyDeviceProofs ---------------------------
(***************************************************************************)
(* What one iteration of the prompt loop sends, and the kinds of its       *)
(* variables, for any permissions, questions and options, and whatever     *)
(* edges of the buttons can happen.                                        *)
(***************************************************************************)
EXTENDS BuddyDevice, TLAPS

--------------------------------------------------------------------------------
(* The answers of one iteration.                                           *)

Together(p, q, r, s) == p \o q \o r \o s

Placed(p, q, r, s) ==
  \A i \in DOMAIN Together(p, q, r, s) :
    \/ Len(p) = 1 /\ i = 1 /\ Together(p, q, r, s)[i] = p[1]
    \/ Len(q) = 1 /\ i = Len(p) + 1 /\ Together(p, q, r, s)[i] = q[1]
    \/ Len(r) = 1 /\ i = Len(p) + Len(q) + 1 /\ Together(p, q, r, s)[i] = r[1]
    \/ Len(s) = 1 /\ i = Len(p) + Len(q) + Len(r) + 1 /\ Together(p, q, r, s)[i] = s[1]

(* Of four sequences put together, none longer than one, every entry is    *)
(* the entry of one of them, at the place their lengths say.               *)
LEMMA OfFourParts ==
  ASSUME NEW T,
         NEW p \in Seq(T), NEW q \in Seq(T), NEW r \in Seq(T), NEW s \in Seq(T),
         Len(p) <= 1, Len(q) <= 1, Len(r) <= 1, Len(s) <= 1
  PROVE  /\ Together(p, q, r, s) \in Seq(T)
         /\ Placed(p, q, r, s)
<1> DEFINE pq == p \o q  pqr == pq \o r  all == pqr \o s
<1>1. pq \in Seq(T) /\ Len(pq) = Len(p) + Len(q)
      /\ \A i \in 1..Len(pq) : pq[i] = IF i <= Len(p) THEN p[i] ELSE q[i - Len(p)]
  OBVIOUS
<1>2. pqr \in Seq(T) /\ Len(pqr) = Len(pq) + Len(r)
      /\ \A i \in 1..Len(pqr) : pqr[i] = IF i <= Len(pq) THEN pq[i] ELSE r[i - Len(pq)]
  <2> HIDE DEF pq
  <2> QED BY <1>1
<1>3. all \in Seq(T) /\ Len(all) = Len(pqr) + Len(s)
      /\ \A i \in 1..Len(all) : all[i] = IF i <= Len(pqr) THEN pqr[i] ELSE s[i - Len(pqr)]
  <2> HIDE DEF pqr
  <2> QED BY <1>2
<1>4. {Len(p), Len(q), Len(r), Len(s)} \subseteq {0, 1} /\ DOMAIN all = 1..Len(all)
  <2> HIDE DEF pq, pqr, all
  <2>1. \A t \in Seq(T) : Len(t) \in Nat
    OBVIOUS
  <2>2. \A n \in Nat : n <= 1 => n \in {0, 1}
    OBVIOUS
  <2>3. Len(p) \in {0, 1} /\ Len(q) \in {0, 1} /\ Len(r) \in {0, 1} /\ Len(s) \in {0, 1}
    BY <2>1, <2>2
  <2> QED BY <2>3, <1>3
<1>5. ASSUME NEW i \in DOMAIN all
      PROVE  \/ Len(p) = 1 /\ i = 1 /\ all[i] = p[1]
             \/ Len(q) = 1 /\ i = Len(p) + 1 /\ all[i] = q[1]
             \/ Len(r) = 1 /\ i = Len(p) + Len(q) + 1 /\ all[i] = r[1]
             \/ Len(s) = 1 /\ i = Len(p) + Len(q) + Len(r) + 1 /\ all[i] = s[1]
  <2> HIDE DEF pq, pqr, all
  <2>1. i \in 1..Len(all) /\ i \in Nat
    BY <1>4, <1>3
  <2>2. CASE i > Len(pqr)
    <3>1. all[i] = s[i - Len(pqr)] /\ i - Len(pqr) = 1 /\ Len(s) = 1
      BY <2>1, <2>2, <1>1, <1>2, <1>3, <1>4
    <3>2. QED BY <3>1, <1>1, <1>2, <1>4
  <2>3. CASE i <= Len(pqr) /\ i > Len(pq)
    <3>1. all[i] = pqr[i]
      BY <2>1, <2>3, <1>3
    <3>2. pqr[i] = r[i - Len(pq)] /\ i - Len(pq) = 1 /\ Len(r) = 1
      BY <2>1, <2>3, <1>1, <1>2, <1>4
    <3>3. QED BY <3>1, <3>2, <1>1, <1>4
  <2>4. CASE i <= Len(pq) /\ i > Len(p)
    <3>1. all[i] = pqr[i] /\ pqr[i] = pq[i]
      BY <2>1, <2>4, <1>1, <1>2, <1>3, <1>4
    <3>2. pq[i] = q[i - Len(p)] /\ i - Len(p) = 1 /\ Len(q) = 1
      BY <2>1, <2>4, <1>1, <1>4
    <3>3. QED BY <3>1, <3>2, <1>4
  <2>5. CASE i <= Len(p)
    BY <2>1, <2>5, <1>1, <1>2, <1>3, <1>4
  <2>6. QED
    BY <2>1, <2>2, <2>3, <2>4, <2>5, <1>1, <1>2, <1>4
<1>6. all = Together(p, q, r, s)
  BY DEF Together
<1> HIDE DEF all
<1>7. QED
  BY <1>3, <1>5, <1>6 DEF Placed

Always(event) ==
  LET a == Position(btnA, "A", event) IN
  IF LongA(a) /\ InPrompt /\ NewPrompt # None THEN Reply(NewPrompt, "always") ELSE <<>>
Reject(event) ==
  LET b == Position(btnB, "B", event) IN
  IF LongB(b) THEN Reply(NewQuestion, "reject") ELSE <<>>
Released(event) == IF ReleaseA(event) THEN Confirm ELSE <<>>
Deny(event) ==
  IF PressB(event) /\ NewQuestion = None THEN Reply(NewPrompt, "deny") ELSE <<>>

(* What the next loop knows is of its kind.                                *)
LEMMA NewTyped ==
  ASSUME DeviceTypeOK
  PROVE  /\ NewPrompt \in Perms \cup {None} /\ NewQuestion \in Questions \cup {None}
         /\ Cursor \in DOMAIN Options
         /\ InPrompt => NewPrompt # None \/ NewQuestion # None
<1>1. CASE rx = <<>>
  BY <1>1 DEF DeviceTypeOK, NewPrompt, NewQuestion, LastOr, Cursor, SameQuestion, InPrompt, Prompted
<1>2. CASE rx # <<>>
  <2>1. rx[Len(rx)] \in Payloads
    BY <1>2 DEF DeviceTypeOK
  <2>2. 1 \in DOMAIN Options
    BY BaseAssumption
  <2>3. QED
    BY <1>2, <2>1, <2>2
    DEF DeviceTypeOK, Payloads, NewPrompt, NewQuestion, LastOr, Cursor, SameQuestion, InPrompt, Prompted
<1>3. QED
  BY <1>1, <1>2

LEMMA PartsTyped ==
  ASSUME DeviceTypeOK, NEW event \in Events
  PROVE  /\ Replies(event) = Always(event) \o Reject(event) \o Released(event) \o Deny(event)
         /\ \A piece \in {Always(event), Reject(event), Released(event), Deny(event)} :
              piece \in Seq(DeviceAnswers) /\ Len(piece) <= 1
         /\ Always(event) # <<>> =>
              Always(event) = <<[ask |-> NewPrompt, answer |-> "always"]>> /\ NewPrompt # None
         /\ Reject(event) # <<>> =>
              Reject(event) = <<[ask |-> NewQuestion, answer |-> "reject"]>> /\ NewQuestion # None
         /\ Released(event) # <<>> =>
              IF NewQuestion # None
              THEN Released(event) = <<[ask |-> NewQuestion, answer |-> Options[Cursor]]>>
              ELSE Released(event) = <<[ask |-> NewPrompt, answer |-> "once"]>> /\ NewPrompt # None
         /\ Deny(event) # <<>> =>
              /\ Deny(event) = <<[ask |-> NewPrompt, answer |-> "deny"]>>
              /\ NewQuestion = None /\ NewPrompt # None
<1>1. Replies(event) = Always(event) \o Reject(event) \o Released(event) \o Deny(event)
  BY DEF Replies, Always, Reject, Released, Deny
<1>2. <<>> \in Seq(DeviceAnswers) /\ Len(<<>>) <= 1
  OBVIOUS
<1>3. Options[Cursor] \in Offered
  BY NewTyped, BaseAssumption DEF Offered
<1>4. /\ NewPrompt # None => \A answer \in PermAnswers : [ask |-> NewPrompt, answer |-> answer] \in DeviceAnswers
      /\ NewQuestion # None =>
           \A answer \in QuestionAnswers : [ask |-> NewQuestion, answer |-> answer] \in DeviceAnswers
  BY NewTyped DEF DeviceAnswers, Asks
<1>5. /\ Always(event) \in Seq(DeviceAnswers) /\ Len(Always(event)) <= 1
      /\ Always(event) # <<>> =>
           Always(event) = <<[ask |-> NewPrompt, answer |-> "always"]>> /\ NewPrompt # None
  <2>1. CASE Always(event) = <<>>
    BY <1>2, <2>1
  <2>2. CASE Always(event) # <<>>
    <3>1. Always(event) = Reply(NewPrompt, "always") /\ NewPrompt # None
      BY <2>2 DEF Always
    <3>2. [ask |-> NewPrompt, answer |-> "always"] \in DeviceAnswers
      BY <3>1, <1>4 DEF PermAnswers
    <3> DEFINE sent1 == [ask |-> NewPrompt, answer |-> "always"]
    <3>3. Always(event) = <<sent1>> /\ sent1 \in DeviceAnswers
      BY <3>1, <3>2 DEF Reply
    <3> HIDE DEF sent1
    <3>4. Always(event) \in Seq(DeviceAnswers) /\ Len(Always(event)) <= 1
      BY <3>3
    <3>5. QED BY <3>1, <3>3, <3>4 DEF sent1
  <2>3. QED BY <2>1, <2>2
<1>6. /\ Reject(event) \in Seq(DeviceAnswers) /\ Len(Reject(event)) <= 1
      /\ Reject(event) # <<>> =>
           Reject(event) = <<[ask |-> NewQuestion, answer |-> "reject"]>> /\ NewQuestion # None
  <2>1. CASE Reject(event) = <<>>
    BY <1>2, <2>1
  <2>2. CASE Reject(event) # <<>>
    <3>1. Reject(event) = Reply(NewQuestion, "reject") /\ NewQuestion # None
      BY <2>2 DEF Reject, LongB
    <3>2. [ask |-> NewQuestion, answer |-> "reject"] \in DeviceAnswers
      BY <3>1, <1>4 DEF QuestionAnswers
    <3> DEFINE sent1 == [ask |-> NewQuestion, answer |-> "reject"]
    <3>3. Reject(event) = <<sent1>> /\ sent1 \in DeviceAnswers
      BY <3>1, <3>2 DEF Reply
    <3> HIDE DEF sent1
    <3>4. Reject(event) \in Seq(DeviceAnswers) /\ Len(Reject(event)) <= 1
      BY <3>3
    <3>5. QED BY <3>1, <3>3, <3>4 DEF sent1
  <2>3. QED BY <2>1, <2>2
<1>7. /\ Released(event) \in Seq(DeviceAnswers) /\ Len(Released(event)) <= 1
      /\ Released(event) # <<>> =>
           IF NewQuestion # None
           THEN Released(event) = <<[ask |-> NewQuestion, answer |-> Options[Cursor]]>>
           ELSE Released(event) = <<[ask |-> NewPrompt, answer |-> "once"]>> /\ NewPrompt # None
  <2>1. CASE Released(event) = <<>>
    BY <1>2, <2>1
  <2>2. CASE Released(event) # <<>> /\ NewQuestion # None
    <3>1. Released(event) = Reply(NewQuestion, Options[Cursor])
      BY <2>2 DEF Released, Confirm
    <3>2. [ask |-> NewQuestion, answer |-> Options[Cursor]] \in DeviceAnswers
      BY <2>2, <1>3, <1>4 DEF QuestionAnswers
    <3> DEFINE sent1 == [ask |-> NewQuestion, answer |-> Options[Cursor]]
    <3>3. Released(event) = <<sent1>> /\ sent1 \in DeviceAnswers
      BY <3>1, <3>2 DEF Reply
    <3> HIDE DEF sent1
    <3>4. Released(event) \in Seq(DeviceAnswers) /\ Len(Released(event)) <= 1
      BY <3>3
    <3>5. QED BY <3>1, <3>3, <3>4, <2>2 DEF sent1
  <2>3. CASE Released(event) # <<>> /\ NewQuestion = None
    <3>1. Released(event) = Reply(NewPrompt, "once") /\ NewPrompt # None
      BY <2>3, NewTyped DEF Released, Confirm, ReleaseA
    <3>2. [ask |-> NewPrompt, answer |-> "once"] \in DeviceAnswers
      BY <3>1, <1>4 DEF PermAnswers
    <3> DEFINE sent1 == [ask |-> NewPrompt, answer |-> "once"]
    <3>3. Released(event) = <<sent1>> /\ sent1 \in DeviceAnswers
      BY <3>1, <3>2 DEF Reply
    <3> HIDE DEF sent1
    <3>4. Released(event) \in Seq(DeviceAnswers) /\ Len(Released(event)) <= 1
      BY <3>3
    <3>5. QED BY <3>1, <3>3, <3>4, <2>3 DEF sent1
  <2>4. QED BY <2>1, <2>2, <2>3
<1>8. /\ Deny(event) \in Seq(DeviceAnswers) /\ Len(Deny(event)) <= 1
      /\ Deny(event) # <<>> =>
           /\ Deny(event) = <<[ask |-> NewPrompt, answer |-> "deny"]>>
           /\ NewQuestion = None /\ NewPrompt # None
  <2>1. CASE Deny(event) = <<>>
    BY <1>2, <2>1
  <2>2. CASE Deny(event) # <<>>
    <3>1. Deny(event) = Reply(NewPrompt, "deny") /\ NewPrompt # None /\ NewQuestion = None
      BY <2>2, NewTyped DEF Deny, PressB
    <3>2. [ask |-> NewPrompt, answer |-> "deny"] \in DeviceAnswers
      BY <3>1, <1>4 DEF PermAnswers
    <3> DEFINE sent1 == [ask |-> NewPrompt, answer |-> "deny"]
    <3>3. Deny(event) = <<sent1>> /\ sent1 \in DeviceAnswers
      BY <3>1, <3>2 DEF Reply
    <3> HIDE DEF sent1
    <3>4. Deny(event) \in Seq(DeviceAnswers) /\ Len(Deny(event)) <= 1
      BY <3>3
    <3>5. QED BY <3>1, <3>3, <3>4 DEF sent1
  <2>3. QED BY <2>1, <2>2
<1>9. QED
  BY <1>1, <1>5, <1>6, <1>7, <1>8

(* The answers of one iteration, one by one: where each stands and what it *)
(* is.                                                                     *)
LEMMA RepliesAre ==
  ASSUME DeviceTypeOK, NEW event \in Events
  PROVE  /\ Replies(event) \in Seq(DeviceAnswers)
         /\ \A i \in DOMAIN Replies(event) :
              \/ /\ Always(event) # <<>> /\ i = 1 /\ NewPrompt # None
                 /\ Replies(event)[i] = [ask |-> NewPrompt, answer |-> "always"]
              \/ /\ Reject(event) # <<>> /\ i = Len(Always(event)) + 1 /\ NewQuestion # None
                 /\ Replies(event)[i] = [ask |-> NewQuestion, answer |-> "reject"]
              \/ /\ Released(event) # <<>>
                 /\ i = Len(Always(event)) + Len(Reject(event)) + 1
                 /\ NewPrompt # None \/ NewQuestion # None
                 /\ Replies(event)[i] =
                      IF NewQuestion # None THEN [ask |-> NewQuestion, answer |-> Options[Cursor]]
                      ELSE [ask |-> NewPrompt, answer |-> "once"]
              \/ /\ Deny(event) # <<>> /\ NewQuestion = None /\ NewPrompt # None
                 /\ i = Len(Always(event)) + Len(Reject(event)) + Len(Released(event)) + 1
                 /\ Replies(event)[i] = [ask |-> NewPrompt, answer |-> "deny"]
<1> DEFINE p == Always(event)  q == Reject(event)  r == Released(event)  s == Deny(event)
           all == Together(p, q, r, s)
<1>1. /\ p \in Seq(DeviceAnswers) /\ q \in Seq(DeviceAnswers)
      /\ r \in Seq(DeviceAnswers) /\ s \in Seq(DeviceAnswers)
      /\ Len(p) <= 1 /\ Len(q) <= 1 /\ Len(r) <= 1 /\ Len(s) <= 1
      /\ Replies(event) = all
  BY PartsTyped DEF Together
<1>2. /\ all \in Seq(DeviceAnswers)
      /\ \A i \in DOMAIN all :
              \/ Len(p) = 1 /\ i = 1 /\ all[i] = p[1]
              \/ Len(q) = 1 /\ i = Len(p) + 1 /\ all[i] = q[1]
              \/ Len(r) = 1 /\ i = Len(p) + Len(q) + 1 /\ all[i] = r[1]
              \/ Len(s) = 1 /\ i = Len(p) + Len(q) + Len(r) + 1 /\ all[i] = s[1]
  <2>1. \A a, b, c, d \in Seq(DeviceAnswers) :
          Len(a) <= 1 /\ Len(b) <= 1 /\ Len(c) <= 1 /\ Len(d) <= 1
            => Together(a, b, c, d) \in Seq(DeviceAnswers) /\ Placed(a, b, c, d)
    BY OfFourParts
  <2> HIDE DEF p, q, r, s
  <2>2. all \in Seq(DeviceAnswers) /\ Placed(p, q, r, s)
    BY <1>1, <2>1
  <2>3. QED BY <2>2 DEF Placed
<1>3. /\ Len(p) = 1 => p # <<>> /\ p[1] = [ask |-> NewPrompt, answer |-> "always"] /\ NewPrompt # None
      /\ Len(q) = 1 => q # <<>> /\ q[1] = [ask |-> NewQuestion, answer |-> "reject"] /\ NewQuestion # None
      /\ Len(r) = 1 => r # <<>> /\ (NewPrompt # None \/ NewQuestion # None)
            /\ r[1] = IF NewQuestion # None THEN [ask |-> NewQuestion, answer |-> Options[Cursor]]
                                          ELSE [ask |-> NewPrompt, answer |-> "once"]
      /\ Len(s) = 1 => s # <<>> /\ s[1] = [ask |-> NewPrompt, answer |-> "deny"]
            /\ NewQuestion = None /\ NewPrompt # None
  <2>1. /\ p # <<>> => p = <<[ask |-> NewPrompt, answer |-> "always"]>> /\ NewPrompt # None
        /\ q # <<>> => q = <<[ask |-> NewQuestion, answer |-> "reject"]>> /\ NewQuestion # None
        /\ r # <<>> => IF NewQuestion # None
                       THEN r = <<[ask |-> NewQuestion, answer |-> Options[Cursor]]>>
                       ELSE r = <<[ask |-> NewPrompt, answer |-> "once"]>> /\ NewPrompt # None
        /\ s # <<>> => s = <<[ask |-> NewPrompt, answer |-> "deny"]>> /\ NewQuestion = None /\ NewPrompt # None
    BY PartsTyped
  <2>2. \A t : Len(t) = 1 /\ t = <<>> => FALSE
    OBVIOUS
  <2> HIDE DEF p, q, r, s
  <2> QED BY <2>1, <2>2
<1> HIDE DEF p, q, r, s, all
<1>4. QED
  BY <1>1, <1>2, <1>3 DEF p, q, r, s

(* An answer is one its ask can take.                                      *)
LEMMA RepliesFit ==
  ASSUME DeviceTypeOK, NEW event \in Events, NEW i \in DOMAIN Replies(event)
  PROVE  Replies(event)[i].answer \in Answers(Replies(event)[i].ask)
<1>1. /\ NewPrompt # None => NewPrompt \in Perms
      /\ NewQuestion # None => NewQuestion \in Questions
      /\ Options[Cursor] \in Offered
  BY NewTyped, BaseAssumption DEF Offered
<1>2. Perms \cap Questions = {}
  BY BaseAssumption
<1>3. CASE Replies(event)[i] = [ask |-> NewPrompt, answer |-> "always"] /\ NewPrompt # None
  BY <1>1, <1>3 DEF Answers, PermAnswers
<1>4. CASE Replies(event)[i] = [ask |-> NewQuestion, answer |-> "reject"] /\ NewQuestion # None
  BY <1>1, <1>2, <1>4 DEF Answers, QuestionAnswers
<1>5. CASE Replies(event)[i] = [ask |-> NewQuestion, answer |-> Options[Cursor]] /\ NewQuestion # None
  BY <1>1, <1>2, <1>5 DEF Answers, QuestionAnswers
<1>6. CASE Replies(event)[i] = [ask |-> NewPrompt, answer |-> "once"] /\ NewPrompt # None
  BY <1>1, <1>6 DEF Answers, PermAnswers
<1>7. CASE Replies(event)[i] = [ask |-> NewPrompt, answer |-> "deny"] /\ NewPrompt # None
  BY <1>1, <1>7 DEF Answers, PermAnswers
<1>8. QED
  BY RepliesAre, <1>3, <1>4, <1>5, <1>6, <1>7

(* Nothing is answered while nothing can be.                               *)
LEMMA RepliesNeedPrompt ==
  ASSUME NEW event \in Events
  PROVE  /\ Always(event) # <<>> => InPrompt /\ LongA(Position(btnA, "A", event))
         /\ Reject(event) # <<>> => InPrompt
         /\ Released(event) # <<>> => ReleaseA(event)
         /\ Deny(event) # <<>> => InPrompt
BY DEF Always, Reject, Released, Deny, LongB, PressB

--------------------------------------------------------------------------------
(* The kinds of the variables after an iteration of the loop.              *)
LEMMA LoopTyped ==
  ASSUME DeviceTypeOK, NEW event \in Events, DeviceLoop(event)
  PROVE  DeviceTypeOK'
<1> USE DEF DeviceLoop
<1>1. devPrompt' \in Perms \cup {None} /\ devQuestion' \in Questions \cup {None}
  BY NewTyped
<1>2. qSelected' \in DOMAIN Options
  <2>1. Len(Options) \in Nat \ {0} /\ DOMAIN Options = 1..Len(Options)
    BY BaseAssumption
  <2>2. Cursor \in 1..Len(Options)
    BY <2>1, NewTyped
  <2>3. \A n \in Nat \ {0} : \A c \in 1..n : (c % n) + 1 \in 1..n
    OBVIOUS
  <2>4. NextOption \in 1..Len(Options)
    BY <2>1, <2>2, <2>3 DEF NextOption
  <2>5. QED
    BY <2>1, <2>2, <2>4
<1>3. {sent, screenOff, longA, longB, swallowA, swallowB, devLink}' \subseteq BOOLEAN
  <2>1. sent' \in BOOLEAN /\ screenOff' \in BOOLEAN
    BY DEF DeviceTypeOK, Answered, Dark
  <2>2. longA' \in BOOLEAN /\ longB' \in BOOLEAN
    BY DEF DeviceTypeOK
  <2>3. swallowA' \in BOOLEAN /\ swallowB' \in BOOLEAN
    BY DEF DeviceTypeOK
  <2>4. devLink' \in BOOLEAN
    BY DEF DeviceTypeOK
  <2>5. QED BY <2>1, <2>2, <2>3, <2>4
<1>4. btnA' \in ButtonPositions /\ btnB' \in ButtonPositions
  BY DEF DeviceTypeOK, Position, Events, NoEvent, Power
<1>5. rx' \in Seq(Payloads)
  OBVIOUS
<1>6. upq' \in Seq(DeviceAnswers)
  <2>1. Replies(event) \in Seq(DeviceAnswers)
    BY RepliesAre
  <2>2. upq \in Seq(DeviceAnswers)
    BY DEF DeviceTypeOK
  <2> QED BY <2>1, <2>2
<1>7. \A i \in DOMAIN upq' : upq'[i].answer \in Answers(upq'[i].ask)
  <2>1. \A i \in DOMAIN Replies(event) : Replies(event)[i].answer \in Answers(Replies(event)[i].ask)
    BY RepliesFit
  <2>2. /\ Replies(event) \in Seq(DeviceAnswers) /\ upq \in Seq(DeviceAnswers)
        /\ \A i \in DOMAIN upq : upq[i].answer \in Answers(upq[i].ask)
    BY RepliesAre DEF DeviceTypeOK
  <2>3. \A i \in DOMAIN (upq \o Replies(event)) :
           \/ i \in DOMAIN upq /\ (upq \o Replies(event))[i] = upq[i]
           \/ /\ i - Len(upq) \in DOMAIN Replies(event)
              /\ (upq \o Replies(event))[i] = Replies(event)[i - Len(upq)]
    BY <2>2
  <2>4. QED
    BY <2>1, <2>2, <2>3
<1>8. QED
  BY <1>1, <1>2, <1>3, <1>4, <1>5, <1>6, <1>7 DEF DeviceTypeOK

(* What every other step does to the variables keeps their kinds as well.  *)
LEMMA RestTyped ==
  ASSUME DeviceTypeOK,
         UNCHANGED <<devPrompt, devQuestion, qSelected, sent, buttonVars>>,
         screenOff' \in BOOLEAN, devLink' \in BOOLEAN,
         rx' = rx \/ \E payload \in Payloads : rx' = Append(rx, payload),
         upq' \in {upq, <<>>} \/ (upq # <<>> /\ upq' = Tail(upq))
  PROVE  DeviceTypeOK'
<1>1. rx' \in Seq(Payloads)
  BY DEF DeviceTypeOK
<1>2. upq' \in Seq(DeviceAnswers) /\ \A i \in DOMAIN upq' : upq'[i].answer \in Answers(upq'[i].ask)
  <2>1. upq \in Seq(DeviceAnswers) /\ \A i \in DOMAIN upq : upq[i].answer \in Answers(upq[i].ask)
    BY DEF DeviceTypeOK
  <2>2. CASE upq' = upq
    BY <2>1, <2>2
  <2>3. CASE upq # <<>> /\ upq' = Tail(upq)
    <3>1. upq' \in Seq(DeviceAnswers)
      BY <2>1, <2>3
    <3>2. \A i \in DOMAIN upq' : i + 1 \in DOMAIN upq /\ upq'[i] = upq[i + 1]
      BY <2>1, <2>3
    <3>3. QED
      BY <2>1, <3>1, <3>2
  <2>4. CASE upq' = <<>>
    BY <2>4
  <2>5. QED
    BY <2>2, <2>3, <2>4
<1>3. {sent, screenOff, longA, longB, swallowA, swallowB, devLink}' \subseteq BOOLEAN
  BY DEF DeviceTypeOK, buttonVars
<1>4. QED
  BY <1>1, <1>2, <1>3 DEF DeviceTypeOK, buttonVars

LEMMA DeviceStart ==
  ASSUME DeviceInit
  PROVE  DeviceTypeOK
<1>1. 1 \in DOMAIN Options
  BY BaseAssumption
<1>2. <<>> \in Seq(Payloads) /\ <<>> \in Seq(DeviceAnswers) /\ DOMAIN <<>> = {}
  OBVIOUS
<1>3. upq = <<>> /\ rx = <<>>
  BY DEF DeviceInit
<1>4. \A i \in DOMAIN upq : upq[i].answer \in Answers(upq[i].ask)
  BY <1>2, <1>3
<1>5. {sent, screenOff, longA, longB, swallowA, swallowB, devLink} \subseteq BOOLEAN
  BY DEF DeviceInit
<1>6. QED
  BY <1>1, <1>2, <1>3, <1>4, <1>5 DEF DeviceInit, DeviceTypeOK, ButtonPositions
================================================================================
