---------------------------- MODULE ServicesProofs ----------------------------
(***************************************************************************)
(* Proofs about what the device does with others until it is done: a push   *)
(* ends as the coordinator says (OtaPush), every turn that was counted      *)
(* rings (CompletionChime), the setup portal answers what was asked and     *)
(* saves what the form says (WifiPortal), and the pack of GIFs that plays   *)
(* is whole (CharacterTransfer), for any sessions, limits, sizes, faults.   *)
(***************************************************************************)
EXTENDS MCServices, WifiProofs, ApprovalTextProofs, TLAPS, FiniteSetTheorems, WellFoundedInduction

--------------------------------------------------------------------------------
(* The messages under way, without their order.                            *)
Inside(q) == {q[i] : i \in 1..Len(q)}

Versions == 0..LastSession
UpdatePhases == {"idle", "confirm", "accepted", "authenticated", "download", "readback",
           "boot-committed", "cancelled", "error"}
Words == UpdatePhases \cup {"none", "running", "boot-health", "offer-received", "await-confirm", "rejected",
                      "success", "rollback", "timeout"}
Installing == {"accepted", "authenticated", "download", "readback", "boot-committed"}
Places == {"idle", "probing", "offer", "offering", "waiting", "ended"}

Asks == [kind : {"probe", "offer", "cancel"}, s : Sessions]
Answers == [s : Versions, phase : Words, version : Versions, health : {"valid", "monitoring"},
            applied : BOOLEAN]

PushTyped ==
  /\ host \in [at : Places, s : Versions, offers : Nat, accepted : BOOLEAN,
               irreversible : BOOLEAN, end : Words]
  /\ host.at # "idle" => host.s # None
  /\ cancel \in {"none", "wanted", "sent", "applied", "refused"}
  /\ told \subseteq Sessions
  /\ down \in Seq(Asks) /\ up \in Seq(Answers)
  /\ boot \in [version : Versions, health : {"valid", "monitoring"}, back : Versions]
  /\ offer \in Versions /\ seen \subseteq Sessions
  /\ bound \in [to : Versions, last : Words]
  /\ update \in [phase : UpdatePhases, of : Versions, cancel : BOOLEAN]

(* An answer under way is of this boot: a restart takes the link with it.   *)
Fresh ==
  \A m \in Inside(up) :
    /\ m.version = boot.version
    /\ m.health = "valid" => boot.health = "valid"
    /\ m.applied => m.phase = "cancelled"

(* Nothing is about a session that has not begun.                          *)
Begun ==
  /\ \A m \in Inside(down) : m.s <= host.s
  /\ offer <= host.s /\ update.of <= host.s

(* What is installed is newer than what runs, and that than what it would   *)
(* return to.                                                              *)
Newer ==
  /\ offer # None => offer > boot.version
  /\ update.phase \in Installing => update.of > boot.version
  /\ bound.to # None => bound.to > boot.version /\ bound.to \in seen
  /\ boot.back <= boot.version
  /\ update.cancel => Cancellable

(* A session whose cancel the device has applied: the answer is under way, *)
(* or the coordinator has it, and has told its caller.                     *)
Over(s) == s < host.s \/ (s = host.s /\ host.at = "ended")
Heard(s) == s \in told \/ (s = host.s /\ cancel = "applied")
Applied(s) == Heard(s) \/ \E m \in Inside(up) : m.applied /\ m.s = s

(* Its image neither runs nor comes to run, and it is not offered again:   *)
(* the device remembers it, or no offer of it can come.                    *)
Buried(s) ==
  /\ boot.version # s /\ boot.back # s
  /\ update.of = s => update.cancel \/ update.phase \notin Installing
  /\ offer = s => update.cancel
  /\ s \in seen \/ \A m \in Inside(down) : ~(m.kind = "offer" /\ m.s = s)

Cancelled ==
  \A s \in Sessions :
    /\ Applied(s) => Buried(s)
    /\ Heard(s) => Over(s)
    /\ Applied(s) => Over(s) \/ s \in seen

PushInv == PushTyped /\ Fresh /\ Begun /\ Newer /\ SuccessIsTrue /\ Cancelled

LEMMA InsideTyped ==
  ASSUME NEW S, NEW q \in Seq(S)
  PROVE  Inside(q) \subseteq S
<1>1. \A i \in 1..Len(q) : q[i] \in S
  OBVIOUS
<1>2. QED
  BY <1>1 DEF Inside

LEMMA TailIsInside ==
  ASSUME NEW S, NEW q \in Seq(S), q # <<>>
  PROVE  /\ Tail(q) \in Seq(S) /\ Inside(Tail(q)) \subseteq Inside(q)
         /\ Head(q) \in Inside(q) /\ Head(q) \in S
<1>1. Len(q) \in Nat /\ Len(q) > 0
  OBVIOUS
<1>2. Tail(q) \in Seq(S) /\ Len(Tail(q)) = Len(q) - 1 /\ \A i \in 1..(Len(q) - 1) : Tail(q)[i] = q[i + 1]
  BY <1>1
<1>3. Inside(Tail(q)) \subseteq Inside(q)
  <2>1. SUFFICES ASSUME NEW i \in 1..(Len(q) - 1) PROVE q[i + 1] \in Inside(q)
    BY <1>2 DEF Inside
  <2>2. i + 1 \in 1..Len(q)
    BY <1>1
  <2>3. QED
    BY <2>2 DEF Inside
<1>4. Head(q) = q[1] /\ 1 \in 1..Len(q)
  BY <1>1
<1>5. Head(q) \in Inside(q) /\ Head(q) \in S
  BY <1>4 DEF Inside
<1>6. QED
  BY <1>2, <1>3, <1>5

LEMMA AppendIsInside ==
  ASSUME NEW S, NEW q \in Seq(S), NEW m \in S
  PROVE  Append(q, m) \in Seq(S) /\ Inside(Append(q, m)) = Inside(q) \cup {m}
<1>1. /\ Append(q, m) \in Seq(S) /\ Len(q) \in Nat /\ Len(Append(q, m)) = Len(q) + 1
      /\ Append(q, m)[Len(q) + 1] = m
      /\ \A i \in 1..Len(q) : Append(q, m)[i] = q[i]
  OBVIOUS
<1>2. 1..(Len(q) + 1) = 1..Len(q) \cup {Len(q) + 1}
  BY <1>1
<1>3. QED
  BY <1>1, <1>2 DEF Inside

(* The same of the two directions of the link.                             *)
LEMMA AsksUnderWay ==
  ASSUME PushTyped
  PROVE  /\ down \in Seq(Asks) /\ Inside(down) \subseteq Asks
         /\ down # <<>> => /\ Tail(down) \in Seq(Asks) /\ Inside(Tail(down)) \subseteq Inside(down)
                          /\ Head(down) \in Inside(down) /\ Head(down) \in Asks
<1>1. down \in Seq(Asks)
  BY DEF PushTyped
<1>2. Inside(down) \subseteq Asks
  BY ONLY <1>1, InsideTyped
<1>3. ASSUME down # <<>>
      PROVE  /\ Tail(down) \in Seq(Asks) /\ Inside(Tail(down)) \subseteq Inside(down)
             /\ Head(down) \in Inside(down) /\ Head(down) \in Asks
  BY ONLY <1>1, <1>3, TailIsInside
<1>4. QED
  BY <1>1, <1>2, <1>3

LEMMA AnswersUnderWay ==
  ASSUME PushTyped
  PROVE  /\ up \in Seq(Answers) /\ Inside(up) \subseteq Answers
         /\ up # <<>> => /\ Tail(up) \in Seq(Answers) /\ Inside(Tail(up)) \subseteq Inside(up)
                        /\ Head(up) \in Inside(up) /\ Head(up) \in Answers
<1>1. up \in Seq(Answers)
  BY DEF PushTyped
<1>2. Inside(up) \subseteq Answers
  BY ONLY <1>1, InsideTyped
<1>3. ASSUME up # <<>>
      PROVE  /\ Tail(up) \in Seq(Answers) /\ Inside(Tail(up)) \subseteq Inside(up)
             /\ Head(up) \in Inside(up) /\ Head(up) \in Answers
  BY ONLY <1>1, <1>3, TailIsInside
<1>4. QED
  BY <1>1, <1>2, <1>3

LEMMA NothingInside == Inside(<<>>) = {} /\ \A S : <<>> \in Seq(S)
  BY DEF Inside

--------------------------------------------------------------------------------
(* What the device does, but for its restarts.                             *)

NewAnswer(m) ==
  /\ m.version = boot.version /\ m.health = boot.health
  /\ m.applied => m.phase = "cancelled" /\ m.s = bound.to /\ m.s # None /\ update'.cancel

OfferStep ==
  \/ offer' = None
  \/ offer' = offer /\ (update.cancel => update'.cancel)
  \/ \E m \in Inside(down) : m.kind = "offer" /\ offer' = m.s /\ m.s \notin seen /\ m.s > boot.version

UpdateStep ==
  /\ update' \in [phase : UpdatePhases, of : Versions, cancel : BOOLEAN]
  /\ update'.cancel => Cancellable'
  /\ update'.of \in {update.of, offer, None}
  /\ \/ update'.phase \notin Installing
     \/ update.phase \in Installing /\ update'.of = update.of /\ (update.cancel => update'.cancel)
     \/ ~update.cancel /\ offer # None /\ update'.of = offer

BoundStep ==
  /\ bound' \in [to : Versions, last : Words]
  /\ seen \subseteq seen' /\ seen' \subseteq Sessions
  /\ bound'.to = bound.to \/ (bound'.to \in seen' /\ bound'.to > boot.version)

DeviceStep ==
  /\ UNCHANGED <<host, cancel, told>>
  /\ boot' = boot \/ boot' = [boot EXCEPT !.health = "valid"]
  /\ down' \in Seq(Asks) /\ Inside(down') \subseteq Inside(down)
  /\ up' \in Seq(Answers) /\ \A m \in Inside(up') : m \in Inside(up) \/ NewAnswer(m)
  /\ OfferStep /\ UpdateStep /\ BoundStep

LEMMA DeviceStepKeeps ==
  ASSUME PushInv, DeviceStep
  PROVE  PushInv'
<1> USE DEF PushInv
<1>1. /\ boot' \in [version : Versions, health : {"valid", "monitoring"}, back : Versions]
      /\ boot'.version = boot.version /\ boot'.back = boot.back
      /\ boot'.health \in {boot.health, "valid"}
  BY DEF DeviceStep, PushTyped
<1>2. offer' \in Versions /\ offer' <= host.s
  <2>1. CASE offer' = None
    BY <2>1, PushAssumption DEF None, Versions, PushTyped
  <2>2. CASE offer' = offer
    BY <2>2 DEF PushTyped, Begun
  <2>3. CASE \E m \in Inside(down) : offer' = m.s
    <3>1. PICK m \in Inside(down) : offer' = m.s
      BY <2>3
    <3>2. m.s \in Sessions
      BY AsksUnderWay DEF Asks
    <3>3. QED
      BY <3>1, <3>2 DEF Begun, Sessions, Versions
  <2>4. QED
    BY <2>1, <2>2, <2>3 DEF DeviceStep, OfferStep
<1>3. PushTyped'
  <2>1. /\ host' = host /\ cancel' = cancel /\ told' = told
        /\ down' \in Seq(Asks) /\ up' \in Seq(Answers) /\ seen' \subseteq Sessions
        /\ bound' \in [to : Versions, last : Words]
        /\ update' \in [phase : UpdatePhases, of : Versions, cancel : BOOLEAN]
    BY DEF DeviceStep, BoundStep, UpdateStep
  <2>2. QED
    BY <1>1, <1>2, <2>1 DEF PushTyped
<1>4. Fresh'
  <2>1. SUFFICES ASSUME NEW m \in Inside(up')
                 PROVE  /\ m.version = boot'.version
                        /\ m.health = "valid" => boot'.health = "valid"
                        /\ m.applied => m.phase = "cancelled"
    BY DEF Fresh, Inside
  <2>2. CASE m \in Inside(up)
    BY <1>1, <2>2 DEF Fresh
  <2>3. CASE NewAnswer(m)
    BY <1>1, <2>3 DEF NewAnswer
  <2>4. QED
    BY <2>2, <2>3 DEF DeviceStep
<1>5. Begun'
  <2>1. \A m \in Inside(down') : m.s <= host'.s
    BY DEF DeviceStep, Begun
  <2>2. update'.of <= host'.s
    <3>1. None <= host.s
      BY DEF PushTyped, None, Versions
    <3>2. QED
      BY <3>1 DEF DeviceStep, UpdateStep, Begun
  <2>3. host' = host
    BY DEF DeviceStep
  <2>4. QED
    BY <1>2, <2>1, <2>2, <2>3 DEF Begun, Inside
<1>6. Newer'
  <2>1. offer' # None => offer' > boot'.version
    BY <1>1 DEF DeviceStep, OfferStep, Newer
  <2>2. update'.phase \in Installing => update'.of > boot'.version
    BY <1>1 DEF DeviceStep, UpdateStep, Newer
  <2>3. bound'.to # None => bound'.to > boot'.version /\ bound'.to \in seen'
    BY <1>1 DEF DeviceStep, BoundStep, Newer
  <2>4. boot'.back <= boot'.version
    BY <1>1 DEF Newer
  <2>5. update'.cancel => Cancellable'
    BY DEF DeviceStep, UpdateStep
  <2>6. QED
    BY <2>1, <2>2, <2>3, <2>4, <2>5 DEF Newer
<1>7. SuccessIsTrue'
  BY <1>1 DEF DeviceStep, SuccessIsTrue
<1>8. Cancelled'
  <2>1. SUFFICES ASSUME NEW s \in Sessions
                 PROVE  /\ Applied(s)' => Buried(s)'
                        /\ Heard(s)' => Over(s)'
                        /\ Applied(s)' => Over(s)' \/ s \in seen'
    BY DEF Cancelled
  <2>2. (Heard(s)' <=> Heard(s)) /\ (Over(s)' <=> Over(s))
    BY DEF DeviceStep, Heard, Over
  <2>3. s # None /\ seen \subseteq seen' /\ Inside(down') \subseteq Inside(down)
    BY DEF DeviceStep, BoundStep, Sessions, None
  <2>4. ASSUME Applied(s) PROVE Buried(s)' /\ (Over(s)' \/ s \in seen')
    <3>1. Buried(s) /\ (Over(s) \/ s \in seen)
      BY <2>4 DEF Cancelled
    <3>2. boot'.version # s /\ boot'.back # s
      BY <1>1, <3>1 DEF Buried
    <3>3. update'.of = s => update'.cancel \/ update'.phase \notin Installing
      BY <3>1 DEF Buried, DeviceStep, UpdateStep
    <3>4. offer' = s => update'.cancel
      <4>1. CASE offer' = None
        BY <2>3, <4>1
      <4>2. CASE offer' = offer /\ (update.cancel => update'.cancel)
        BY <3>1, <4>2 DEF Buried
      <4>3. CASE \E m \in Inside(down) : m.kind = "offer" /\ offer' = m.s /\ m.s \notin seen
        BY <3>1, <4>3 DEF Buried
      <4>4. QED
        BY <4>1, <4>2, <4>3 DEF DeviceStep, OfferStep
    <3>5. s \in seen' \/ \A m \in Inside(down') : ~(m.kind = "offer" /\ m.s = s)
      BY <2>3, <3>1 DEF Buried
    <3>6. Buried(s)'
      BY <3>2, <3>3, <3>4, <3>5 DEF Buried, Inside
    <3>7. QED
      BY <2>2, <2>3, <3>1, <3>6
  <2>5. ASSUME ~Applied(s), Applied(s)' PROVE Buried(s)' /\ s \in seen'
    <3>1. PICK m \in Inside(up') : m.applied /\ m.s = s
      BY <2>2, <2>5 DEF Applied, Inside
    <3>2. m \notin Inside(up)
      BY <2>5, <3>1 DEF Applied
    <3>3. s = bound.to /\ update'.cancel
      BY <3>1, <3>2 DEF DeviceStep, NewAnswer
    <3>4. s > boot.version /\ s \in seen /\ boot.back <= boot.version
      BY <2>3, <3>3 DEF Newer
    <3>5. boot'.version # s /\ boot'.back # s
      <4>1. boot.version \in Nat /\ boot.back \in Nat /\ s \in Nat
        BY DEF PushTyped, Versions, Sessions
      <4>2. QED
        BY <1>1, <3>4, <4>1
    <3>6. QED
      BY <2>3, <3>3, <3>4, <3>5 DEF Buried
  <2>6. QED
    BY <2>2, <2>4, <2>5 DEF Cancelled
<1>9. QED
  BY <1>3, <1>4, <1>5, <1>6, <1>7, <1>8

(* What is sent up.                                                        *)
LEMMA ToldAdds ==
  ASSUME PushTyped, NEW s \in Versions, NEW p \in Words, NEW applied \in BOOLEAN, Told(s, p, applied)
  PROVE  /\ up' \in Seq(Answers)
         /\ \A m \in Inside(up') : m \in Inside(up) \/ m = Status(s, p, applied)
<1>1. Status(s, p, applied) \in Answers
  BY DEF Status, Answers, PushTyped
<1> DEFINE x == Status(s, p, applied)
<1>2. up \in Seq(Answers) /\ (up' = up \/ up' = Append(up, x))
  BY DEF Told, PushTyped
<1> HIDE DEF x
<1>3. Append(up, x) \in Seq(Answers) /\ Inside(Append(up, x)) = Inside(up) \cup {x}
  <2>1. x \in Answers
    BY <1>1 DEF x
  <2>2. QED
    BY ONLY <1>2, <2>1, AppendIsInside
<1>4. up' \in Seq(Answers) /\ \A m \in Inside(up') : m \in Inside(up) \/ m = x
  BY <1>2, <1>3
<1>5. QED
  BY <1>4 DEF x

LEMMA ReportedAdds ==
  ASSUME PushTyped, NEW b \in [to : Versions, last : Words], NEW p \in Words, Reported(b, p)
  PROVE  /\ bound' \in [to : Versions, last : Words] /\ bound'.to = b.to
         /\ up' \in Seq(Answers)
         /\ \A m \in Inside(up') : m \in Inside(up) \/ m = Status(b.to, p, FALSE)
<1>1. CASE b.to = None \/ b.last = p
  <2>1. bound' = b /\ up' = up
    BY <1>1 DEF Reported
  <2>2. QED
    BY <2>1 DEF PushTyped
<1>2. CASE ~(b.to = None \/ b.last = p)
  <2>1. bound' = [b EXCEPT !.last = p] /\ Told(b.to, p, FALSE)
    BY <1>2 DEF Reported
  <2>2. b.to \in Versions /\ FALSE \in BOOLEAN
    OBVIOUS
  <2>3. QED
    BY <2>1, <2>2, ToldAdds
<1>3. QED
  BY <1>1, <1>2

LEMMA NewStatus ==
  ASSUME NEW s, NEW p
  PROVE  NewAnswer(Status(s, p, FALSE))
  BY DEF NewAnswer, Status

LEMMA ToldSteps ==
  ASSUME PushInv, NEW s \in Versions, NEW p \in Words, Told(s, p, FALSE)
  PROVE  up' \in Seq(Answers) /\ \A m \in Inside(up') : m \in Inside(up) \/ NewAnswer(m)
<1>1. PushTyped /\ FALSE \in BOOLEAN
  BY DEF PushInv
<1>2. up' \in Seq(Answers) /\ \A m \in Inside(up') : m \in Inside(up) \/ m = Status(s, p, FALSE)
  BY ONLY <1>1, ToldAdds, Told(s, p, FALSE), s \in Versions, p \in Words
<1>3. QED
  BY <1>2, NewStatus

LEMMA UpdateStays ==
  ASSUME PushInv, UNCHANGED update
  PROVE  UpdateStep
<1>1. /\ update' \in [phase : UpdatePhases, of : Versions, cancel : BOOLEAN]
      /\ update'.cancel => Cancellable'
  BY DEF PushInv, PushTyped, Newer, Cancellable
<1>2. QED
  BY <1>1 DEF UpdateStep

LEMMA BoundStays ==
  ASSUME PushInv, bound' \in [to : Versions, last : Words], bound'.to = bound.to, UNCHANGED seen
  PROVE  BoundStep
  BY DEF PushInv, PushTyped, BoundStep

LEMMA DownStays ==
  ASSUME PushInv, down' = down \/ (down # <<>> /\ down' = Tail(down)) \/ down' = <<>>
  PROVE  down' \in Seq(Asks) /\ Inside(down') \subseteq Inside(down)
<1>1. PushTyped
  BY DEF PushInv
<1>2. CASE down' = <<>>
  BY <1>2, NothingInside
<1>3. CASE down' = down
  BY <1>1, <1>3, AsksUnderWay
<1>4. CASE down # <<>> /\ down' = Tail(down)
  BY <1>1, <1>4, AsksUnderWay
<1>5. QED
  BY <1>2, <1>3, <1>4

LEMMA UpStays ==
  ASSUME PushInv, up' = up \/ up' = <<>> \/ (up # <<>> /\ up' = Tail(up))
  PROVE  up' \in Seq(Answers) /\ Inside(up') \subseteq Inside(up)
<1>1. PushTyped
  BY DEF PushInv
<1>2. CASE up' = <<>>
  BY <1>2, NothingInside
<1>3. CASE up' = up
  BY <1>1, <1>3, AnswersUnderWay
<1>4. CASE up # <<>> /\ up' = Tail(up)
  BY <1>1, <1>4, AnswersUnderWay
<1>5. QED
  BY <1>2, <1>3, <1>4

LEMMA ProbedSteps ==
  ASSUME PushInv, DeviceProbed
  PROVE  DeviceStep
<1>1. down # <<>> /\ down' = Tail(down) /\ Asked \in Versions
  BY AsksUnderWay DEF DeviceProbed, Received, Asked, PushInv, Asks, Sessions, Versions
<1>2. PICK p \in {"running", "boot-health"} : Told(Asked, p, FALSE)
  BY DEF DeviceProbed
<1>3. up' \in Seq(Answers) /\ \A m \in Inside(up') : m \in Inside(up) \/ NewAnswer(m)
  <2>1. p \in Words
    BY DEF Words
  <2>2. QED
    BY <1>1, <1>2, <2>1, ToldSteps
<1>4. UNCHANGED <<host, cancel, told, boot, offer, seen, bound, update>>
  BY DEF DeviceProbed, hostVars, deviceVars
<1>5. bound' \in [to : Versions, last : Words]
  BY <1>4 DEF PushInv, PushTyped
<1>6. OfferStep /\ UpdateStep /\ BoundStep
  BY <1>4, <1>5, UpdateStays, BoundStays DEF OfferStep
<1>7. QED
  BY <1>1, <1>3, <1>4, <1>6, DownStays DEF DeviceStep

LEMMA OfferedSteps ==
  ASSUME PushInv, DeviceOffered
  PROVE  DeviceStep
<1>1. down # <<>> /\ down' = Tail(down) /\ Asked \in Sessions /\ Asked \in Versions
  BY AsksUnderWay DEF DeviceOffered, Received, Asked, PushInv, Asks, Sessions, Versions
<1>2. \E m \in Inside(down) : m.kind = "offer" /\ m.s = Asked
  BY AsksUnderWay DEF DeviceOffered, Received, Asked, PushInv
<1>3. UNCHANGED <<host, cancel, told, boot, update>>
  BY DEF DeviceOffered, hostVars
<1>4. CASE offer' = None /\ UNCHANGED <<seen, bound, up>>
  <2>1. bound' \in [to : Versions, last : Words]
    BY <1>4 DEF PushInv, PushTyped
  <2>2. OfferStep /\ UpdateStep /\ BoundStep
    BY <1>3, <1>4, <2>1, UpdateStays, BoundStays DEF OfferStep
  <2>3. QED
    BY <1>1, <1>3, <1>4, <2>2, DownStays, UpStays DEF DeviceStep
<1>5. CASE Asked \notin seen /\ seen' = seen \cup {Asked} /\ offer' = None
           /\ Told(Asked, "rejected", FALSE) /\ UNCHANGED bound
  <2>1. up' \in Seq(Answers) /\ \A m \in Inside(up') : m \in Inside(up) \/ NewAnswer(m)
    <3>1. "rejected" \in Words
      BY DEF Words
    <3>2. QED
      BY <1>1, <1>5, <3>1, ToldSteps
  <2>2. BoundStep
    BY <1>1, <1>5 DEF BoundStep, PushInv, PushTyped
  <2>3. QED
    BY <1>1, <1>3, <1>5, <2>1, <2>2, UpdateStays, DownStays DEF DeviceStep, OfferStep
<1>6. CASE /\ Asked \notin seen /\ seen' = seen \cup {Asked} /\ Asked > boot.version /\ offer' = Asked
           /\ bound' = [to |-> Asked, last |-> "offer-received"]
           /\ Told(Asked, "offer-received", FALSE)
  <2>1. up' \in Seq(Answers) /\ \A m \in Inside(up') : m \in Inside(up) \/ NewAnswer(m)
    <3>1. "offer-received" \in Words
      BY DEF Words
    <3>2. QED
      BY <1>1, <1>6, <3>1, ToldSteps
  <2>2. BoundStep
    <3>1. "offer-received" \in Words
      BY DEF Words
    <3>2. bound' \in [to : Versions, last : Words] /\ bound'.to = Asked
      BY <1>1, <1>6, <3>1
    <3>3. seen \subseteq seen' /\ seen' \subseteq Sessions /\ Asked \in seen' /\ Asked > boot.version
      BY <1>1, <1>6 DEF PushInv, PushTyped
    <3>4. QED
      BY <3>2, <3>3 DEF BoundStep
  <2>3. OfferStep
    BY <1>2, <1>6 DEF OfferStep
  <2>4. QED
    BY <1>1, <1>3, <2>1, <2>2, <2>3, UpdateStays, DownStays DEF DeviceStep
<1>7. QED
  BY <1>4, <1>5, <1>6 DEF DeviceOffered

LEMMA CancelSteps ==
  ASSUME PushInv, DeviceCancels
  PROVE  DeviceStep
<1>1. down # <<>> /\ down' = Tail(down) /\ Asked \in Versions /\ Asked # None
  BY AsksUnderWay DEF DeviceCancels, Received, Asked, PushInv, Asks, Sessions, Versions, None
<1>2. UNCHANGED <<host, cancel, told, boot, offer, seen>>
  BY DEF DeviceCancels, hostVars
<1>3. CASE Asked = bound.to /\ Cancellable /\ ~update.cancel
  <2>1. /\ update' = [update EXCEPT !.cancel = TRUE]
        /\ bound' = [bound EXCEPT !.last = "cancelled"]
        /\ up' = up \/ Told(Asked, "cancelled", TRUE)
    BY <1>3 DEF DeviceCancels
  <2>2. update' \in [phase : UpdatePhases, of : Versions, cancel : BOOLEAN] /\ update'.cancel = TRUE
        /\ update'.phase = update.phase /\ update'.of = update.of
    BY <2>1 DEF PushInv, PushTyped
  <2>3. Cancellable'
    BY <1>3, <2>2 DEF Cancellable
  <2>4. UpdateStep
    BY <2>2, <2>3 DEF UpdateStep
  <2>5. bound' \in [to : Versions, last : Words] /\ bound'.to = bound.to
    <3>1. "cancelled" \in Words /\ bound' = [bound EXCEPT !.last = "cancelled"]
      BY <2>1 DEF Words, UpdatePhases
    <3>2. QED
      BY <3>1 DEF PushInv, PushTyped
  <2>6. up' \in Seq(Answers) /\ \A m \in Inside(up') : m \in Inside(up) \/ NewAnswer(m)
    <3>1. NewAnswer(Status(Asked, "cancelled", TRUE))
      BY <1>1, <1>3, <2>2 DEF NewAnswer, Status
    <3>2. CASE Told(Asked, "cancelled", TRUE)
      <4>1. "cancelled" \in Words /\ TRUE \in BOOLEAN /\ PushTyped
        BY DEF Words, UpdatePhases, PushInv
      <4>2. up' \in Seq(Answers) /\ \A m \in Inside(up') : m \in Inside(up) \/ m = Status(Asked, "cancelled", TRUE)
        BY <1>1, <3>2, <4>1, ToldAdds
      <4>3. QED
        BY <3>1, <4>2
    <3>3. CASE up' = up
      BY <3>3 DEF PushInv, PushTyped
    <3>4. QED
      BY <2>1, <3>2, <3>3
  <2>7. QED
    BY <1>1, <1>2, <2>2, <2>4, <2>5, <2>6, BoundStays, DownStays DEF DeviceStep, OfferStep
<1>4. CASE ~(Asked = bound.to /\ Cancellable /\ ~update.cancel)
  <2>1. UNCHANGED <<bound, update>> /\ (up' = up \/ Told(Asked, PhaseShown, FALSE))
    BY <1>4 DEF DeviceCancels
  <2>2. PhaseShown \in Words
    BY DEF PhaseShown, PushInv, PushTyped, Words
  <2>3. up' \in Seq(Answers) /\ \A m \in Inside(up') : m \in Inside(up) \/ NewAnswer(m)
    <3>1. CASE Told(Asked, PhaseShown, FALSE)
      BY <1>1, <2>2, <3>1, ToldSteps
    <3>2. CASE up' = up
      BY <3>2 DEF PushInv, PushTyped
    <3>3. QED
      BY <2>1, <3>1, <3>2
  <2>4. bound' \in [to : Versions, last : Words]
    BY <2>1 DEF PushInv, PushTyped
  <2>5. QED
    BY <1>1, <1>2, <2>1, <2>3, <2>4, BoundStays, UpdateStays, DownStays DEF DeviceStep, OfferStep
<1>5. QED
  BY <1>3, <1>4

LEMMA ReportedSteps ==
  ASSUME PushInv, NEW p \in Words, Reported(bound, p), UNCHANGED seen
  PROVE  /\ up' \in Seq(Answers) /\ \A m \in Inside(up') : m \in Inside(up) \/ NewAnswer(m)
         /\ BoundStep
<1>1. PushTyped /\ bound \in [to : Versions, last : Words]
  BY DEF PushInv, PushTyped
<1>2. /\ bound' \in [to : Versions, last : Words] /\ bound'.to = bound.to
      /\ up' \in Seq(Answers)
      /\ \A m \in Inside(up') : m \in Inside(up) \/ m = Status(bound.to, p, FALSE)
  BY <1>1, ReportedAdds
<1>3. QED
  BY <1>2, NewStatus, BoundStays

LEMMA ArmSteps ==
  ASSUME PushInv, UpdateArms
  PROVE  DeviceStep
<1>1. /\ UNCHANGED <<host, cancel, told, down, boot, seen>>
      /\ update.phase = "idle" /\ offer # None
  BY DEF UpdateArms, hostVars
<1>2. ~update.cancel
  BY <1>1 DEF PushInv, Newer, Cancellable
<1>3. offer \in Versions /\ None \in Versions
  BY PushAssumption DEF PushInv, PushTyped, Versions, None
<1>4. CASE Direct
  <2>1. /\ offer' = None /\ Reported(bound, "accepted")
        /\ update' = [phase |-> "accepted", of |-> offer, cancel |-> FALSE]
    BY <1>4 DEF UpdateArms, Moves
  <2>2. "accepted" \in Words /\ "accepted" \in UpdatePhases
    BY DEF Words, UpdatePhases
  <2>3. UpdateStep
    <3>1. /\ update' \in [phase : UpdatePhases, of : Versions, cancel : BOOLEAN]
          /\ ~update'.cancel /\ update'.of = offer
      BY <1>3, <2>1, <2>2
    <3>2. QED
      BY <1>1, <1>2, <3>1 DEF UpdateStep
  <2>4. QED
    BY <1>1, <2>1, <2>2, <2>3, ReportedSteps, DownStays DEF DeviceStep, OfferStep
<1>5. CASE ~Direct
  <2>1. /\ offer' = offer /\ Reported(bound, "await-confirm")
        /\ update' = [phase |-> "confirm", of |-> None, cancel |-> FALSE]
    BY <1>5 DEF UpdateArms
  <2>2. "await-confirm" \in Words /\ "confirm" \in UpdatePhases /\ "confirm" \notin Installing
    BY DEF Words, UpdatePhases, Installing
  <2>3. UpdateStep
    <3>1. /\ update' \in [phase : UpdatePhases, of : Versions, cancel : BOOLEAN]
          /\ ~update'.cancel /\ update'.of = None /\ update'.phase = "confirm"
      BY <1>3, <2>1, <2>2
    <3>2. QED
      BY <2>2, <3>1 DEF UpdateStep
  <2>4. QED
    BY <1>1, <1>2, <2>1, <2>2, <2>3, ReportedSteps, DownStays DEF DeviceStep, OfferStep
<1>6. QED
  BY <1>4, <1>5

LEMMA ConfirmedSteps ==
  ASSUME PushInv, Confirmed
  PROVE  DeviceStep
<1>1. /\ UNCHANGED <<host, cancel, told, down, boot, seen>>
      /\ offer # None /\ ~update.cancel /\ offer' = None /\ Reported(bound, "accepted")
      /\ update' = [phase |-> "accepted", of |-> offer, cancel |-> FALSE]
  BY DEF Confirmed, Moves, hostVars
<1>2. "accepted" \in Words /\ "accepted" \in UpdatePhases /\ offer \in Versions
  BY DEF Words, UpdatePhases, PushInv, PushTyped
<1>3. /\ update' \in [phase : UpdatePhases, of : Versions, cancel : BOOLEAN]
      /\ ~update'.cancel /\ update'.of = offer
  BY <1>1, <1>2
<1>4. UpdateStep
  BY <1>1, <1>3 DEF UpdateStep
<1>5. QED
  BY <1>1, <1>2, <1>4, ReportedSteps, DownStays DEF DeviceStep, OfferStep

LEMMA StopSteps ==
  ASSUME PushInv, NEW p \in {"error", "cancelled"}, Stops(p)
  PROVE  DeviceStep
<1>1. /\ UNCHANGED <<host, cancel, told, down, boot, seen>>
      /\ offer' = None /\ Reported(bound, p)
      /\ update' = [phase |-> p, of |-> update.of, cancel |-> FALSE]
  BY DEF Stops, Moves, hostVars
<1>2. p \in Words /\ p \in UpdatePhases /\ p \notin Installing /\ update.of \in Versions
  BY DEF Words, UpdatePhases, Installing, PushInv, PushTyped
<1>3. /\ update' \in [phase : UpdatePhases, of : Versions, cancel : BOOLEAN]
      /\ ~update'.cancel /\ update'.of = update.of /\ update'.phase = p
  BY <1>1, <1>2
<1>4. UpdateStep
  BY <1>2, <1>3 DEF UpdateStep
<1>5. QED
  BY <1>1, <1>2, <1>4, ReportedSteps, DownStays DEF DeviceStep, OfferStep

LEMMA CancelAppliesSteps ==
  ASSUME PushInv, CancelApplies
  PROVE  DeviceStep
<1>1. /\ UNCHANGED <<host, cancel, told, down, boot, seen>> /\ offer' = None
      /\ update' = [update EXCEPT !.phase = "cancelled", !.cancel = FALSE]
  BY DEF CancelApplies, hostVars
<1>2. "cancelled" \in Words /\ "cancelled" \in UpdatePhases /\ "cancelled" \notin Installing
  BY DEF Words, UpdatePhases, Installing
<1>3. /\ update' \in [phase : UpdatePhases, of : Versions, cancel : BOOLEAN]
      /\ ~update'.cancel /\ update'.of = update.of /\ update'.phase = "cancelled"
  BY <1>1, <1>2 DEF PushInv, PushTyped
<1>4. UpdateStep
  BY <1>2, <1>3 DEF UpdateStep
<1>5. BoundStep /\ up' \in Seq(Answers) /\ \A m \in Inside(up') : m \in Inside(up) \/ NewAnswer(m)
  <2>1. CASE UNCHANGED <<bound, up>>
    <3>1. bound' \in [to : Versions, last : Words]
      BY <2>1 DEF PushInv, PushTyped
    <3>2. QED
      BY <1>1, <2>1, <3>1, BoundStays, UpStays
  <2>2. CASE bound' = [bound EXCEPT !.last = "cancelled"] /\ Told(bound.to, "cancelled", FALSE)
    <3>1. bound' \in [to : Versions, last : Words] /\ bound'.to = bound.to /\ bound.to \in Versions
      <4>1. bound' = [bound EXCEPT !.last = "cancelled"]
        BY <2>2
      <4>2. QED
        BY <1>2, <4>1 DEF PushInv, PushTyped
    <3>2. QED
      BY <1>1, <1>2, <2>2, <3>1, BoundStays, ToldSteps
  <2>3. QED
    BY <2>1, <2>2 DEF CancelApplies
<1>6. QED
  BY <1>1, <1>4, <1>5, DownStays DEF DeviceStep, OfferStep

LEMMA AdvanceSteps ==
  ASSUME PushInv, Advances
  PROVE  DeviceStep
<1>1. DOMAIN NextPhase = {"accepted", "authenticated", "download", "readback"}
  BY DEF NextPhase
<1>2. \A p \in DOMAIN NextPhase : p \in Installing /\ NextPhase[p] \in Installing
  BY DEF NextPhase, Installing
<1>3. Installing \subseteq UpdatePhases /\ Installing \subseteq Words
  BY DEF Installing, UpdatePhases, Words
<1> DEFINE p == NextPhase[update.phase]
<1>4. /\ UNCHANGED <<host, cancel, told, down, boot, seen>> /\ ~update.cancel
      /\ Reported(bound, p) /\ update' = [phase |-> p, of |-> update.of, cancel |-> FALSE]
      /\ offer' = None \/ offer' = offer
      /\ update.phase \in Installing /\ p \in Installing
  BY <1>2 DEF Advances, Moves, hostVars
<1> HIDE DEF p
<1>5. /\ update' \in [phase : UpdatePhases, of : Versions, cancel : BOOLEAN]
      /\ ~update'.cancel /\ update'.of = update.of
  BY <1>3, <1>4 DEF PushInv, PushTyped
<1>6. UpdateStep
  BY <1>4, <1>5 DEF UpdateStep
<1>7. p \in Words
  BY <1>3, <1>4
<1>8. QED
  BY <1>4, <1>6, <1>7, ReportedSteps, DownStays DEF DeviceStep, OfferStep

LEMMA OtherSteps ==
  ASSUME PushInv, \/ OfferLapses \/ TerminalOver \/ LinkLost
                  \/ /\ boot' = [boot EXCEPT !.health = "valid"]
                     /\ UNCHANGED <<hostVars, down, up, offer, seen, bound, update, losses>>
  PROVE  DeviceStep
<1>1. UNCHANGED <<bound, seen>> => BoundStep
  <2>1. bound \in [to : Versions, last : Words]
    BY DEF PushInv, PushTyped
  <2>2. QED
    BY <2>1, BoundStays
<1>2. CASE OfferLapses
  <2>1. /\ UNCHANGED <<host, cancel, told, down, up, boot, seen, bound, update>> /\ offer' = None
    BY <1>2 DEF OfferLapses, hostVars
  <2>2. QED
    BY <1>1, <2>1, UpdateStays, DownStays, UpStays DEF DeviceStep, OfferStep
<1>3. CASE LinkLost
  <2>1. /\ UNCHANGED <<host, cancel, told, boot, seen, bound, update>> /\ offer' = None
        /\ down' = <<>> /\ up' = <<>>
    BY <1>3 DEF LinkLost, hostVars
  <2>2. QED
    BY <1>1, <2>1, UpdateStays, DownStays, UpStays DEF DeviceStep, OfferStep
<1>4. CASE TerminalOver
  <2>1. /\ UNCHANGED <<host, cancel, told, down, up, boot, offer, seen, bound>>
        /\ update' = [update EXCEPT !.phase = "idle"] /\ update.phase \in {"cancelled", "error"}
    BY <1>4 DEF TerminalOver, hostVars
  <2>2. "idle" \in UpdatePhases /\ "idle" \notin Installing
    BY DEF UpdatePhases, Installing
  <2>3. /\ update' \in [phase : UpdatePhases, of : Versions, cancel : BOOLEAN]
        /\ update'.cancel = update.cancel /\ update'.of = update.of /\ update'.phase = "idle"
    BY <2>1, <2>2 DEF PushInv, PushTyped
  <2>4. ~update.cancel
    BY <2>1 DEF PushInv, Newer, Cancellable
  <2>5. UpdateStep
    BY <2>2, <2>3, <2>4 DEF UpdateStep
  <2>6. QED
    BY <1>1, <2>1, <2>3, <2>5, DownStays, UpStays DEF DeviceStep, OfferStep
<1>5. CASE boot' = [boot EXCEPT !.health = "valid"]
           /\ UNCHANGED <<hostVars, down, up, offer, seen, bound, update, losses>>
  BY <1>1, <1>5, UpdateStays, DownStays, UpStays DEF DeviceStep, OfferStep, hostVars
<1>6. QED
  BY <1>2, <1>3, <1>4, <1>5

--------------------------------------------------------------------------------
(* A restart, and what the coordinator does.                               *)

LEMMA RestartStepKeeps ==
  ASSUME PushInv, Restarted,
         boot' \in [version : Versions, health : {"valid", "monitoring"}, back : Versions],
         boot'.back <= boot'.version,
         \/ boot'.version \in {boot.version, boot.back}
         \/ boot'.version = update.of /\ update.phase = "boot-committed",
         boot'.back \in {boot.version, boot.back},
         host.end = "success" => boot'.version = boot.version /\ boot'.health = "valid"
  PROVE  PushInv'
<1>1. /\ host' = host /\ cancel' = cancel /\ told' = told /\ offer' = None /\ seen' = {}
      /\ bound' = Unbound /\ update' = NoUpdate /\ down' = <<>> /\ up' = <<>>
  BY DEF Restarted, hostVars
<1>2. Inside(up') = {} /\ Inside(down') = {}
  BY <1>1, NothingInside
<1>3. /\ Unbound \in [to : Versions, last : Words] /\ Unbound.to = None
      /\ NoUpdate \in [phase : UpdatePhases, of : Versions, cancel : BOOLEAN]
      /\ NoUpdate.of = None /\ NoUpdate.phase = "idle" /\ NoUpdate.cancel = FALSE
      /\ None \in Versions
  <2>1. None \in Versions /\ "none" \in Words /\ "idle" \in UpdatePhases /\ FALSE \in BOOLEAN
    BY PushAssumption DEF None, Versions, Words, UpdatePhases
  <2>2. QED
    BY <2>1 DEF Unbound, NoUpdate
<1>4. PushTyped'
  BY <1>1, <1>3, NothingInside DEF PushInv, PushTyped
<1>5. Fresh' /\ Begun'
  <2>1. None <= host.s
    BY DEF None, PushInv, PushTyped, Versions
  <2>2. QED
    BY <1>1, <1>2, <1>3, <2>1 DEF Fresh, Begun, Inside
<1>6. Newer'
  BY <1>1, <1>3 DEF Newer, Installing
<1>7. SuccessIsTrue'
  BY <1>1 DEF PushInv, SuccessIsTrue
<1>8. Cancelled'
  <2>1. SUFFICES ASSUME NEW s \in Sessions
                 PROVE  /\ Applied(s)' => Buried(s)'
                        /\ Heard(s)' => Over(s)'
                        /\ Applied(s)' => Over(s)' \/ s \in seen'
    BY DEF Cancelled
  <2>2. Heard(s)' => Heard(s) /\ Over(s)'
    BY <1>1 DEF PushInv, Cancelled, Heard, Over
  <2>3. Applied(s)' => Heard(s)'
    BY <1>2 DEF Applied, Heard, Inside
  <2>4. ASSUME Heard(s) PROVE Buried(s)'
    <3>1. Buried(s)
      BY <2>4 DEF PushInv, Cancelled, Applied
    <3>2. boot'.version # s
      <4>1. CASE boot'.version \in {boot.version, boot.back}
        BY <3>1, <4>1 DEF Buried
      <4>2. CASE boot'.version = update.of /\ update.phase = "boot-committed"
        <5>1. ~update.cancel
          BY <4>2 DEF PushInv, Newer, Cancellable
        <5>2. QED
          BY <3>1, <4>2, <5>1 DEF Buried, Installing
      <4>3. QED
        BY <4>1, <4>2
    <3>3. boot'.back # s
      BY <3>1 DEF Buried
    <3>4. s # None
      BY DEF Sessions, None
    <3>5. QED
      BY <1>1, <1>2, <1>3, <3>2, <3>3, <3>4 DEF Buried, Inside, Installing
  <2>5. QED
    BY <2>2, <2>3, <2>4
<1>9. QED
  BY <1>4, <1>5, <1>6, <1>7, <1>8 DEF PushInv

LEMMA RestartsKeep ==
  ASSUME PushInv, RestartsInto \/ (boot.health = "monitoring" /\ Restarted
                                   /\ boot' = [boot EXCEPT !.health = "valid", !.version = boot.back])
  PROVE  PushInv'
<1>1. /\ boot \in [version : Versions, health : {"valid", "monitoring"}, back : Versions]
      /\ update.of \in Versions /\ boot.back <= boot.version
  BY DEF PushInv, PushTyped, Newer
<1>2. CASE RestartsInto
  <2>1. /\ update.phase = "boot-committed" /\ Restarted
        /\ boot' = [version |-> update.of, health |-> "monitoring", back |-> boot.version]
    BY <1>2 DEF RestartsInto
  <2>2. update.of > boot.version /\ update.of <= host.s
    BY <2>1 DEF PushInv, Newer, Begun, Installing
  <2>3. host.end # "success"
    <3>1. host.s \in Nat /\ boot.version \in Nat /\ update.of \in Nat
      BY <1>1 DEF PushInv, PushTyped, Versions
    <3>2. QED
      BY <2>2, <3>1 DEF PushInv, SuccessIsTrue
  <2>4. boot.version <= update.of
    BY <1>1, <2>2 DEF Versions
  <2>5. QED
    BY <1>1, <2>1, <2>3, <2>4, RestartStepKeeps
<1>3. CASE boot.health = "monitoring" /\ Restarted
           /\ boot' = [boot EXCEPT !.health = "valid", !.version = boot.back]
  <2>1. boot' = [boot EXCEPT !.health = "valid", !.version = boot.back]
    BY <1>3
  <2>2. /\ boot' \in [version : Versions, health : {"valid", "monitoring"}, back : Versions]
        /\ boot'.version = boot.back /\ boot'.back = boot.back
    BY <1>1, <2>1
  <2>3. boot.back <= boot.back
    BY <1>1 DEF Versions
  <2>4. host.end # "success"
    BY <1>3 DEF PushInv, SuccessIsTrue
  <2>5. QED
    BY <1>3, <2>2, <2>3, <2>4, RestartStepKeeps
<1>4. QED
  BY <1>2, <1>3

HostTyped ==
  /\ host \in [at : Places, s : Versions, offers : Nat, accepted : BOOLEAN,
               irreversible : BOOLEAN, end : Words]
  /\ host.at # "idle" => host.s # None

HostStep ==
  /\ UNCHANGED <<boot, offer, seen, bound, update>>
  /\ HostTyped' /\ cancel' \in {"none", "wanted", "sent", "applied", "refused"} /\ told' \subseteq Sessions
  /\ up' \in Seq(Answers) /\ Inside(up') \subseteq Inside(up)
  /\ down' \in Seq(Asks)
  /\ \A m \in Inside(down') :
       \/ m \in Inside(down)
       \/ m.s = host'.s /\ (m.kind = "offer" => host.at = "offer" /\ host'.s = host.s)
  /\ host.s <= host'.s /\ \A s \in Sessions : Over(s) => Over(s)'
  /\ \A s \in Sessions : Heard(s)' => (Heard(s) /\ Over(s)) \/ (Applied(s) /\ Over(s)')
  /\ host'.end = "success" => \/ host.end = "success" /\ host'.s = host.s
                              \/ \E m \in Inside(up) : m.version = host'.s /\ m.health = "valid"

LEMMA HostStepKeeps ==
  ASSUME PushInv, HostStep
  PROVE  PushInv'
<1>1. UNCHANGED <<boot, offer, seen, bound, update>> /\ host.s <= host'.s
  BY DEF HostStep
<1>2. host.s \in Nat /\ host'.s \in Nat /\ offer \in Nat /\ update.of \in Nat
  BY DEF PushInv, PushTyped, HostStep, HostTyped, Versions
<1>3. PushTyped'
  BY <1>1 DEF PushInv, PushTyped, HostStep, HostTyped
<1>4. Fresh'
  <2>1. Inside(up') \subseteq Inside(up) /\ boot' = boot
    BY DEF HostStep
  <2>2. QED
    BY <2>1 DEF PushInv, Fresh, Inside
<1>5. Begun'
  <2>1. SUFFICES ASSUME NEW m \in Inside(down') PROVE m.s <= host'.s
    BY <1>1, <1>2 DEF PushInv, Begun, Inside
  <2>2. CASE m \in Inside(down)
    <3>1. PushTyped /\ m.s <= host.s
      BY <2>2 DEF PushInv, Begun
    <3>2. m.s \in Nat
      BY <2>2, <3>1, AsksUnderWay DEF Asks, Sessions
    <3>3. QED
      BY <1>1, <1>2, <3>1, <3>2
  <2>3. CASE m.s = host'.s
    BY <1>2, <2>3
  <2>4. QED
    BY <2>2, <2>3 DEF HostStep
<1>6. Newer'
  BY <1>1 DEF PushInv, Newer, Cancellable
<1>7. SuccessIsTrue'
  BY <1>1 DEF PushInv, Fresh, SuccessIsTrue, HostStep
<1>8. Cancelled'
  <2>1. SUFFICES ASSUME NEW s \in Sessions
                 PROVE  /\ Applied(s)' => Buried(s)'
                        /\ Heard(s)' => Over(s)'
                        /\ Applied(s)' => Over(s)' \/ s \in seen'
    BY DEF Cancelled
  <2>2. Heard(s)' => Applied(s) /\ Over(s)'
    BY DEF HostStep, Applied
  <2>3. Applied(s)' => Applied(s)
    <3>1. Inside(up') \subseteq Inside(up)
      BY DEF HostStep
    <3>2. QED
      BY <2>2, <3>1 DEF Applied, Inside
  <2>4. ASSUME Applied(s) PROVE Buried(s)' /\ (Over(s)' \/ s \in seen')
    <3>1. Buried(s) /\ (Over(s) \/ s \in seen)
      BY <2>4 DEF PushInv, Cancelled
    <3>2. Over(s)' \/ s \in seen'
      BY <1>1, <3>1 DEF HostStep
    <3>3. s \in seen' \/ \A m \in Inside(down') : ~(m.kind = "offer" /\ m.s = s)
      <4>1. SUFFICES ASSUME s \notin seen, NEW m \in Inside(down'), m.kind = "offer", m.s = s
                     PROVE  FALSE
        BY <1>1
      <4>2. m \notin Inside(down)
        BY <3>1, <4>1 DEF Buried
      <4>3. host.at = "offer" /\ host.s = s
        BY <4>1, <4>2 DEF HostStep
      <4>4. ~Over(s)
        BY <1>2, <4>3 DEF Over
      <4>5. QED
        BY <3>1, <4>1, <4>4
    <3>4. Buried(s)'
      BY <1>1, <3>1, <3>3 DEF Buried, Inside
    <3>5. QED
      BY <3>2, <3>4
  <2>5. QED
    BY <2>2, <2>3, <2>4
<1>9. QED
  BY <1>3, <1>4, <1>5, <1>6, <1>7, <1>8 DEF PushInv

LEMMA AskAdds ==
  ASSUME PushTyped, NEW k \in {"probe", "offer", "cancel"}, NEW s \in Sessions,
         down' = Append(down, [kind |-> k, s |-> s])
  PROVE  /\ down' \in Seq(Asks)
         /\ \A m \in Inside(down') : m \in Inside(down) \/ (m.s = s /\ m.kind = k)
<1> DEFINE x == [kind |-> k, s |-> s]
<1>1. x \in Asks /\ x.s = s /\ x.kind = k
  BY DEF Asks
<1>2. down' = Append(down, x) /\ down \in Seq(Asks)
  BY DEF PushTyped
<1> HIDE DEF x
<1>3. Append(down, x) \in Seq(Asks) /\ Inside(Append(down, x)) = Inside(down) \cup {x}
  BY ONLY <1>1, <1>2, AppendIsInside
<1>4. QED
  BY <1>1, <1>2, <1>3

(* A step of the coordinator that leaves its session, what it has heard of  *)
(* cancels and how it ended as they are, or runs on.                       *)
LEMMA RunsOn ==
  ASSUME PushInv, UNCHANGED <<boot, offer, seen, bound, update, told>>, HostTyped',
         host'.s = host.s, host'.at = host.at \/ (host.at # "ended"),
         host'.end = "success" => host.end = "success",
         cancel' \in {"none", "wanted", "sent", "refused"} \/ cancel' = cancel,
         up' \in Seq(Answers), Inside(up') \subseteq Inside(up),
         down' \in Seq(Asks),
         \A m \in Inside(down') :
           \/ m \in Inside(down)
           \/ m.s = host.s /\ (m.kind = "offer" => host.at = "offer")
  PROVE  HostStep
<1>1. cancel' \in {"none", "wanted", "sent", "applied", "refused"} /\ told' \subseteq Sessions
  BY DEF PushInv, PushTyped
<1>2. host.s <= host'.s
  BY DEF PushInv, PushTyped, Versions
<1>3. \A s \in Sessions : Over(s) => Over(s)'
  BY DEF Over
<1>4. \A s \in Sessions : Heard(s)' => Heard(s) /\ Over(s)
  <2>1. \A s \in Sessions : Heard(s)' => Heard(s)
    BY DEF Heard
  <2>2. QED
    BY <2>1 DEF PushInv, Cancelled
<1>5. QED
  BY <1>1, <1>2, <1>3, <1>4 DEF HostStep

LEMMA HostIsTyped == PushInv => HostTyped /\ PushTyped
  BY DEF PushInv, PushTyped, HostTyped

LEMMA HostEnds ==
  ASSUME HostTyped, NEW how \in Words, Ends(how), host.at # "idle"
  PROVE  HostTyped' /\ host'.s = host.s /\ host'.at = "ended" /\ host'.end = how
<1>1. "ended" \in Places
  BY DEF Places
<1>2. QED
  BY <1>1 DEF HostTyped, Ends

LEMMA HostMovesTo ==
  ASSUME HostTyped, NEW p \in Places, host' = [host EXCEPT !.at = p], host.at # "idle"
  PROVE  HostTyped' /\ host'.s = host.s /\ host'.at = p /\ host'.end = host.end
  BY DEF HostTyped

LEMMA HostFollows ==
  ASSUME HostTyped, NEW m \in Answers, Follows(m), host.at # "idle"
  PROVE  HostTyped' /\ host'.s = host.s /\ host'.at = "waiting" /\ host'.end = host.end
<1> DEFINE a == host.accepted \/ m.phase \in Accepted
           b == host.irreversible \/ m.phase \in Irreversible
<1>1. a \in BOOLEAN /\ b \in BOOLEAN
  OBVIOUS
<1>2. host' = [host EXCEPT !.at = "waiting", !.accepted = a, !.irreversible = b]
  BY DEF Follows
<1> HIDE DEF a, b
<1>3. "waiting" \in Places
  BY DEF Places
<1>4. QED
  BY <1>1, <1>2, <1>3 DEF HostTyped

LEMMA StartSteps ==
  ASSUME PushInv, StartPush
  PROVE  HostStep
<1>1. /\ UNCHANGED <<boot, offer, seen, bound, update, told, up>>
      /\ host' = [QuietHost EXCEPT !.at = "probing", !.s = host.s + 1] /\ host.s < LastSession
      /\ host.at \in {"idle", "ended"} /\ cancel' = "none"
      /\ down' = Append(down, [kind |-> "probe", s |-> host.s + 1])
  BY DEF StartPush, deviceVars
<1>2. host.s \in Nat /\ LastSession \in Nat
  BY PushAssumption DEF PushInv, PushTyped, Versions
<1>3. host.s + 1 \in Sessions /\ host.s + 1 \in Versions
  BY <1>1, <1>2 DEF Sessions, Versions
<1>4. HostTyped' /\ host'.s = host.s + 1 /\ host'.end = "none"
  <2>1. "probing" \in Places /\ "none" \in Words /\ 0 \in Nat /\ host.s + 1 # None
    BY <1>2 DEF Places, Words, None
  <2>2. QED
    BY <1>1, <1>3, <2>1 DEF HostTyped, QuietHost
<1>5. down' \in Seq(Asks) /\ \A m \in Inside(down') : m \in Inside(down) \/ (m.s = host'.s /\ m.kind = "probe")
  BY <1>1, <1>3, <1>4, AskAdds, HostIsTyped
<1>6. up' \in Seq(Answers) /\ Inside(up') \subseteq Inside(up)
  BY <1>1, UpStays
<1>7. told' \subseteq Sessions
  BY <1>1 DEF PushInv, PushTyped
<1>8. \A s \in Sessions : Over(s) => Over(s)'
  BY <1>2, <1>4 DEF Over, Sessions
<1>9. \A s \in Sessions : Heard(s)' => Heard(s) /\ Over(s)
  <2>1. \A s \in Sessions : Heard(s)' => Heard(s)
    BY <1>1 DEF Heard
  <2>2. QED
    BY <2>1 DEF PushInv, Cancelled
<1>10. host.s <= host'.s
  BY <1>2, <1>4
<1>11. QED
  BY <1>1, <1>4, <1>5, <1>6, <1>7, <1>8, <1>9, <1>10 DEF HostStep

LEMMA SendOfferSteps ==
  ASSUME PushInv, SendOffer
  PROVE  HostStep
<1>1. /\ UNCHANGED <<boot, offer, seen, bound, update, cancel, told, up>>
      /\ host.at = "offer" /\ down' = Append(down, [kind |-> "offer", s |-> host.s])
      /\ host' = [host EXCEPT !.at = "offering", !.offers = @ + 1]
  BY DEF SendOffer, Sends, deviceVars
<1>2. HostTyped /\ PushTyped
  BY HostIsTyped
<1>3. host.s \in Sessions
  BY <1>1, <1>2 DEF HostTyped, Sessions, Versions, None
<1>4. HostTyped' /\ host'.s = host.s /\ host'.end = host.end
  <2>1. "offering" \in Places
    BY DEF Places
  <2>2. host.offers + 1 \in Nat /\ host' = [host EXCEPT !.at = "offering", !.offers = host.offers + 1]
    BY <1>1, <1>2 DEF HostTyped
  <2>3. host.s # None
    BY <1>3 DEF Sessions, None
  <2>4. QED
    BY <1>2, <2>1, <2>2, <2>3 DEF HostTyped
<1>5. down' \in Seq(Asks) /\ \A m \in Inside(down') : m \in Inside(down) \/ (m.s = host.s /\ m.kind = "offer")
  BY <1>1, <1>2, <1>3, AskAdds
<1>6. up' \in Seq(Answers) /\ Inside(up') \subseteq Inside(up)
  BY <1>1, UpStays
<1>7. QED
  BY <1>1, <1>4, <1>5, <1>6, RunsOn

LEMMA SmallHostSteps ==
  ASSUME PushInv, Foreign \/ CancelCalled \/ Reprobe \/ SendCancel
  PROVE  HostStep
<1>1. HostTyped /\ PushTyped
  BY HostIsTyped
<1>2. UNCHANGED <<boot, offer, seen, bound, update, told, host>>
  BY DEF Foreign, CancelCalled, Reprobe, SendCancel, hostVars, deviceVars
<1>3. HostTyped'
  BY <1>1, <1>2 DEF HostTyped
<1>4. cancel' \in {"none", "wanted", "sent", "refused"} \/ cancel' = cancel
  BY DEF Foreign, CancelCalled, Reprobe, SendCancel, hostVars
<1>5. up' \in Seq(Answers) /\ Inside(up') \subseteq Inside(up)
  <2>1. up' = up \/ (up # <<>> /\ up' = Tail(up))
    BY DEF Foreign, CancelCalled, Reprobe, SendCancel
  <2>2. QED
    BY <2>1, UpStays
<1>6. /\ down' \in Seq(Asks)
      /\ \A m \in Inside(down') : m \in Inside(down) \/ (m.s = host.s /\ m.kind # "offer")
  <2>1. CASE down' = down
    BY <2>1, DownStays
  <2>2. CASE \E k \in {"probe", "cancel"} : down' = Append(down, [kind |-> k, s |-> host.s]) /\ host.at # "idle"
    <3>1. PICK k \in {"probe", "cancel"} : down' = Append(down, [kind |-> k, s |-> host.s])
      BY <2>2
    <3>2. host.s \in Sessions
      BY <1>1, <2>2 DEF HostTyped, Sessions, Versions, None
    <3>3. QED
      BY <1>1, <3>1, <3>2, AskAdds
  <2>3. QED
    BY <2>1, <2>2 DEF Foreign, CancelCalled, Reprobe, SendCancel, Sends
<1>7. QED
  BY <1>2, <1>3, <1>4, <1>5, <1>6, RunsOn

LEMMA TimeoutSteps ==
  ASSUME PushInv, Timeout
  PROVE  HostStep
<1>1. UNCHANGED <<boot, offer, seen, bound, update, cancel, told, down, up>> /\ host.at \notin {"idle", "ended"}
  BY DEF Timeout, deviceVars
<1>2. HostTyped' /\ host'.s = host.s /\ (host'.end = "success" => host.end = "success")
  <2>1. CASE host' = [host EXCEPT !.at = "offer"]
    <3>1. "offer" \in Places
      BY DEF Places
    <3>2. QED
      BY <1>1, <2>1, <3>1, HostMovesTo, HostIsTyped
  <2>2. CASE Ends("timeout")
    <3>1. "timeout" \in Words
      BY DEF Words
    <3>2. QED
      BY <1>1, <2>2, <3>1, HostEnds, HostIsTyped
  <2>3. QED
    BY <2>1, <2>2 DEF Timeout
<1>3. up' \in Seq(Answers) /\ Inside(up') \subseteq Inside(up) /\ down' \in Seq(Asks) /\ Inside(down') \subseteq Inside(down)
  BY <1>1, UpStays, DownStays
<1>4. QED
  BY <1>1, <1>2, <1>3, RunsOn

LEMMA ReturnSteps ==
  ASSUME PushInv, CancelReturns
  PROVE  HostStep
<1>1. /\ UNCHANGED <<boot, offer, seen, bound, update, down, up, host>>
      /\ told' = told \cup {host.s} /\ cancel' = "none" /\ cancel = "applied" /\ host.at = "ended"
  BY DEF CancelReturns, deviceVars
<1>2. HostTyped /\ PushTyped
  BY HostIsTyped
<1>3. HostTyped' /\ host.s \in Sessions
  BY <1>1, <1>2 DEF HostTyped, Sessions, Versions, None
<1>4. told' \subseteq Sessions
  BY <1>1, <1>2, <1>3 DEF PushTyped
<1>5. up' \in Seq(Answers) /\ Inside(up') \subseteq Inside(up) /\ down' \in Seq(Asks) /\ Inside(down') \subseteq Inside(down)
  BY <1>1, UpStays, DownStays
<1>6. \A s \in Sessions : Heard(s)' => Heard(s) /\ Over(s)
  <2>1. \A s \in Sessions : Heard(s)' => Heard(s)
    BY <1>1 DEF Heard
  <2>2. QED
    BY <2>1 DEF PushInv, Cancelled
<1>7. host.s <= host'.s /\ \A s \in Sessions : Over(s) => Over(s)'
  BY <1>1, <1>3 DEF Over, Sessions
<1>8. QED
  BY <1>1, <1>3, <1>4, <1>5, <1>6, <1>7 DEF HostStep

LEMMA TakeSteps ==
  ASSUME PushInv, TakeStatus
  PROVE  HostStep
<1> DEFINE m == Head(up)
<1>1. HostTyped /\ PushTyped
  BY HostIsTyped
<1>2. /\ UNCHANGED <<boot, offer, seen, bound, update, told>>
      /\ up # <<>> /\ m.s = host.s /\ host.at \in {"probing", "offering", "waiting"}
      /\ up' = Tail(up) /\ cancel' = CancelAfter(m)
  BY DEF TakeStatus, deviceVars
<1>3. /\ m \in Inside(up) /\ m \in Answers
      /\ up' \in Seq(Answers) /\ Inside(up') \subseteq Inside(up)
  BY <1>1, <1>2, AnswersUnderWay, UpStays
<1>4. host.s \in Sessions
  BY <1>1, <1>2 DEF HostTyped, Sessions, Versions, None
<1>5. cancel' \in {"none", "wanted", "sent", "applied", "refused"}
      /\ (cancel' = "applied" => cancel = "applied" \/ m.applied)
  BY <1>1, <1>2 DEF CancelAfter, PushTyped
<1>6. m.applied => m.phase = "cancelled"
  BY <1>3 DEF PushInv, Fresh
<1>7. CASE m.phase = "cancelled" /\ ~m.applied
  <2>1. host' = host /\ down' = Append(down, [kind |-> "probe", s |-> host.s])
    BY <1>7 DEF TakeStatus, Sends
  <2>2. HostTyped'
    BY <1>1, <2>1 DEF HostTyped
  <2>3. down' \in Seq(Asks) /\ \A n \in Inside(down') : n \in Inside(down) \/ (n.s = host.s /\ n.kind = "probe")
    BY <1>1, <1>4, <2>1, AskAdds
  <2>4. cancel' \in {"none", "wanted", "sent", "refused"} \/ cancel' = cancel
    BY <1>5, <1>7
  <2>5. QED
    BY <1>2, <1>3, <2>1, <2>2, <2>3, <2>4, RunsOn
<1>8. CASE ~(m.phase = "cancelled" /\ ~m.applied)
  <2>1. down' = down
    BY <1>8 DEF TakeStatus
  <2>2. down' \in Seq(Asks) /\ Inside(down') \subseteq Inside(down)
    BY <2>1, DownStays

  <2>3. /\ HostTyped' /\ host'.s = host.s
        /\ host'.end = "success" => host.end = "success" \/ (m.version = host.s /\ m.health = "valid")
        /\ m.phase = "cancelled" => host'.at = "ended"
    <3> DEFINE G == /\ HostTyped' /\ host'.s = host.s
                    /\ host'.end = "success" => host.end = "success" \/ (m.version = host.s /\ m.health = "valid")
                    /\ m.phase = "cancelled" => host'.at = "ended"
    <3>1. host.at # "idle" /\ m.phase \in Words
      BY <1>2, <1>3 DEF Answers
    <3>2. ASSUME NEW how \in Words, Ends(how), how # "success" \/ Succeeds(m)
          PROVE  G
      BY <1>1, <3>1, <3>2, HostEnds DEF Succeeds
    <3>3. ASSUME NEW p \in Places, host' = [host EXCEPT !.at = p], m.phase # "cancelled"
          PROVE  G
      BY <1>1, <3>1, <3>3, HostMovesTo
    <3>4. ASSUME Follows(m), m.phase # "cancelled"
          PROVE  G
      BY <1>1, <1>3, <3>1, <3>4, HostFollows
    <3>5. ASSUME host' = host, m.phase # "cancelled"
          PROVE  G
      BY <1>1, <3>5 DEF HostTyped
    <3> HIDE DEF G
    <3> SUFFICES G
      BY DEF G
    <3>6. /\ "error" \in Words /\ "success" \in Words /\ "rollback" \in Words /\ "timeout" \in Words
          /\ "offer" \in Places
          /\ "cancelled" \in Refusals /\ "running" \notin Refusals /\ "success" \notin Refusals
      BY DEF Words, UpdatePhases, Places, Refusals
    <3>7. CASE host.at = "probing"
      <4>1. \/ m.phase = "running" /\ host' = [host EXCEPT !.at = "offer"]
            \/ Ends("error")
        BY <1>8, <3>7 DEF TakeStatus, Probed
      <4>2. QED
        BY <3>2, <3>3, <3>6, <4>1
    <3>8. CASE host.at # "probing" /\ m.phase \in Refusals
      <4>1. Ends(m.phase)
        <5>1. Answered(m)
          BY <1>8, <3>8 DEF TakeStatus
        <5>2. ~Succeeds(m)
          BY <3>6, <3>8 DEF Succeeds
        <5>3. QED
          BY <3>6, <3>8, <5>1, <5>2 DEF Answered
      <4>2. QED
        BY <3>1, <3>2, <3>6, <3>8, <4>1
    <3>9. CASE host.at # "probing" /\ m.phase \notin Refusals
      <4>1. \/ (Succeeds(m) /\ Ends("success")) \/ Ends("rollback") \/ Ends("timeout")
            \/ host' = host \/ host' = [host EXCEPT !.at = "offer"] \/ Follows(m)
        <5>1. Answered(m)
          BY <1>8, <3>9 DEF TakeStatus
        <5>2. \/ (Succeeds(m) /\ Ends("success")) \/ OldRunning \/ Follows(m)
          BY <3>9, <5>1 DEF Answered
        <5>3. OldRunning => \/ Ends("rollback") \/ Ends("timeout")
                           \/ host' = host \/ host' = [host EXCEPT !.at = "offer"]
          <6>1. host.offers \in Nat /\ Offers \in Nat
            BY <1>1, PushAssumption DEF HostTyped
          <6>2. host.offers < Offers \/ host.offers >= Offers
            BY <6>1
          <6>3. QED
            BY <6>2 DEF OldRunning
        <5>4. QED
          BY <5>2, <5>3
      <4>2. m.phase # "cancelled"
        BY <3>6, <3>9
      <4>3. QED
        BY <3>2, <3>3, <3>4, <3>5, <3>6, <4>1, <4>2
    <3>10. QED
      BY <3>7, <3>8, <3>9
  <2>4. \A s \in Sessions : Heard(s)' => (Heard(s) /\ Over(s)) \/ (Applied(s) /\ Over(s)')
    <3>1. SUFFICES ASSUME NEW s \in Sessions, Heard(s)' PROVE (Heard(s) /\ Over(s)) \/ (Applied(s) /\ Over(s)')
      OBVIOUS
    <3>2. CASE Heard(s)
      BY <3>2 DEF PushInv, Cancelled
    <3>3. CASE ~Heard(s)
      <4>1. s = host.s /\ m.applied
        BY <1>2, <1>5, <2>3, <3>1, <3>3 DEF Heard
      <4>2. Applied(s)
        BY <1>2, <1>3, <4>1 DEF Applied
      <4>3. Over(s)'
        BY <1>6, <2>3, <4>1 DEF Over
      <4>4. QED
        BY <4>2, <4>3
    <3>4. QED
      BY <3>2, <3>3
  <2>5. host.s <= host'.s /\ \A s \in Sessions : Over(s) => Over(s)'
    <3>1. host.s \in Nat
      BY <1>4 DEF Sessions
    <3>2. QED
      BY <1>2, <2>3, <3>1 DEF Over
  <2>6. told' \subseteq Sessions
    BY <1>1, <1>2 DEF PushTyped
  <2>7. host'.end = "success" => (host.end = "success" /\ host'.s = host.s)
                                 \/ \E n \in Inside(up) : n.version = host'.s /\ n.health = "valid"
    BY <1>3, <2>3
  <2>8. QED
    BY <1>2, <1>3, <1>5, <2>2, <2>3, <2>4, <2>5, <2>6, <2>7 DEF HostStep
<1>9. QED
  BY <1>7, <1>8

--------------------------------------------------------------------------------

LEMMA PushInvInductive == PushInv /\ [PushNext]_pushVars => PushInv'
<1>1. ASSUME PushInv, PushNext PROVE PushInv'
  <2>1. CASE DeviceReads
    BY <1>1, <2>1, ProbedSteps, OfferedSteps, CancelSteps, DeviceStepKeeps DEF DeviceReads
  <2>2. CASE UpdateMoves
    <3>1. CASE BootSettles
      BY <1>1, <3>1, OtherSteps, RestartsKeep, DeviceStepKeeps DEF BootSettles
    <3>2. CASE RestartsInto
      BY <1>1, <3>2, RestartsKeep
    <3>3. CASE \E p \in {"error", "cancelled"} : Stops(p)
      BY <1>1, <3>3, StopSteps, DeviceStepKeeps
    <3>4. CASE UpdateArms \/ CancelApplies \/ Advances \/ TerminalOver
      BY <1>1, <3>4, ArmSteps, CancelAppliesSteps, AdvanceSteps, OtherSteps, DeviceStepKeeps
    <3>5. QED
      BY <2>2, <3>1, <3>2, <3>3, <3>4 DEF UpdateMoves
  <2>3. CASE OfferLapses \/ Confirmed \/ LinkLost
    BY <1>1, <2>3, OtherSteps, ConfirmedSteps, DeviceStepKeeps
  <2>4. CASE HostMoves \/ StartPush \/ Timeout \/ CancelCalled
    BY <1>1, <2>4, SendOfferSteps, SmallHostSteps, TakeSteps, ReturnSteps, StartSteps, TimeoutSteps,
       HostStepKeeps DEF HostMoves
  <2>5. QED
    BY <1>1, <2>1, <2>2, <2>3, <2>4 DEF PushNext
<1>2. ASSUME PushInv, UNCHANGED pushVars PROVE PushInv'
  <2>1. UNCHANGED <<host, cancel, told, down, up, boot, offer, seen, bound, update>>
    BY <1>2 DEF pushVars
  <2>2. PushTyped' /\ Newer' /\ SuccessIsTrue'
    BY <1>2, <2>1 DEF PushInv, PushTyped, Newer, Cancellable, SuccessIsTrue
  <2>3. Fresh' /\ Begun'
    BY <1>2, <2>1 DEF PushInv, Fresh, Begun, Inside
  <2>4. Cancelled'
    BY <1>2, <2>1 DEF PushInv, Cancelled, Applied, Heard, Over, Buried, Inside
  <2>5. QED
    BY <2>2, <2>3, <2>4 DEF PushInv
<1>3. QED
  BY <1>1, <1>2

LEMMA PushStarts == PushInit => PushInv
<1>1. SUFFICES ASSUME PushInit PROVE PushInv
  OBVIOUS
<1>2. /\ host = QuietHost /\ cancel = "none" /\ told = {} /\ down = <<>> /\ up = <<>>
      /\ boot = [version |-> 0, health |-> "valid", back |-> 0]
      /\ offer = None /\ seen = {} /\ bound = Unbound /\ update = NoUpdate
  BY <1>1 DEF PushInit
<1>3. Inside(up) = {} /\ Inside(down) = {} /\ down \in Seq(Asks) /\ up \in Seq(Answers)
  BY <1>2, NothingInside
<1>4. None \in Versions /\ "none" \in Words /\ "idle" \in UpdatePhases /\ "idle" \in Places /\ FALSE \in BOOLEAN
  BY PushAssumption DEF None, Versions, Words, UpdatePhases, Places
<1>5. /\ host \in [at : Places, s : Versions, offers : Nat, accepted : BOOLEAN,
                   irreversible : BOOLEAN, end : Words]
      /\ host.at = "idle" /\ host.s = None /\ host.end = "none"
  BY <1>2, <1>4 DEF QuietHost
<1>6. /\ update \in [phase : UpdatePhases, of : Versions, cancel : BOOLEAN]
      /\ update.phase = "idle" /\ update.of = None /\ update.cancel = FALSE
      /\ bound \in [to : Versions, last : Words] /\ bound.to = None
  BY <1>2, <1>4 DEF NoUpdate, Unbound
<1>7. boot \in [version : Versions, health : {"valid", "monitoring"}, back : Versions]
  BY <1>2, <1>4 DEF None
<1>8. PushTyped
  BY <1>2, <1>3, <1>4, <1>5, <1>6, <1>7 DEF PushTyped
<1>9. Fresh /\ Begun
  BY <1>2, <1>3, <1>5, <1>6 DEF Fresh, Begun, None
<1>10. Newer
  BY <1>2, <1>6 DEF Newer, Installing
<1>11. SuccessIsTrue /\ Cancelled
  BY <1>2, <1>3, <1>5 DEF SuccessIsTrue, Cancelled, Applied, Heard
<1>12. QED
  BY <1>8, <1>9, <1>10, <1>11 DEF PushInv

LEMMA PushSays == PushInv => PushIsTrue
<1>1. SUFFICES ASSUME PushInv, NEW s \in told
               PROVE  /\ boot.version # s
                      /\ update.of = s => update.cancel \/ update.phase \notin (DOMAIN NextPhase \cup {"boot-committed"})
                      /\ offer = s => update.cancel
  BY DEF PushIsTrue, CancelIsFinal, PushInv
<1>2. s \in Sessions /\ Applied(s)
  BY <1>1 DEF PushInv, PushTyped, Applied, Heard
<1>3. Buried(s)
  BY <1>1, <1>2 DEF PushInv, Cancelled
<1>4. DOMAIN NextPhase \cup {"boot-committed"} = Installing
  BY DEF NextPhase, Installing
<1>5. QED
  BY <1>3, <1>4 DEF Buried

(* A push ends as the coordinator says: success is a confirmed boot of the  *)
(* version it offered, and a cancel that was answered is never followed by  *)
(* the installation of that session, whatever is lost or late and however   *)
(* often either side restarts (OtaCoordinator.run against otaStatusPoll,     *)
(* otaStatusCancel and otaStatusProjectUpdate of the device).               *)
THEOREM PushesAreTrue == PushSpec => []PushIsTrue
BY PushStarts, PushInvInductive, PushSays, PTL DEF PushSpec

--------------------------------------------------------------------------------
LEMMA ProductGrows ==
  ASSUME NEW m \in Nat \ {0}, NEW p \in Int, NEW q \in Int, p < q
  PROVE  m * p + m <= m * q
<1>1. q - p - 1 \in Nat
  OBVIOUS
<1>2. m * (q - p - 1) >= 0
  BY <1>1
<1>3. m * (q - p - 1) = m * q - m * p - m
  OBVIOUS
<1>4. m * p \in Int /\ m * q \in Int
  OBVIOUS
<1>5. QED
  BY <1>2, <1>3, <1>4
LEMMA Division ==
  ASSUME NEW m \in Nat \ {0}, NEW a \in Int
  PROVE  a = m * (a \div m) + (a % m) /\ (a % m) \in 0..(m - 1) /\ (a \div m) \in Int
OBVIOUS
LEMMA Remainder ==
  ASSUME NEW m \in Nat \ {0}, NEW a \in Int, NEW q \in Int, NEW r \in 0..(m - 1), a = m * q + r
  PROVE  a % m = r
<1> DEFINE p == a \div m
           s == a % m
<1>1. a = m * p + s /\ s \in 0..(m - 1) /\ p \in Int
  BY Division
<1> HIDE DEF p, s
<1>2. m * p \in Int /\ m * q \in Int
  BY <1>1
<1>3. ~(p < q)
  BY <1>1, <1>2, ProductGrows
<1>4. ~(q < p)
  BY <1>1, <1>2, ProductGrows
<1>5. p = q
  BY <1>1, <1>3, <1>4
<1>6. s = r
  BY <1>1, <1>2, <1>5
<1>7. QED
  BY <1>6 DEF s
LEMMA NextRemainder ==
  ASSUME NEW x \in Nat, NEW m \in Nat \ {0}
  PROVE  ((x % m) + 1) % m = (x + 1) % m
<1> DEFINE q == x \div m
           r == x % m
<1>1. x = m * q + r /\ r \in 0..(m - 1) /\ q \in Int
  BY Division
<1> HIDE DEF q, r
<1>2. m * q \in Int /\ m * (q + 1) = m * q + m /\ m * 1 = m /\ m * 0 = 0
  BY <1>1
<1>3. CASE r + 1 < m
  <2>1. x + 1 = m * q + (r + 1) /\ r + 1 \in 0..(m - 1) /\ r + 1 = m * 0 + (r + 1)
    BY <1>1, <1>2, <1>3
  <2>2. (x + 1) % m = r + 1
    BY <1>1, <2>1, Remainder
  <2>3. (r + 1) % m = r + 1
    BY <1>1, <2>1, Remainder
  <2>4. QED
    BY <2>2, <2>3 DEF r
<1>4. CASE r + 1 = m
  <2>1. x + 1 = m * (q + 1) + 0 /\ 0 \in 0..(m - 1) /\ r + 1 = m * 1 + 0
    BY <1>1, <1>2, <1>4
  <2>2. (x + 1) % m = 0
    BY <1>1, <2>1, Remainder
  <2>3. (r + 1) % m = 0
    BY <1>1, <2>1, Remainder
  <2>4. QED
    BY <2>2, <2>3 DEF r
<1>5. QED
  BY <1>1, <1>3, <1>4
LEMMA SameRemainder ==
  ASSUME NEW a \in Nat, NEW b \in Nat, NEW m \in Nat \ {0}, a % m = b % m
  PROVE  (a - b) % m = 0
<1> DEFINE p == a \div m
           q == b \div m
           r == a % m
<1>1. a = m * p + r /\ b = m * q + r /\ p \in Int /\ q \in Int /\ r \in 0..(m - 1)
  BY Division
<1> HIDE DEF p, q, r
<1>2. m * p \in Int /\ m * q \in Int /\ m * (p - q) = m * p - m * q /\ 0 \in 0..(m - 1)
  BY <1>1
<1>3. a - b = m * (p - q) + 0 /\ p - q \in Int /\ a - b \in Int
  BY <1>1, <1>2
<1>4. QED
  BY <1>2, <1>3, Remainder
LineKinds == [seq : Nat, counted : Nat]

ChimeTyped ==
  /\ notices \in [OpenSessions -> 0..2]
  /\ turnKeys \in Seq(OpenSessions)
  /\ lines \in Seq(LineKinds)
  /\ linked \in BOOLEAN /\ chime \in [has : BOOLEAN, seq : Nat]
  /\ tally \in [turns : Nat, rings : Nat, again : Nat, counted : Nat, heard : Nat,
                silent : BOOLEAN, mishaps : Nat]

(* The number is the count of the turns, as far as it goes, in the agent,  *)
(* in its state file, in every line and in the device.                     *)
NumberIsCount ==
  /\ completionSeq = tally.counted % SeqModulus /\ stateFile = completionSeq
  /\ \A i \in 1..Len(lines) : lines[i].seq = lines[i].counted % SeqModulus
  /\ chime.has => chime.seq = tally.heard % SeqModulus

(* Counts only grow, from what was heard over the lines to what is counted. *)
CountsGrow ==
  /\ tally.heard <= tally.counted
  /\ \A i \in 1..Len(lines) : tally.heard <= lines[i].counted /\ lines[i].counted <= tally.counted
  /\ \A i, j \in 1..Len(lines) : i <= j => lines[i].counted <= lines[j].counted

(* The last line says the number, and a device with a link and no line has  *)
(* heard it.                                                               *)
NumberIsTold ==
  /\ linked /\ lines # <<>> => lines[Len(lines)].seq = completionSeq
  /\ linked /\ lines = <<>> => chime.has /\ chime.seq = completionSeq
  /\ lines # <<>> => linked

(* The turns that one more notice would count.                             *)
Owed == {s \in OpenSessions : notices[s] = 2 \/ (notices[s] = 1 /\ s \notin Range(turnKeys))}

TurnsPay ==
  /\ tally.rings <= tally.heard
  /\ tally.counted + Cardinality(Owed) <= tally.turns + tally.again

ChimeInv == ChimeTyped /\ NumberIsCount /\ CountsGrow /\ NumberIsTold /\ TurnsPay

(* The number of a count.                                                  *)
LEMMA NumberInRange ==
  ASSUME NEW a \in Nat
  PROVE  (a % SeqModulus) \in Nat /\ (a % SeqModulus) \in 0..(SeqModulus - 1)
<1>1. SeqModulus \in Nat \ {0}
  BY ChimeAssumption
<1>2. (a % SeqModulus) \in 0..(SeqModulus - 1)
  BY <1>1
<1>3. QED
  BY <1>1, <1>2

LEMMA LineAdded ==
  ASSUME ChimeInv, NEW c \in Nat, NEW q \in Nat, q = c % SeqModulus, tally.counted <= c,
         lines' = Append(lines, Line(q, c))
  PROVE  /\ lines' \in Seq(LineKinds) /\ lines' # <<>> /\ lines'[Len(lines')].seq = q
         /\ \A i \in 1..Len(lines') :
              /\ lines'[i].seq = lines'[i].counted % SeqModulus
              /\ tally.heard <= lines'[i].counted /\ lines'[i].counted <= c
         /\ \A i, j \in 1..Len(lines') : i <= j => lines'[i].counted <= lines'[j].counted
<1> DEFINE x == Line(q, c)
<1>1. x \in LineKinds /\ x.seq = q /\ x.counted = c
  BY DEF Line, LineKinds
<1>2. lines \in Seq(LineKinds) /\ tally.heard \in Nat /\ tally.counted \in Nat /\ tally.heard <= tally.counted
  BY DEF ChimeInv, ChimeTyped, CountsGrow
<1>3. lines' = Append(lines, x)
  OBVIOUS
<1> HIDE DEF x
<1>4. /\ lines' \in Seq(LineKinds) /\ Len(lines') = Len(lines) + 1 /\ Len(lines) \in Nat
      /\ lines'[Len(lines) + 1] = x /\ \A i \in 1..Len(lines) : lines'[i] = lines[i]
  BY <1>1, <1>2, <1>3
<1>5. /\ \A i \in 1..Len(lines) : /\ lines[i].seq = lines[i].counted % SeqModulus
                                  /\ tally.heard <= lines[i].counted /\ lines[i].counted <= tally.counted
                                  /\ lines[i].counted \in Nat
      /\ \A i, j \in 1..Len(lines) : i <= j => lines[i].counted <= lines[j].counted
  <2>1. \A i \in 1..Len(lines) : lines[i] \in LineKinds
    BY <1>2
  <2>2. QED
    BY <2>1 DEF ChimeInv, NumberIsCount, CountsGrow, LineKinds
<1>6. \A i \in 1..Len(lines') : i \in 1..Len(lines) \/ i = Len(lines) + 1
  BY <1>4
<1>7. \A i \in 1..Len(lines') :
        /\ lines'[i].seq = lines'[i].counted % SeqModulus
        /\ tally.heard <= lines'[i].counted /\ lines'[i].counted <= c
  <2>1. SUFFICES ASSUME NEW i \in 1..Len(lines')
                 PROVE  /\ lines'[i].seq = lines'[i].counted % SeqModulus
                        /\ tally.heard <= lines'[i].counted /\ lines'[i].counted <= c
    OBVIOUS
  <2>2. CASE i = Len(lines) + 1
    BY <1>1, <1>2, <1>4, <2>2
  <2>3. CASE i \in 1..Len(lines)
    BY <1>2, <1>4, <1>5, <2>3
  <2>4. QED
    BY <1>6, <2>2, <2>3
<1>8. \A i, j \in 1..Len(lines') : i <= j => lines'[i].counted <= lines'[j].counted
  <2>1. SUFFICES ASSUME NEW i \in 1..Len(lines'), NEW j \in 1..Len(lines'), i <= j
                 PROVE  lines'[i].counted <= lines'[j].counted
    OBVIOUS
  <2>2. CASE j = Len(lines) + 1
    BY <1>1, <1>4, <1>7, <2>2
  <2>3. CASE j \in 1..Len(lines)
    <3>1. i \in 1..Len(lines)
      BY <1>4, <2>1, <2>3
    <3>2. QED
      BY <1>4, <1>5, <2>1, <2>3, <3>1
  <2>4. QED
    BY <1>6, <2>2, <2>3
<1>9. QED
  BY <1>1, <1>4, <1>7, <1>8

(* A step that neither counts nor is heard.                                *)
LEMMA SameCounts ==
  ASSUME ChimeInv, UNCHANGED <<completionSeq, stateFile>>, ChimeTyped',
         tally'.counted = tally.counted, tally'.heard = tally.heard, tally'.rings = tally.rings,
         \/ UNCHANGED <<lines, linked, chime>>
         \/ lines' = <<>> /\ linked' = FALSE /\ (UNCHANGED chime \/ chime' = Unheard)
         \/ linked /\ UNCHANGED <<linked, chime>> /\ lines' = Append(lines, Line(completionSeq, tally.counted))
         \/ ~linked /\ linked' = TRUE /\ UNCHANGED chime /\ lines' = Append(lines, Line(completionSeq, tally.counted)),
         tally.counted + Cardinality(Owed') <= tally'.turns + tally'.again
  PROVE  ChimeInv'
<1>1. completionSeq = tally.counted % SeqModulus /\ tally.counted \in Nat /\ completionSeq \in Nat
  <2>1. tally.counted \in Nat /\ completionSeq = tally.counted % SeqModulus
    BY DEF ChimeInv, ChimeTyped, NumberIsCount
  <2>2. QED
    BY <2>1, NumberInRange
<1>2. ChimeTyped' /\ TurnsPay'
  BY DEF ChimeInv, TurnsPay
<1>3. CASE UNCHANGED <<lines, linked, chime>>
  BY <1>2, <1>3 DEF ChimeInv, NumberIsCount, CountsGrow, NumberIsTold
<1>4. CASE lines' = <<>> /\ linked' = FALSE /\ (UNCHANGED chime \/ chime' = Unheard)
  <2>1. Len(lines') = 0
    BY <1>4
  <2>2. NumberIsCount' /\ CountsGrow' /\ NumberIsTold'
    BY <1>4, <2>1 DEF ChimeInv, NumberIsCount, CountsGrow, NumberIsTold, Unheard
  <2>3. QED
    BY <1>2, <2>2 DEF ChimeInv
<1>5. CASE linked' = TRUE /\ UNCHANGED chime /\ lines' = Append(lines, Line(completionSeq, tally.counted))
  <2>1. tally.counted <= tally.counted
    BY <1>1
  <2>2. /\ lines' # <<>> /\ lines'[Len(lines')].seq = completionSeq
        /\ \A i \in 1..Len(lines') :
              /\ lines'[i].seq = lines'[i].counted % SeqModulus
              /\ tally.heard <= lines'[i].counted /\ lines'[i].counted <= tally.counted
        /\ \A i, j \in 1..Len(lines') : i <= j => lines'[i].counted <= lines'[j].counted
    BY <1>1, <1>5, <2>1, LineAdded
  <2>3. NumberIsCount' /\ CountsGrow' /\ NumberIsTold'
    BY <1>5, <2>2 DEF ChimeInv, NumberIsCount, CountsGrow, NumberIsTold
  <2>4. QED
    BY <1>2, <2>3 DEF ChimeInv
<1>6. QED
  BY <1>3, <1>4, <1>5

(* How many turns are owed when some are paid and some forgotten.          *)
LEMMA Debts ==
  ASSUME NEW A \in SUBSET OpenSessions, NEW B \in SUBSET OpenSessions, NEW F \in SUBSET OpenSessions
  PROVE  /\ Cardinality(A) \in Nat /\ Cardinality(B) \in Nat /\ Cardinality(F) \in Nat
         /\ B \subseteq A \cup F => Cardinality(B) <= Cardinality(A) + Cardinality(F)
         /\ \A s \in A : B \subseteq (A \ {s}) \cup F => Cardinality(B) + 1 <= Cardinality(A) + Cardinality(F)
         /\ \A s : B \subseteq A \cup {s} => Cardinality(B) <= Cardinality(A) + 1
<1>1. IsFiniteSet(A) /\ IsFiniteSet(B) /\ IsFiniteSet(F)
  BY ChimeAssumption, FS_Subset
<1>2. Cardinality(A) \in Nat /\ Cardinality(B) \in Nat /\ Cardinality(F) \in Nat
  BY <1>1, FS_CardinalityType
<1>3. ASSUME NEW C \in SUBSET OpenSessions, B \subseteq C \cup F
      PROVE  Cardinality(B) <= Cardinality(C) + Cardinality(F) /\ Cardinality(C) \in Nat
  <2>1. IsFiniteSet(C)
    BY ChimeAssumption, FS_Subset
  <2>2. /\ IsFiniteSet(C \cup F) /\ Cardinality(C) \in Nat /\ Cardinality(C \cup F) \in Nat
        /\ Cardinality(C \cap F) \in Nat
        /\ Cardinality(C \cup F) = Cardinality(C) + Cardinality(F) - Cardinality(C \cap F)
    BY <1>1, <2>1, FS_Union, FS_CardinalityType, FS_Intersection
  <2>3. Cardinality(B) <= Cardinality(C \cup F)
    BY <1>3, <2>2, FS_Subset
  <2>4. QED
    BY <1>2, <2>2, <2>3
<1>4. ASSUME NEW s \in A, B \subseteq (A \ {s}) \cup F
      PROVE  Cardinality(B) + 1 <= Cardinality(A) + Cardinality(F)
  <2>1. Cardinality(A \ {s}) = Cardinality(A) - 1
    BY <1>1, FS_RemoveElement
  <2>2. Cardinality(B) <= Cardinality(A \ {s}) + Cardinality(F)
    BY <1>3, <1>4
  <2>3. QED
    BY <1>2, <2>1, <2>2
<1>5. ASSUME NEW s, B \subseteq A \cup {s}
      PROVE  Cardinality(B) <= Cardinality(A) + 1
  <2>1. IsFiniteSet(A \cup {s}) /\ (Cardinality(A \cup {s}) = Cardinality(A) \/ Cardinality(A \cup {s}) = Cardinality(A) + 1)
    BY <1>1, FS_AddElement
  <2>2. Cardinality(B) <= Cardinality(A \cup {s}) /\ Cardinality(A \cup {s}) \in Nat
    BY <1>5, <2>1, FS_Subset, FS_CardinalityType
  <2>3. QED
    BY <1>2, <2>1, <2>2
<1>6. QED
  BY <1>2, <1>3, <1>4, <1>5

LEMMA OwedTyped ==
  ASSUME ChimeInv
  PROVE  /\ Owed \in SUBSET OpenSessions /\ Owed' \in SUBSET OpenSessions
         /\ Cardinality(Owed) \in Nat /\ Cardinality(Owed') \in Nat
         /\ tally.turns \in Nat /\ tally.again \in Nat /\ tally.counted \in Nat
         /\ tally.counted + Cardinality(Owed) <= tally.turns + tally.again
<1>1. Owed \in SUBSET OpenSessions /\ Owed' \in SUBSET OpenSessions
  BY DEF Owed
<1>2. QED
  BY <1>1, Debts DEF ChimeInv, ChimeTyped, TurnsPay

(* Counts and Forgotten are numbers.                                       *)
LEMMA ForgottenTyped ==
  ASSUME ChimeInv, NEW keys
  PROVE  /\ {x \in Range(turnKeys) \ keys : notices[x] = 1} \in SUBSET OpenSessions
         /\ Forgotten(keys) = Cardinality({x \in Range(turnKeys) \ keys : notices[x] = 1})
         /\ Forgotten(keys) \in Nat
<1>1. Range(turnKeys) \subseteq OpenSessions
  BY DEF ChimeInv, ChimeTyped, Range
<1>2. {x \in Range(turnKeys) \ keys : notices[x] = 1} \in SUBSET OpenSessions
  BY <1>1
<1>3. QED
  BY <1>2, Debts DEF Forgotten

LEMMA TurnEndsKeeps ==
  ASSUME ChimeInv, NEW s \in OpenSessions, TurnEnds(s)
  PROVE  ChimeInv'
<1>1. /\ UNCHANGED <<turnKeys, completionSeq, stateFile, linked, lines, chime>>
      /\ notices' = [notices EXCEPT ![s] = 2] /\ notices[s] = 0
      /\ tally' = [tally EXCEPT !.turns = @ + 1, !.silent = chime.has]
  BY DEF TurnEnds
<1>2. notices' \in [OpenSessions -> 0..2]
  BY <1>1 DEF ChimeInv, ChimeTyped
<1>3. /\ tally' \in [turns : Nat, rings : Nat, again : Nat, counted : Nat, heard : Nat,
                     silent : BOOLEAN, mishaps : Nat]
      /\ tally'.turns = tally.turns + 1 /\ tally'.again = tally.again /\ tally'.counted = tally.counted
      /\ tally'.heard = tally.heard /\ tally'.rings = tally.rings
  <2>1. chime.has \in BOOLEAN /\ tally.turns + 1 \in Nat
    BY DEF ChimeInv, ChimeTyped
  <2>2. QED
    BY <1>1, <2>1 DEF ChimeInv, ChimeTyped
<1>4. ChimeTyped'
  BY <1>1, <1>2, <1>3 DEF ChimeInv, ChimeTyped
<1>5. Cardinality(Owed') <= Cardinality(Owed) + 1
  <2>1. Owed' \subseteq Owed \cup {s}
    BY <1>1 DEF Owed, ChimeInv, ChimeTyped
  <2>2. QED
    BY <2>1, OwedTyped, Debts
<1>6. tally.counted + Cardinality(Owed') <= tally'.turns + tally'.again
  BY <1>3, <1>5, OwedTyped
<1>7. QED
  BY <1>1, <1>3, <1>4, <1>6, SameCounts

LEMMA KeepaliveKeeps ==
  ASSUME ChimeInv, Keepalive \/ Link
  PROVE  ChimeInv'
<1>1. /\ UNCHANGED <<notices, turnKeys, completionSeq, stateFile, chime, tally>>
      /\ lines' = Append(lines, Line(completionSeq, tally.counted))
      /\ linked' = TRUE /\ (linked => UNCHANGED linked)
  <2>1. CASE Keepalive
    BY <2>1 DEF Keepalive, ChimeInv, ChimeTyped
  <2>2. CASE Link
    <3>1. lines = <<>>
      BY <2>2 DEF Link, ChimeInv, NumberIsTold
    <3>2. <<Line(completionSeq, tally.counted)>> = Append(<<>>, Line(completionSeq, tally.counted))
      OBVIOUS
    <3>3. QED
      BY <2>2, <3>1, <3>2 DEF Link
  <2>3. QED
    BY <2>1, <2>2
<1>2. completionSeq \in Nat /\ completionSeq = tally.counted % SeqModulus /\ tally.counted \in Nat
  <2>1. completionSeq = tally.counted % SeqModulus /\ tally.counted \in Nat
    BY DEF ChimeInv, NumberIsCount, ChimeTyped
  <2>2. QED
    BY <2>1, NumberInRange
<1>3. lines' \in Seq(LineKinds)
  <2>1. tally.counted <= tally.counted
    BY <1>2
  <2>2. QED
    BY <1>1, <1>2, <2>1, LineAdded
<1>4. ChimeTyped'
  BY <1>1, <1>3 DEF ChimeInv, ChimeTyped
<1>5. tally.counted + Cardinality(Owed') <= tally'.turns + tally'.again
  <2>1. Owed' = Owed
    BY <1>1 DEF Owed
  <2>2. QED
    BY <1>1, <2>1, OwedTyped
<1>6. linked \in BOOLEAN
  BY DEF ChimeInv, ChimeTyped
<1>7. QED
  BY <1>1, <1>4, <1>5, <1>6, SameCounts

LEMMA MishapKeeps ==
  ASSUME ChimeInv, NEW lost \in Nat, Mishap(lost), UNCHANGED <<completionSeq, stateFile>>,
         notices' \in [OpenSessions -> 0..2], turnKeys' \in Seq(OpenSessions),
         \/ UNCHANGED <<lines, linked, chime>>
         \/ lines' = <<>> /\ linked' = FALSE /\ (UNCHANGED chime \/ chime' = Unheard),
         NEW F \in SUBSET OpenSessions, Cardinality(F) = lost, Owed' \subseteq Owed \cup F
  PROVE  ChimeInv'
<1>1. /\ tally' \in [turns : Nat, rings : Nat, again : Nat, counted : Nat, heard : Nat,
                     silent : BOOLEAN, mishaps : Nat]
      /\ tally'.turns = tally.turns /\ tally'.again = tally.again + lost /\ tally'.counted = tally.counted
      /\ tally'.heard = tally.heard /\ tally'.rings = tally.rings
  <2>1. tally.again + lost \in Nat /\ tally.mishaps + 1 \in Nat
    BY DEF ChimeInv, ChimeTyped
  <2>2. tally' = [tally EXCEPT !.mishaps = tally.mishaps + 1, !.again = tally.again + lost]
    BY DEF Mishap, ChimeInv, ChimeTyped
  <2>3. QED
    BY <2>1, <2>2 DEF ChimeInv, ChimeTyped
<1>2. lines' \in Seq(LineKinds) /\ linked' \in BOOLEAN /\ chime' \in [has : BOOLEAN, seq : Nat]
  <2>1. Unheard \in [has : BOOLEAN, seq : Nat] /\ <<>> \in Seq(LineKinds)
    BY DEF Unheard
  <2>2. CASE UNCHANGED <<lines, linked, chime>>
    BY <2>2 DEF ChimeInv, ChimeTyped
  <2>3. CASE lines' = <<>> /\ linked' = FALSE /\ (UNCHANGED chime \/ chime' = Unheard)
    <3>1. chime \in [has : BOOLEAN, seq : Nat]
      BY DEF ChimeInv, ChimeTyped
    <3>2. QED
      BY <2>1, <2>3, <3>1
  <2>4. QED
    BY <2>2, <2>3
<1>3. ChimeTyped'
  BY <1>1, <1>2 DEF ChimeTyped
<1>4. tally.counted + Cardinality(Owed') <= tally'.turns + tally'.again
  <2>1. Cardinality(Owed') <= Cardinality(Owed) + lost
    BY OwedTyped, Debts
  <2>2. /\ Cardinality(Owed) \in Nat /\ Cardinality(Owed') \in Nat
        /\ tally.turns \in Nat /\ tally.again \in Nat /\ tally.counted \in Nat
        /\ tally.counted + Cardinality(Owed) <= tally.turns + tally.again
    BY OwedTyped
  <2>3. tally'.turns = tally.turns /\ tally'.again = tally.again + lost
    BY <1>1
  <2>4. QED
    BY <2>1, <2>2, <2>3
<1>5. QED
  BY <1>1, <1>3, <1>4, SameCounts

LEMMA NothingForgotten == {} \in SUBSET OpenSessions /\ Cardinality({}) = 0 /\ 0 \in Nat
BY FS_EmptySet

LEMMA UnlinkKeeps ==
  ASSUME ChimeInv, Unlink
  PROVE  ChimeInv'
<1>1. /\ Mishap(0) /\ UNCHANGED <<notices, turnKeys, completionSeq, stateFile, chime>>
      /\ lines' = <<>> /\ linked' = FALSE
  BY DEF Unlink
<1>2. notices' \in [OpenSessions -> 0..2] /\ turnKeys' \in Seq(OpenSessions)
  BY <1>1 DEF ChimeInv, ChimeTyped
<1>3. Owed' \subseteq Owed \cup {}
  BY <1>1 DEF Owed
<1>4. QED
  BY <1>1, <1>2, <1>3, NothingForgotten, MishapKeeps

LEMMA DeviceRestartsKeeps ==
  ASSUME ChimeInv, DeviceRestarts
  PROVE  ChimeInv'
<1>1. /\ Mishap(0) /\ UNCHANGED <<notices, turnKeys, completionSeq, stateFile>>
      /\ lines' = <<>> /\ linked' = FALSE /\ chime' = Unheard
  BY DEF DeviceRestarts
<1>2. notices' \in [OpenSessions -> 0..2] /\ turnKeys' \in Seq(OpenSessions)
  BY <1>1 DEF ChimeInv, ChimeTyped
<1>3. Owed' \subseteq Owed \cup {}
  BY <1>1 DEF Owed
<1>4. QED
  BY <1>1, <1>2, <1>3, NothingForgotten, MishapKeeps

LEMMA NoticeLostKeeps ==
  ASSUME ChimeInv, NEW s \in OpenSessions, NoticeLost(s)
  PROVE  ChimeInv'
<1>1. /\ Mishap(0) /\ UNCHANGED <<turnKeys, completionSeq, stateFile, linked, lines, chime>>
      /\ notices[s] > 0 /\ notices' = [notices EXCEPT ![s] = notices[s] - 1]
  BY DEF NoticeLost
<1>2. notices' \in [OpenSessions -> 0..2] /\ turnKeys' \in Seq(OpenSessions)
  BY <1>1 DEF ChimeInv, ChimeTyped
<1>3. Owed' \subseteq Owed \cup {}
  BY <1>1 DEF Owed, ChimeInv, ChimeTyped
<1>4. QED
  BY <1>1, <1>2, <1>3, NothingForgotten, MishapKeeps

(* The number the next agent begins with is the one in the state file, and  *)
(* the keys it has lost are the turns that may count again.                 *)
LEMMA AgentRestartsKeeps ==
  ASSUME ChimeInv, AgentRestarts
  PROVE  ChimeInv'
<1> DEFINE F == {x \in Range(turnKeys) \ {} : notices[x] = 1}
<1>1. /\ Mishap(Forgotten({})) /\ UNCHANGED <<notices, stateFile, chime>>
      /\ turnKeys' = <<>> /\ completionSeq' = stateFile /\ lines' = <<>> /\ linked' = FALSE
  BY DEF AgentRestarts, Restored
<1>2. notices' \in [OpenSessions -> 0..2] /\ turnKeys' \in Seq(OpenSessions)
  BY <1>1 DEF ChimeInv, ChimeTyped
<1>3. Owed' \subseteq Owed \cup F
  BY <1>1 DEF Owed
<1>4. UNCHANGED <<completionSeq, stateFile>>
  BY <1>1 DEF ChimeInv, NumberIsCount
<1>5. Cardinality(F) = Forgotten({}) /\ Forgotten({}) \in Nat /\ F \in SUBSET OpenSessions
  BY ForgottenTyped
<1> HIDE DEF F
<1>6. QED
  BY <1>1, <1>2, <1>3, <1>4, <1>5, MishapKeeps

(* The key just counted is remembered, and no key is invented.             *)
LEMMA PushedKeys ==
  ASSUME ChimeInv, NEW s \in OpenSessions
  PROVE  /\ Pushed(s) \in Seq(OpenSessions) /\ s \in Range(Pushed(s))
<1> DEFINE remembered == IF Len(turnKeys) >= DedupeLimit THEN Tail(turnKeys) ELSE turnKeys
<1>1. turnKeys \in Seq(OpenSessions) /\ DedupeLimit \in Nat \ {0}
  BY ChimeAssumption DEF ChimeInv, ChimeTyped
<1>2. remembered \in Seq(OpenSessions)
  <2>1. CASE Len(turnKeys) >= DedupeLimit
    <3>1. turnKeys # <<>>
      BY <1>1, <2>1
    <3>2. QED
      BY <1>1, <2>1, <3>1
  <2>2. CASE ~(Len(turnKeys) >= DedupeLimit)
    BY <1>1, <2>2
  <2>3. QED
    BY <2>1, <2>2
<1>3. Pushed(s) = Append(remembered, s)
  BY DEF Pushed
<1> HIDE DEF remembered
<1>4. Append(remembered, s) \in Seq(OpenSessions) /\ Len(remembered) + 1 \in DOMAIN Append(remembered, s) /\ Append(remembered, s)[Len(remembered) + 1] = s
  BY <1>2
<1>5. QED
  BY <1>3, <1>4 DEF Range

LEMMA NoticeKnownKeeps ==
  ASSUME ChimeInv, NEW s \in OpenSessions, Notice(s), NoticeKnown(s)
  PROVE  ChimeInv'
<1>1. /\ notices[s] > 0 /\ notices' = [notices EXCEPT ![s] = notices[s] - 1]
      /\ s \in Range(turnKeys) /\ UNCHANGED <<turnKeys, completionSeq, tally, linked, chime>>
      /\ stateFile' = completionSeq
      /\ \/ linked /\ lines' = Append(lines, Line(completionSeq, tally.counted))
         \/ UNCHANGED lines
  BY DEF Notice, NoticeKnown, Published
<1>2. completionSeq \in Nat /\ completionSeq = tally.counted % SeqModulus /\ tally.counted \in Nat
      /\ stateFile = completionSeq
  <2>1. completionSeq = tally.counted % SeqModulus /\ tally.counted \in Nat /\ stateFile = completionSeq
    BY DEF ChimeInv, NumberIsCount, ChimeTyped
  <2>2. QED
    BY <2>1, NumberInRange
<1>3. notices' \in [OpenSessions -> 0..2]
  BY <1>1 DEF ChimeInv, ChimeTyped
<1>4. lines' \in Seq(LineKinds)
  <2>1. tally.counted <= tally.counted
    BY <1>2
  <2>2. CASE lines' = Append(lines, Line(completionSeq, tally.counted))
    BY <1>2, <2>1, <2>2, LineAdded
  <2>3. CASE UNCHANGED lines
    BY <2>3 DEF ChimeInv, ChimeTyped
  <2>4. QED
    BY <1>1, <2>2, <2>3
<1>5. ChimeTyped'
  BY <1>1, <1>3, <1>4 DEF ChimeInv, ChimeTyped
<1>6. tally.counted + Cardinality(Owed') <= tally'.turns + tally'.again
  <2>1. Owed' \subseteq Owed \cup {}
    BY <1>1 DEF Owed, ChimeInv, ChimeTyped
  <2>2. Cardinality(Owed') <= Cardinality(Owed) + Cardinality({})
    BY <2>1, OwedTyped, NothingForgotten, Debts
  <2>3. QED
    BY <1>1, <2>2, OwedTyped, NothingForgotten
<1>7. tally'.counted = tally.counted /\ tally'.heard = tally.heard /\ tally'.rings = tally.rings
  BY <1>1
<1>8. UNCHANGED <<completionSeq, stateFile>>
  BY <1>1, <1>2
<1>9. QED
  BY <1>1, <1>5, <1>6, <1>7, <1>8, SameCounts

LEMMA NoticeCountsKeeps ==
  ASSUME ChimeInv, NEW s \in OpenSessions, Notice(s), NoticeCounts(s)
  PROVE  ChimeInv'
<1> DEFINE F == {x \in Range(turnKeys) \ Range(turnKeys') : notices[x] = 1}
           c == tally.counted + 1
           q == completionSeq'
<1>1. /\ notices[s] > 0 /\ notices' = [notices EXCEPT ![s] = notices[s] - 1]
      /\ s \notin Range(turnKeys) /\ turnKeys' = Pushed(s) /\ UNCHANGED <<linked, chime>>
      /\ q = NextSeq /\ stateFile' = q
      /\ tally' = [tally EXCEPT !.counted = tally.counted + 1,
                                !.again = tally.again + Forgotten(Range(turnKeys'))]
  BY DEF Notice, NoticeCounts, Published
<1>2. \/ linked /\ lines' = Append(lines, Line(q, tally'.counted))
      \/ (linked => q = completionSeq) /\ UNCHANGED lines
  BY DEF Notice, Published
<1>3. /\ Forgotten(Range(turnKeys')) = Cardinality(F) /\ F \in SUBSET OpenSessions
      /\ Forgotten(Range(turnKeys')) \in Nat
  BY ForgottenTyped
<1>4. turnKeys' \in Seq(OpenSessions) /\ s \in Range(turnKeys')
  BY <1>1, PushedKeys
<1>5. notices' \in [OpenSessions -> 0..2]
  BY <1>1 DEF ChimeInv, ChimeTyped
<1>6. Owed' \subseteq (Owed \ {s}) \cup F /\ s \in Owed
  BY <1>1, <1>4 DEF Owed, ChimeInv, ChimeTyped
<1> HIDE DEF F
<1>7. /\ tally' \in [turns : Nat, rings : Nat, again : Nat, counted : Nat, heard : Nat,
                     silent : BOOLEAN, mishaps : Nat]
      /\ tally'.turns = tally.turns /\ tally'.again = tally.again + Cardinality(F) /\ tally'.counted = c
      /\ tally'.heard = tally.heard /\ tally'.rings = tally.rings
  <2>1. tally.counted + 1 \in Nat /\ tally.again + Forgotten(Range(turnKeys')) \in Nat
    BY <1>3 DEF ChimeInv, ChimeTyped
  <2>2. QED
    BY <1>1, <1>3, <2>1 DEF ChimeInv, ChimeTyped
<1>8. c \in Nat /\ q = c % SeqModulus /\ q \in Nat /\ tally.counted <= c
  <2>1. tally.counted \in Nat /\ completionSeq = tally.counted % SeqModulus /\ SeqModulus \in Nat \ {0}
    BY ChimeAssumption DEF ChimeInv, NumberIsCount, ChimeTyped
  <2>2. ((tally.counted % SeqModulus) + 1) % SeqModulus = c % SeqModulus
    BY <2>1, NextRemainder
  <2>3. c \in Nat /\ tally.counted <= c
    BY <2>1
  <2>4. QED
    BY <1>1, <2>1, <2>2, <2>3, NumberInRange DEF NextSeq
<1> HIDE DEF c, q
<1>9. TurnsPay'
  <2>1. Cardinality(Owed') + 1 <= Cardinality(Owed) + Cardinality(F)
    BY <1>3, <1>6, OwedTyped, Debts
  <2>2. Cardinality(F) \in Nat
    BY <1>3
  <2>3. /\ Cardinality(Owed) \in Nat /\ Cardinality(Owed') \in Nat
        /\ tally.turns \in Nat /\ tally.again \in Nat /\ tally.counted \in Nat
        /\ tally.counted + Cardinality(Owed) <= tally.turns + tally.again
    BY OwedTyped
  <2>4. tally'.counted = tally.counted + 1
    BY <1>7 DEF c
  <2>5. tally'.counted + Cardinality(Owed') <= tally'.turns + tally'.again
    BY <1>7, <2>1, <2>2, <2>3, <2>4
  <2>6. QED
    BY <1>7, <2>5 DEF TurnsPay, ChimeInv
<1>10. /\ lines' \in Seq(LineKinds)
       /\ \A i \in 1..Len(lines') :
              /\ lines'[i].seq = lines'[i].counted % SeqModulus
              /\ tally.heard <= lines'[i].counted /\ lines'[i].counted <= c
       /\ \A i, j \in 1..Len(lines') : i <= j => lines'[i].counted <= lines'[j].counted
       /\ NumberIsTold'
  <2>1. CASE linked /\ lines' = Append(lines, Line(q, tally'.counted))
    <3>1. lines' = Append(lines, Line(q, c))
      BY <1>7, <2>1
    <3>2. /\ lines' \in Seq(LineKinds) /\ lines' # <<>> /\ lines'[Len(lines')].seq = q
          /\ \A i \in 1..Len(lines') :
               /\ lines'[i].seq = lines'[i].counted % SeqModulus
               /\ tally.heard <= lines'[i].counted /\ lines'[i].counted <= c
          /\ \A i, j \in 1..Len(lines') : i <= j => lines'[i].counted <= lines'[j].counted
      BY <1>8, <3>1, LineAdded
    <3>3. NumberIsTold'
      BY <1>1, <2>1, <3>2 DEF NumberIsTold, q
    <3>4. QED
      BY <3>2, <3>3
  <2>2. CASE (linked => q = completionSeq) /\ UNCHANGED lines
    <3>1. \A i \in 1..Len(lines) : lines[i] \in LineKinds
      BY DEF ChimeInv, ChimeTyped
    <3>2. \A i \in 1..Len(lines) : lines[i].counted \in Nat
      BY <3>1 DEF LineKinds
    <3>3. tally.counted \in Nat
      BY DEF ChimeInv, ChimeTyped
    <3>4. \A i \in 1..Len(lines) : tally.heard <= lines[i].counted /\ lines[i].counted <= c
      BY <1>8, <3>2, <3>3 DEF ChimeInv, CountsGrow
    <3>5. NumberIsTold'
      BY <1>1, <2>2 DEF NumberIsTold, ChimeInv, q
    <3>6. QED
      BY <2>2, <3>4, <3>5 DEF ChimeInv, ChimeTyped, NumberIsCount, CountsGrow
  <2>3. QED
    BY <1>2, <2>1, <2>2
<1>11. NumberIsCount'
  BY <1>1, <1>7, <1>8, <1>10 DEF NumberIsCount, ChimeInv, q
<1>12. CountsGrow'
  <2>1. tally.heard <= tally.counted /\ tally.heard \in Nat /\ tally.counted \in Nat
    BY DEF ChimeInv, CountsGrow, ChimeTyped
  <2>2. tally.heard <= c
    BY <1>8, <2>1
  <2>3. QED
    BY <1>7, <1>10, <2>2 DEF CountsGrow
<1>13. ChimeTyped'
  BY <1>1, <1>4, <1>5, <1>7, <1>10 DEF ChimeInv, ChimeTyped
<1>14. QED
  BY <1>9, <1>10, <1>11, <1>12, <1>13 DEF ChimeInv

(* The lines that are left.                                                *)
LEMMA LinesLeft ==
  ASSUME ChimeInv, NEW k \in 1..Len(lines), lines' = SubSeq(lines, k + 1, Len(lines))
  PROVE  /\ lines' \in Seq(LineKinds) /\ Len(lines') = Len(lines) - k /\ Len(lines) \in Nat
         /\ \A i \in 1..Len(lines') : lines'[i] = lines[k + i] /\ k + i \in k..Len(lines)
<1>1. lines \in Seq(LineKinds)
  BY DEF ChimeInv, ChimeTyped
<1>2. Len(lines) \in Nat /\ k \in Nat /\ k <= Len(lines)
  BY <1>1
<1>3. lines' \in Seq(LineKinds)
  BY <1>1, <1>2
<1>4. Len(lines') = Len(lines) - k /\ \A i \in 1..Len(lines') : lines'[i] = lines[k + i]
  BY <1>1, <1>2
<1>5. QED
  BY <1>2, <1>3, <1>4

LEMMA LoopKeeps ==
  ASSUME ChimeInv, NEW k \in 1..Len(lines), Loop(k)
  PROVE  ChimeInv'
<1> DEFINE q == lines[k].seq
           c == lines[k].counted
<1>1. /\ lines' = SubSeq(lines, k + 1, Len(lines))
      /\ UNCHANGED <<notices, turnKeys, completionSeq, stateFile, linked>>
      /\ chime' = [has |-> TRUE, seq |-> q]
  BY DEF Loop, Observed
<1>2. /\ q \in Nat /\ c \in Nat /\ q = c % SeqModulus /\ tally.heard <= c /\ c <= tally.counted
      /\ \A i \in k..Len(lines) : lines[i].counted \in Nat /\ c <= lines[i].counted
  <2>1. \A i \in 1..Len(lines) : lines[i] \in LineKinds
    BY DEF ChimeInv, ChimeTyped
  <2>2. lines \in Seq(LineKinds) /\ \A i \in k..Len(lines) : i \in 1..Len(lines) /\ k <= i
    BY DEF ChimeInv, ChimeTyped
  <2>3. QED
    BY <2>1, <2>2 DEF ChimeInv, NumberIsCount, CountsGrow, LineKinds
<1>3. /\ tally.turns \in Nat /\ tally.rings \in Nat /\ tally.again \in Nat /\ tally.counted \in Nat
      /\ tally.heard \in Nat /\ tally.silent \in BOOLEAN /\ tally.mishaps \in Nat
      /\ tally.rings <= tally.heard /\ tally.heard <= tally.counted
  BY DEF ChimeInv, ChimeTyped, TurnsPay, CountsGrow
<1>4. /\ tally' \in [turns : Nat, rings : Nat, again : Nat, counted : Nat, heard : Nat,
                     silent : BOOLEAN, mishaps : Nat]
      /\ tally'.turns = tally.turns /\ tally'.again = tally.again /\ tally'.counted = tally.counted
      /\ tally'.rings <= tally'.heard /\ tally'.heard <= c
      /\ tally'.heard % SeqModulus = q
  <2>1. tally \in [turns : Nat, rings : Nat, again : Nat, counted : Nat, heard : Nat,
                   silent : BOOLEAN, mishaps : Nat]
    BY DEF ChimeInv, ChimeTyped
  <2>2. CASE Rings(q)
    <3>1. chime.has /\ chime.seq # q /\ tally' = [tally EXCEPT !.rings = tally.rings + 1, !.heard = c, !.silent = FALSE]
      BY <2>2 DEF Loop, Observed, Rings
    <3>2. tally.heard # c
      BY <1>2, <3>1 DEF ChimeInv, NumberIsCount
    <3> HIDE DEF q, c
    <3>3. tally.rings + 1 \in Nat /\ tally.rings + 1 <= c /\ c \in Nat /\ c <= c
      BY <1>2, <1>3, <3>2
    <3>4. /\ tally' \in [turns : Nat, rings : Nat, again : Nat, counted : Nat, heard : Nat,
                         silent : BOOLEAN, mishaps : Nat]
          /\ tally'.turns = tally.turns /\ tally'.again = tally.again /\ tally'.counted = tally.counted
          /\ tally'.rings = tally.rings + 1 /\ tally'.heard = c
      BY <2>1, <3>1, <3>3
    <3>5. c % SeqModulus = q
      BY <1>2
    <3>6. QED
      BY <3>3, <3>4, <3>5
  <2>3. CASE ~chime.has
    <3>1. tally' = [tally EXCEPT !.heard = c, !.silent = FALSE]
      BY <2>3 DEF Loop, Observed, Rings
    <3>2. tally.rings <= c
      BY <1>2, <1>3
    <3> HIDE DEF q, c
    <3>3. c \in Nat /\ c <= c /\ c % SeqModulus = q
      BY <1>2
    <3>4. /\ tally' \in [turns : Nat, rings : Nat, again : Nat, counted : Nat, heard : Nat,
                         silent : BOOLEAN, mishaps : Nat]
          /\ tally'.turns = tally.turns /\ tally'.again = tally.again /\ tally'.counted = tally.counted
          /\ tally'.rings = tally.rings /\ tally'.heard = c
      BY <2>1, <3>1, <3>3
    <3>5. QED
      BY <3>2, <3>3, <3>4
  <2>4. CASE chime.has /\ chime.seq = q
    <3>1. tally' = tally
      BY <2>4 DEF Loop, Observed, Rings
    <3>2. tally.heard % SeqModulus = q
      BY <2>4 DEF ChimeInv, NumberIsCount
    <3> HIDE DEF q, c
    <3>3. QED
      BY <1>2, <1>3, <2>1, <3>1, <3>2
  <2>5. QED
    BY <2>2, <2>3, <2>4 DEF Rings
<1>5. /\ lines' \in Seq(LineKinds) /\ Len(lines') = Len(lines) - k /\ Len(lines) \in Nat
      /\ \A i \in 1..Len(lines') : lines'[i] = lines[k + i] /\ k + i \in k..Len(lines)
  BY <1>1, LinesLeft
<1>6. ChimeTyped'
  <2>1. chime' \in [has : BOOLEAN, seq : Nat]
    BY <1>1, <1>2
  <2>2. QED
    BY <1>1, <1>4, <1>5, <2>1 DEF ChimeInv, ChimeTyped
<1>7. NumberIsCount'
  <2>1. \A i \in 1..Len(lines') : lines'[i].seq = lines'[i].counted % SeqModulus
    <3>1. \A i \in 1..Len(lines') : lines'[i] = lines[k + i] /\ k + i \in 1..Len(lines)
      BY <1>5
    <3>2. \A i \in 1..Len(lines) : lines[i].seq = lines[i].counted % SeqModulus
      BY DEF ChimeInv, NumberIsCount
    <3>3. QED
      BY ONLY <3>1, <3>2
  <2>2. QED
    BY <1>1, <1>4, <2>1 DEF ChimeInv, NumberIsCount
<1>8. CountsGrow'
  <2>1. \A i \in 1..Len(lines') : tally'.heard <= lines'[i].counted /\ lines'[i].counted <= tally'.counted
    <3>1. SUFFICES ASSUME NEW i \in 1..Len(lines')
                   PROVE  tally'.heard <= lines'[i].counted /\ lines'[i].counted <= tally'.counted
      OBVIOUS
    <3>2. /\ lines'[i] = lines[k + i] /\ lines[k + i].counted \in Nat /\ c <= lines[k + i].counted
          /\ k + i \in 1..Len(lines)
      BY <1>2, <1>5
    <3>3. lines[k + i].counted <= tally.counted
      BY <3>2 DEF ChimeInv, CountsGrow
    <3>4. tally'.heard \in Nat /\ tally'.heard <= c /\ tally'.counted = tally.counted /\ c \in Nat
      BY <1>2, <1>4
    <3>5. QED
      BY <3>2, <3>3, <3>4
  <2>2. \A i, j \in 1..Len(lines') : i <= j => lines'[i].counted <= lines'[j].counted
    <3>1. SUFFICES ASSUME NEW i \in 1..Len(lines'), NEW j \in 1..Len(lines'), i <= j
                   PROVE  lines'[i].counted <= lines'[j].counted
      OBVIOUS
    <3>2. /\ lines'[i] = lines[k + i] /\ lines'[j] = lines[k + j]
          /\ k + i \in 1..Len(lines) /\ k + j \in 1..Len(lines) /\ k + i <= k + j
      BY <1>5, <3>1
    <3>3. QED
      BY <3>2 DEF ChimeInv, CountsGrow
  <2>3. tally'.heard <= tally'.counted
    BY <1>2, <1>3, <1>4
  <2>4. QED
    BY <2>1, <2>2, <2>3 DEF CountsGrow
<1>9. NumberIsTold'
  <2>1. lines # <<>> /\ linked = TRUE /\ lines[Len(lines)].seq = completionSeq
    <3>1. lines # <<>>
      BY DEF ChimeInv, ChimeTyped
    <3>2. QED
      BY <3>1 DEF ChimeInv, NumberIsTold, ChimeTyped
  <2>2. CASE k = Len(lines)
    <3>1. lines' = <<>>
      BY <1>5, <2>2
    <3>2. QED
      BY <1>1, <2>1, <2>2, <3>1 DEF NumberIsTold
  <2>3. CASE k # Len(lines)
    <3>1. Len(lines') \in 1..Len(lines') /\ k + Len(lines') = Len(lines) /\ lines' # <<>>
      BY <1>5, <2>3
    <3>2. lines'[Len(lines')] = lines[Len(lines)]
      BY <1>5, <3>1
    <3>3. QED
      BY <1>1, <2>1, <3>1, <3>2 DEF NumberIsTold
  <2>4. QED
    BY <2>2, <2>3
<1>10. TurnsPay'
  <2>1. Owed' = Owed
    BY <1>1 DEF Owed
  <2>2. QED
    BY <1>4, <2>1 DEF TurnsPay, ChimeInv
<1>11. QED
  BY <1>6, <1>7, <1>8, <1>9, <1>10 DEF ChimeInv

LEMMA ChimeInvInit ==
  ASSUME ChimeInit
  PROVE  ChimeInv
<1>1. Unheard \in [has : BOOLEAN, seq : Nat] /\ Unheard.has = FALSE /\ <<>> \in Seq(LineKinds) /\ <<>> \in Seq(OpenSessions)
  BY DEF Unheard
<1>2. /\ NoTally \in [turns : Nat, rings : Nat, again : Nat, counted : Nat, heard : Nat,
                      silent : BOOLEAN, mishaps : Nat]
      /\ NoTally.turns = 0 /\ NoTally.rings = 0 /\ NoTally.again = 0 /\ NoTally.counted = 0 /\ NoTally.heard = 0
  BY DEF NoTally
<1>3. Len(lines) = 0 /\ lines = <<>> /\ linked = FALSE /\ chime = Unheard /\ tally = NoTally
  BY DEF ChimeInit
<1>4. 0 % SeqModulus = 0
  BY ChimeAssumption
<1>5. ChimeTyped
  <2>1. notices \in [OpenSessions -> 0..2] /\ turnKeys \in Seq(OpenSessions)
    BY <1>1 DEF ChimeInit
  <2>2. lines \in Seq(LineKinds) /\ chime \in [has : BOOLEAN, seq : Nat] /\ linked \in BOOLEAN
    BY <1>1, <1>3
  <2>3. tally \in [turns : Nat, rings : Nat, again : Nat, counted : Nat, heard : Nat,
                   silent : BOOLEAN, mishaps : Nat]
    BY <1>2, <1>3
  <2>4. QED
    BY <2>1, <2>2, <2>3 DEF ChimeTyped
<1>6. NumberIsCount
  BY <1>1, <1>2, <1>3, <1>4 DEF ChimeInit, NumberIsCount
<1>7. CountsGrow /\ NumberIsTold
  BY <1>2, <1>3 DEF CountsGrow, NumberIsTold
<1>8. TurnsPay
  <2>1. Owed = {}
    BY DEF Owed, ChimeInit
  <2>2. QED
    BY <1>2, <1>3, <2>1, NothingForgotten DEF TurnsPay
<1>9. QED
  BY <1>5, <1>6, <1>7, <1>8 DEF ChimeInv

LEMMA ChimeInvStep ==
  ASSUME ChimeInv, [ChimeNext]_chimeVars
  PROVE  ChimeInv'
<1>1. ASSUME NEW s \in OpenSessions, TurnEnds(s)
      PROVE  ChimeInv'
  BY <1>1, TurnEndsKeeps
<1>2. ASSUME NEW s \in OpenSessions, Notice(s)
      PROVE  ChimeInv'
  <2>1. NoticeCounts(s) \/ NoticeKnown(s)
    BY <1>2 DEF Notice
  <2>2. QED
    BY <1>2, <2>1, NoticeCountsKeeps, NoticeKnownKeeps
<1>3. ASSUME NEW s \in OpenSessions, NoticeLost(s)
      PROVE  ChimeInv'
  BY <1>3, NoticeLostKeeps
<1>4. CASE Keepalive \/ Link
  BY <1>4, KeepaliveKeeps
<1>5. CASE Unlink
  BY <1>5, UnlinkKeeps
<1>6. ASSUME NEW k \in 1..Len(lines), Loop(k)
      PROVE  ChimeInv'
  BY <1>6, LoopKeeps
<1>7. CASE AgentRestarts
  BY <1>7, AgentRestartsKeeps
<1>8. CASE DeviceRestarts
  BY <1>8, DeviceRestartsKeeps
<1>9. CASE UNCHANGED chimeVars
  BY <1>9 DEF chimeVars, ChimeInv, ChimeTyped, NumberIsCount, CountsGrow, NumberIsTold, TurnsPay, Owed
<1>10. QED
  BY <1>1, <1>2, <1>3, <1>4, <1>5, <1>6, <1>7, <1>8, <1>9 DEF ChimeNext

LEMMA ChimeInvSays ==
  ASSUME ChimeInv
  PROVE  ChimesAreEarned /\ CountedTurnsRing
<1>1. ChimesAreEarned
  <2>1. Cardinality(Owed) \in Nat
    BY OwedTyped
  <2>2. QED
    BY <2>1 DEF ChimesAreEarned, ChimeInv, ChimeTyped, CountsGrow, TurnsPay
<1>2. ASSUME Quiet
      PROVE  (tally.counted - tally.heard) % SeqModulus = 0
  <2>1. /\ completionSeq = tally.counted % SeqModulus /\ completionSeq = tally.heard % SeqModulus
        /\ tally.counted \in Nat /\ tally.heard \in Nat
    BY <1>2 DEF Quiet, ChimeInv, ChimeTyped, NumberIsTold, NumberIsCount
  <2>2. QED
    BY <2>1, ChimeAssumption, SameRemainder
<1>3. QED
  BY <1>1, <1>2 DEF CountedTurnsRing

(* Across restarts of the agent and of the device, lost links and the wrap  *)
(* of the number, no chime without a turn, and what was counted rings       *)
(* (_record_completion_key in agent.py, completionChimeObserve): the number *)
(* is the count of the turns everywhere on its way, and counts only grow.   *)
THEOREM ChimesRing == ChimeSpec => []ChimeIsTrue
<1>1. ChimeInit => ChimeInv
  BY ChimeInvInit
<1>2. ChimeInv /\ [ChimeNext]_chimeVars => ChimeInv'
  BY ChimeInvStep
<1>3. ChimeInv => ChimeIsTrue
  BY ChimeInvSays DEF ChimeIsTrue
<1>4. QED
  BY <1>1, <1>2, <1>3, PTL DEF ChimeSpec

--------------------------------------------------------------------------------
(* What the form says so far, field by field: the decoder's own record of   *)
(* its fields exists for every form.                                       *)
Record(fields, g, m) ==
  /\ g \in [0..m -> SUBSET (FieldNames \cup {"refused"})]
  /\ g[0] = {} /\ \A n \in 1..m : g[n] = TakeField(g[n - 1], fields[n])

LEMMA TakeFieldTyped ==
  ASSUME NEW u \in SUBSET (FieldNames \cup {"refused"}), NEW f
  PROVE  TakeField(u, f) \in SUBSET (FieldNames \cup {"refused"})
BY DEF TakeField

LEMMA RecordExists ==
  ASSUME NEW fields, NEW m \in Nat
  PROVE  \E g : Record(fields, g, m)
<1> DEFINE S == {n \in Nat : \E g : Record(fields, g, n)}
<1>1. 0 \in S
  <2> DEFINE g == [n \in 0..0 |-> {}]
  <2>1. Record(fields, g, 0)
    BY DEF Record
  <2>2. QED
    BY <2>1
<1>2. ASSUME NEW n \in Nat, n \in S
      PROVE  n + 1 \in S
  <2>1. PICK g : Record(fields, g, n)
    BY <1>2
  <2> DEFINE h == [i \in 0..(n + 1) |-> IF i = n + 1 THEN TakeField(g[n], fields[n + 1]) ELSE g[i]]
  <2>2. h \in [0..(n + 1) -> SUBSET (FieldNames \cup {"refused"})]
    <3>1. \A i \in 0..(n + 1) : i # n + 1 => i \in 0..n
      OBVIOUS
    <3>2. n \in 0..n
      OBVIOUS
    <3>3. g[n] \in SUBSET (FieldNames \cup {"refused"})
      BY <2>1, <3>2 DEF Record
    <3>4. TakeField(g[n], fields[n + 1]) \in SUBSET (FieldNames \cup {"refused"})
      BY <3>3, TakeFieldTyped
    <3>5. QED
      BY <2>1, <3>1, <3>4 DEF Record
  <2>3. h[0] = {}
    BY <2>1 DEF Record
  <2>4. ASSUME NEW i \in 1..(n + 1)
        PROVE  h[i] = TakeField(h[i - 1], fields[i])
    <3>1. CASE i = n + 1
      <4>1. i - 1 = n /\ n \in 0..(n + 1) /\ n # n + 1 /\ n + 1 \in 0..(n + 1)
        BY <3>1
      <4>2. h[i - 1] = g[n]
        BY <4>1
      <4>3. QED
        BY <3>1, <4>1, <4>2
    <3>2. CASE i # n + 1
      <4>1. i \in 1..n /\ i \in 0..(n + 1) /\ i - 1 \in 0..(n + 1) /\ i - 1 # n + 1
        BY <3>2
      <4>2. g[i] = TakeField(g[i - 1], fields[i])
        BY <2>1, <4>1 DEF Record
      <4>3. h[i] = g[i] /\ h[i - 1] = g[i - 1]
        BY <3>2, <4>1
      <4>4. QED
        BY <4>2, <4>3
    <3>3. QED
      BY <3>1, <3>2
  <2> HIDE DEF h
  <2>5. Record(fields, h, n + 1)
    BY <2>2, <2>3, <2>4 DEF Record
  <2>6. QED
    BY <2>5
<1> HIDE DEF S
<1>3. 0..m \subseteq S
  BY <1>1, <1>2, UpTo
<1>4. m \in S
  BY <1>3
<1>5. QED
  BY <1>4 DEF S

LEMMA DecodesByRecord ==
  ASSUME NEW fields, Len(fields) \in Nat
  PROVE  \E g : Record(fields, g, Len(fields)) /\ (DecodesForm(fields) <=> g[Len(fields)] = FieldNames)
<1> DEFINE m == Len(fields)
           It(g) == [n \in 0..m |-> IF n = 0 THEN {} ELSE TakeField(g[n - 1], fields[n])]
           seenThen == CHOOSE g : g = It(g)
<1>1. PICK g : Record(fields, g, m)
  BY RecordExists
<1>2. g = It(g)
  BY <1>1 DEF Record
<1>3. seenThen = It(seenThen)
  <2> HIDE DEF It
  <2>1. QED
    BY <1>2
<1>4. DecodesForm(fields) <=> seenThen[m] = FieldNames
  BY DEF DecodesForm
<1>5. \A n \in 0..m : seenThen[n] = g[n]
  <2> DEFINE S == {n \in 0..m : seenThen[n] = g[n]}
  <2>1. \A n \in 0..m : seenThen[n] = IF n = 0 THEN {} ELSE TakeField(seenThen[n - 1], fields[n])
    <3> HIDE DEF seenThen
    <3>1. QED
      BY <1>3
  <2> HIDE DEF seenThen
  <2>2. m \in Nat /\ 0 \in 0..m
    OBVIOUS
  <2>3. 0 \in S
    BY <1>1, <2>1, <2>2 DEF Record
  <2>4. ASSUME NEW n \in 0..(m - 1), n \in S
        PROVE  n + 1 \in S
    <3>1. n + 1 \in 0..m /\ n + 1 \in 1..m /\ (n + 1) - 1 = n /\ n + 1 # 0
      BY <2>2
    <3>2. seenThen[n + 1] = TakeField(seenThen[n], fields[n + 1]) /\ g[n + 1] = TakeField(g[n], fields[n + 1])
      BY <1>1, <2>1, <3>1 DEF Record
    <3>3. QED
      BY <2>4, <3>1, <3>2
  <2> HIDE DEF S, m
  <2>5. 0..m \subseteq S
    BY <2>2, <2>3, <2>4, UpTo
  <2>6. QED
    BY <2>5 DEF S
<1> HIDE DEF seenThen
<1>6. m \in 0..m
  OBVIOUS
<1>7. QED
  BY <1>1, <1>4, <1>5, <1>6

FieldKinds == [name : FieldNames \cup {"unknown"}, value : {"usable", "unusable", "undecodable"}]

LEMMA FormsAre ==
  ASSUME NEW fields \in Forms
  PROVE  /\ Len(fields) \in Nat /\ DOMAIN fields = 1..Len(fields)
         /\ \A i \in 1..Len(fields) : fields[i] \in FieldKinds
<1> DEFINE Form(k, names, at, v) ==
             [i \in 1..k |-> [name |-> names[i], value |-> IF i = at THEN v ELSE "usable"]]
           FormsOf(k) ==
             {Form(k, names, at, v) :
                names \in [1..k -> FieldNames \cup {"unknown"}], at \in 0..k, v \in {"unusable", "undecodable"}}
<1>0. PICK n \in 0..MaxFields : fields \in FormsOf(n)
  <2>1. Forms = UNION {FormsOf(k) : k \in 0..MaxFields}
    BY DEF Forms
  <2> HIDE DEF FormsOf
  <2>2. QED
    BY <2>1
<1>1. PICK names \in [1..n -> FieldNames \cup {"unknown"}], at \in 0..n, v \in {"unusable", "undecodable"} :
        fields = Form(n, names, at, v)
  <2> HIDE DEF Form
  <2>1. QED
    BY <1>0
<1>2. n \in Nat
  BY PortalAssumption
<1>3. ASSUME NEW i \in 1..n
      PROVE  fields[i] \in FieldKinds
  <2>1. fields[i] = [name |-> names[i], value |-> IF i = at THEN v ELSE "usable"]
    BY <1>1
  <2>2. (IF i = at THEN v ELSE "usable") \in {"usable", "unusable", "undecodable"}
    BY <1>1
  <2>3. names[i] \in FieldNames \cup {"unknown"}
    BY <1>1
  <2>4. QED
    BY <2>1, <2>2, <2>3 DEF FieldKinds
<1>4. DOMAIN fields = 1..n
  BY <1>1
<1>5. Len(fields) = n
  BY <1>2, <1>4
<1>6. QED
  BY <1>2, <1>3, <1>4, <1>5

LEMMA ThreeNames ==
  /\ IsFiniteSet(FieldNames) /\ Cardinality(FieldNames) = 3 /\ "refused" \notin FieldNames
<1>1. IsFiniteSet({}) /\ Cardinality({}) = 0
  BY FS_EmptySet
<1>2. IsFiniteSet({} \cup {"nonce"}) /\ Cardinality({} \cup {"nonce"}) = 1
  BY <1>1, FS_AddElement
<1>3. IsFiniteSet({} \cup {"nonce"} \cup {"ssid"}) /\ Cardinality({} \cup {"nonce"} \cup {"ssid"}) = 2
  BY <1>2, FS_AddElement
<1>4. /\ IsFiniteSet({} \cup {"nonce"} \cup {"ssid"} \cup {"password"})
      /\ Cardinality({} \cup {"nonce"} \cup {"ssid"} \cup {"password"}) = 3
  BY <1>3, FS_AddElement
<1>5. FieldNames = {} \cup {"nonce"} \cup {"ssid"} \cup {"password"}
  BY DEF FieldNames
<1>6. "refused" \notin FieldNames
  BY DEF FieldNames
<1>7. QED
  BY <1>4, <1>5, <1>6

(* What was taken is what was there: the names of the fields so far, each  *)
(* once and decodable, unless something was refused.                       *)
TakenIsThere(fields, g, n) ==
  /\ g[n] = {fields[j].name : j \in 1..n} /\ g[n] \subseteq FieldNames
  /\ IsFiniteSet(g[n]) /\ Cardinality(g[n]) = n

LEMMA TakenSoFar ==
  ASSUME NEW fields, NEW m \in Nat, NEW g, Record(fields, g, m)
  PROVE  "refused" \in g[m] \/ TakenIsThere(fields, g, m)
<1> DEFINE S == {n \in 0..m : "refused" \in g[n] \/ TakenIsThere(fields, g, n)}
<1>1. 0 \in S
  <2>1. g[0] = {} /\ {fields[j].name : j \in 1..0} = {} /\ 0 \in 0..m
    BY DEF Record
  <2>2. QED
    BY <2>1, FS_EmptySet DEF TakenIsThere
<1>2. ASSUME NEW n \in 0..(m - 1), n \in S
      PROVE  n + 1 \in S
  <2>1. n + 1 \in 1..m /\ n + 1 \in 0..m /\ (n + 1) - 1 = n
    OBVIOUS
  <2> DEFINE f == fields[n + 1]
  <2>2. g[n + 1] = TakeField(g[n], f)
    BY <2>1 DEF Record
  <2>3. CASE "refused" \in g[n + 1]
    BY <2>1, <2>3
  <2>4. CASE "refused" \notin g[n + 1]
    <3>1. "refused" \notin g[n] /\ f.name \in FieldNames \ g[n] /\ g[n + 1] = g[n] \cup {f.name}
      BY <2>2, <2>4 DEF TakeField
    <3>2. TakenIsThere(fields, g, n)
      BY <1>2, <3>1
    <3>3. {fields[j].name : j \in 1..(n + 1)} = {fields[j].name : j \in 1..n} \cup {f.name}
      <4>1. 1..(n + 1) = 1..n \cup {n + 1}
        BY <2>1
      <4>2. QED
        BY <4>1
    <3>4. IsFiniteSet(g[n + 1]) /\ Cardinality(g[n + 1]) = n + 1
      <4>1. IsFiniteSet(g[n]) /\ Cardinality(g[n]) = n /\ f.name \notin g[n]
        BY <3>1, <3>2 DEF TakenIsThere
      <4>2. QED
        BY <3>1, <4>1, FS_AddElement
    <3>5. TakenIsThere(fields, g, n + 1)
      BY <3>1, <3>2, <3>3, <3>4 DEF TakenIsThere
    <3>6. QED
      BY <2>1, <3>5
  <2>5. QED
    BY <2>3, <2>4
<1> HIDE DEF S
<1>3. m \in S
  <2>1. 0..m \subseteq S
    BY <1>1, <1>2, UpTo
  <2>2. QED
    BY <2>1
<1>4. QED
  BY <1>3 DEF S

(* Three fields with the three names are taken one after the other.        *)
LEMMA ThreeAreTaken ==
  ASSUME NEW fields, NEW g, Record(fields, g, 3), {fields[i].name : i \in 1..3} = FieldNames,
         \A i \in 1..3 : fields[i].value = "usable"
  PROVE  g[3] = FieldNames
<1> DEFINE a == fields[1].name
           b == fields[2].name
           c == fields[3].name
<1>1. g[0] = {} /\ g[1] = TakeField(g[0], fields[1]) /\ g[2] = TakeField(g[1], fields[2]) /\ g[3] = TakeField(g[2], fields[3])
  <2>1. \A n \in 1..3 : g[n] = TakeField(g[n - 1], fields[n])
    BY DEF Record
  <2>2. 1 \in 1..3 /\ 2 \in 1..3 /\ 3 \in 1..3 /\ 1 - 1 = 0 /\ 2 - 1 = 1 /\ 3 - 1 = 2
    OBVIOUS
  <2>3. g[0] = {}
    BY DEF Record
  <2>4. QED
    BY <2>1, <2>2, <2>3
<1>2. {a, b, c} = FieldNames
  <2>1. 1..3 = {1, 2, 3}
    OBVIOUS
  <2>2. {fields[i].name : i \in {1, 2, 3}} = {a, b, c}
    OBVIOUS
  <2>3. QED
    BY <2>1, <2>2
<1>3. fields[1].value # "undecodable" /\ fields[2].value # "undecodable" /\ fields[3].value # "undecodable"
  <2>1. 1 \in 1..3 /\ 2 \in 1..3 /\ 3 \in 1..3
    OBVIOUS
  <2>2. QED
    BY <2>1
<1> HIDE DEF a, b, c
<1>4. a # b /\ a # c /\ b # c /\ a # "refused" /\ b # "refused" /\ {a, b, c} \subseteq FieldNames
  BY <1>2 DEF FieldNames
<1>5. g[1] = {a}
  BY <1>1, <1>3, <1>4 DEF TakeField, a
<1>6. g[2] = {a, b}
  BY <1>1, <1>3, <1>4, <1>5 DEF TakeField, b
<1>7. g[3] = {a, b, c}
  BY <1>1, <1>3, <1>4, <1>6 DEF TakeField, c
<1>8. QED
  BY <1>2, <1>7

LEMMA FormsAreJudged ==
  ASSUME NEW fields \in Forms
  PROVE  FormValid(fields) <=>
           /\ Len(fields) = 3
           /\ {fields[i].name : i \in DOMAIN fields} = FieldNames
           /\ \A i \in DOMAIN fields : fields[i].value = "usable"
<1> DEFINE m == Len(fields)
<1>1. m \in Nat /\ DOMAIN fields = 1..m
  BY FormsAre
<1>2. PICK g : Record(fields, g, m) /\ (DecodesForm(fields) <=> g[m] = FieldNames)
  BY <1>1, DecodesByRecord
<1> HIDE DEF m
<1>3. ASSUME FormValid(fields)
      PROVE  /\ m = 3
             /\ {fields[i].name : i \in DOMAIN fields} = FieldNames
             /\ \A i \in DOMAIN fields : fields[i].value = "usable"
  <2>1. g[m] = FieldNames
    BY <1>2, <1>3 DEF FormValid
  <2>2. TakenIsThere(fields, g, m)
    BY <1>1, <1>2, <2>1, TakenSoFar, ThreeNames
  <2>3. QED
    BY <1>1, <1>3, <2>1, <2>2, ThreeNames DEF TakenIsThere, FormValid
<1>4. ASSUME m = 3, {fields[i].name : i \in DOMAIN fields} = FieldNames,
             \A i \in DOMAIN fields : fields[i].value = "usable"
      PROVE  FormValid(fields)
  <2>1. g[3] = FieldNames
    BY <1>1, <1>2, <1>4, ThreeAreTaken
  <2>2. QED
    BY <1>2, <1>4, <2>1 DEF FormValid
<1>5. QED
  BY <1>3, <1>4 DEF m

(***************************************************************************)
(* The request so far: what the headers said is what the parser knows.     *)
(***************************************************************************)

BadLines == {"badLength", "otherType", "encoding", "noColon"} \X {0}
ParserPhases == {"requestLine", "headers", "body", "complete", "rejected"}
Parsers ==
  [phase : ParserPhases, method : {"none", "get", "post"}, save : BOOLEAN, line : Nat, bytes : Nat,
   headers : Nat, length : Nat, body : Nat, form : BOOLEAN, encoding : BOOLEAN, status : Nat]

PortalTyped ==
  /\ client \in BOOLEAN /\ polled \in BOOLEAN
  /\ parser \in Parsers
  /\ idle \in Nat /\ age \in Nat /\ left \in Nat

BuffersHold ==
  /\ parser.phase = "requestLine" => parser.line <= MaxRequestLine
  /\ parser.phase # "requestLine" => parser.line <= MaxHeaderLine
  /\ parser.body <= MaxBody

SaidOf(p, heads) ==
  /\ p.phase \in {"headers", "body", "complete"} =>
        /\ heads \cap BadLines = {}
        /\ p.form => <<"formType", 0>> \in heads
        /\ p.length > 0 => <<"length", p.length>> \in heads
        /\ p.method # "none"
  /\ p.phase = "requestLine" => heads = {} /\ ~p.form /\ p.length = 0
  /\ p.phase \in {"requestLine", "headers"} => p.body = 0
SaidIsKnown == SaidOf(parser, said)

FitToPost(p) ==
  /\ p.phase = "body" => p.body < p.length /\ p.length <= MaxBody
  /\ p.phase = "body" \/ (p.phase = "complete" /\ p.method = "post") =>
        p.save /\ p.form /\ p.length > 0
  /\ p.phase = "complete" /\ p.method = "post" => p.body = p.length
PostIsFit == FitToPost(parser)

(* A client that has had its time is seen by the poll that is due.         *)
TimeIsSeen ==
  /\ ~client => age = 0 /\ parser = FreshParser /\ said = {}
  /\ age <= TotalTimeout + 1 /\ (age = TotalTimeout + 1 => ~polled)

AnswerIsOfThis == client => posted = <<>>

PortalInv ==
  PortalTyped /\ BuffersHold /\ SaidIsKnown /\ PostIsFit /\ TimeIsSeen /\ AnswerIsOfThis /\ FormsJudged

LEMMA Limits ==
  /\ MaxRequestLine \in Nat /\ MaxHeaderLine \in Nat /\ MaxBody \in Nat /\ MaxFields \in Nat
  /\ PollBytes \in Nat /\ IdleTimeout \in Nat /\ TotalTimeout \in Nat /\ MaxHeaders \in Nat
  /\ MaxRequestLine <= MaxHeaderLine
BY PortalAssumption

LEMMA FreshParserTyped ==
  /\ FreshParser \in Parsers /\ FreshParser.phase = "requestLine" /\ FreshParser.line = 0
  /\ FreshParser.body = 0 /\ FreshParser.length = 0 /\ FreshParser.form = FALSE
BY DEF FreshParser, Parsers, ParserPhases

LEMMA RejectedTyped ==
  ASSUME NEW p \in Parsers, NEW status \in Nat
  PROVE  /\ Rejected(p, status) \in Parsers /\ Rejected(p, status).phase = "rejected"
         /\ Rejected(p, status).line = p.line /\ Rejected(p, status).body = p.body
<1>1. "rejected" \in ParserPhases
  BY DEF ParserPhases
<1>2. Rejected(p, status) = [p EXCEPT !.phase = "rejected", !.status = status]
  BY DEF Rejected
<1>3. QED
  BY <1>1, <1>2 DEF Parsers

(* The parser moves; the rest of a poll is the same for every byte.        *)
LEMMA ReadKeeps ==
  ASSUME PortalInv, NEW p \in Parsers, Read(p), BuffersHold', SaidIsKnown', PostIsFit'
  PROVE  PortalInv'
<1>1. /\ client /\ left > 0 /\ parser' = p /\ left' = left - 1 /\ idle' = 0
      /\ UNCHANGED <<client, age, polled, answer, posted>>
  BY DEF Read
<1>2. PortalTyped'
  <2>1. left' \in Nat /\ idle' \in Nat /\ parser' \in Parsers
    BY <1>1 DEF PortalInv, PortalTyped
  <2>2. QED
    BY <1>1, <2>1 DEF PortalInv, PortalTyped
<1>3. TimeIsSeen' /\ AnswerIsOfThis' /\ FormsJudged'
  BY <1>1 DEF PortalInv, TimeIsSeen, AnswerIsOfThis, FormsJudged
<1>4. QED
  BY <1>2, <1>3 DEF PortalInv

LEMMA RejectedKeeps ==
  ASSUME PortalInv, NEW p \in Parsers, Read(p), p.phase = "rejected", p.line <= MaxHeaderLine, p.body <= MaxBody
  PROVE  PortalInv'
<1>1. parser' = p
  BY DEF Read
<1>2. BuffersHold' /\ SaidIsKnown' /\ PostIsFit'
  BY <1>1 DEF BuffersHold, SaidIsKnown, PostIsFit, SaidOf, FitToPost
<1>3. QED
  BY <1>2, ReadKeeps

LEMMA ParserNow ==
  ASSUME PortalInv
  PROVE  /\ parser \in Parsers /\ parser.line <= MaxHeaderLine /\ parser.body <= MaxBody
         /\ parser.line \in Nat /\ parser.bytes \in Nat /\ parser.headers \in Nat /\ parser.length \in Nat
         /\ parser.body \in Nat /\ parser.phase \in ParserPhases /\ parser.method \in {"none", "get", "post"}
         /\ parser.save \in BOOLEAN /\ parser.form \in BOOLEAN
BY Limits DEF PortalInv, PortalTyped, Parsers, BuffersHold

LEMMA ReadBodyKeeps ==
  ASSUME PortalInv, ReadBody
  PROVE  PortalInv'
<1>1. parser.phase = "body" /\ Read(BodyByte(parser)) /\ UNCHANGED said
  BY DEF ReadBody
<1>2. CASE parser.body >= MaxBody
  <2>1. BodyByte(parser) = Rejected(parser, 413)
    BY <1>2 DEF BodyByte
  <2>2. 413 \in Nat
    OBVIOUS
  <2>3. /\ Rejected(parser, 413) \in Parsers /\ Rejected(parser, 413).phase = "rejected"
        /\ Rejected(parser, 413).line = parser.line /\ Rejected(parser, 413).body = parser.body
    BY <2>2, ParserNow, RejectedTyped, ZenonT(60)
  <2>4. Read(Rejected(parser, 413))
    BY <1>1, <2>1
  <2>5. QED
    BY <2>3, <2>4, ParserNow, RejectedKeeps
<1>3. CASE parser.body < MaxBody
  <2> DEFINE q == [parser EXCEPT !.body = parser.body + 1]
             p == BodyByte(parser)
  <2>1. q \in Parsers /\ q.body = parser.body + 1 /\ q.line = parser.line /\ q.length = parser.length
        /\ q.phase = "body" /\ q.form = parser.form /\ q.method = parser.method /\ q.save = parser.save
    <3>1. parser.body + 1 \in Nat
      BY ParserNow
    <3>2. QED
      BY <1>1, <3>1, ParserNow DEF Parsers
  <2>2. p = IF q.body = q.length THEN [q EXCEPT !.phase = "complete"] ELSE q
    <3>1. ~(parser.body >= MaxBody)
      BY <1>3, ParserNow, Limits
    <3>2. QED
      BY <3>1 DEF BodyByte
  <2> HIDE DEF q, p
  <2>3. /\ p \in Parsers /\ p.body = parser.body + 1 /\ p.line = parser.line /\ p.length = parser.length
        /\ p.form = parser.form /\ p.method = parser.method /\ p.save = parser.save
        /\ p.phase = IF parser.body + 1 = parser.length THEN "complete" ELSE "body"
    <3>1. CASE q.body = q.length
      <4>1. p = [q EXCEPT !.phase = "complete"]
        BY <2>2, <3>1
      <4>2. "complete" \in ParserPhases
        BY DEF ParserPhases
      <4>3. /\ p \in Parsers /\ p.body = q.body /\ p.line = q.line /\ p.length = q.length
            /\ p.form = q.form /\ p.method = q.method /\ p.save = q.save /\ p.phase = "complete"
        BY <2>1, <4>1, <4>2 DEF Parsers
      <4>4. QED
        BY <2>1, <3>1, <4>3
    <3>2. CASE q.body # q.length
      BY <2>1, <2>2, <3>2
    <3>3. QED
      BY <3>1, <3>2
  <2>4. parser' = p /\ Read(p)
    BY <1>1 DEF Read, p
  <2>5. /\ parser.body < parser.length /\ parser.length <= MaxBody /\ parser.save /\ parser.form
        /\ parser.length > 0 /\ said \cap BadLines = {} /\ (parser.form => <<"formType", 0>> \in said)
        /\ (parser.length > 0 => <<"length", parser.length>> \in said) /\ parser.method # "none"
    BY <1>1 DEF PortalInv, SaidIsKnown, PostIsFit, SaidOf, FitToPost
  <2>6. BuffersHold'
    BY <1>3, <2>3, <2>4, ParserNow, Limits DEF BuffersHold
  <2>7. SaidIsKnown'
    BY <1>1, <2>3, <2>4, <2>5 DEF SaidIsKnown, SaidOf
  <2>8. PostIsFit'
    <3>1. parser.body + 1 # parser.length => parser.body + 1 < parser.length
      BY <2>5, ParserNow
    <3>2. QED
      BY <2>3, <2>4, <2>5, <3>1 DEF PostIsFit, FitToPost
  <2>9. QED
    BY <2>3, <2>4, <2>6, <2>7, <2>8, ReadKeeps
<1>4. QED
  BY <1>2, <1>3, ParserNow, Limits

LEMMA CountedTyped ==
  ASSUME NEW p \in Parsers
  PROVE  /\ Counted(p) \in Parsers /\ Counted(p).phase = p.phase /\ Counted(p).line = p.line
         /\ Counted(p).body = p.body /\ Counted(p).length = p.length /\ Counted(p).form = p.form
         /\ Counted(p).method = p.method /\ Counted(p).save = p.save /\ Counted(p).headers = p.headers
         /\ Counted(p).encoding = p.encoding
<1>1. p.bytes + 1 \in Nat
  BY DEF Parsers
<1>2. Counted(p) = [p EXCEPT !.bytes = p.bytes + 1]
  BY DEF Counted
<1>3. QED
  BY <1>1, <1>2 DEF Parsers

(* A line ends: with a parser that knows what was said it goes on.         *)
LEMMA NewLineKeeps ==
  ASSUME PortalInv, NEW q \in Parsers, Read(NewLine(parser, q)), q.body <= MaxBody,
         q.phase # "rejected" => SaidOf(q, said') /\ FitToPost(q)
  PROVE  PortalInv'
<1> DEFINE p == NewLine(parser, q)
<1>1. CASE TooMany(parser)
  <2>1. p = Rejected(Counted(parser), 431) /\ 431 \in Nat
    BY <1>1 DEF NewLine
  <2>2. Counted(parser) \in Parsers /\ Counted(parser).line = parser.line /\ Counted(parser).body = parser.body
    BY ParserNow, CountedTyped
  <2>3. p \in Parsers /\ p.phase = "rejected" /\ p.line = parser.line /\ p.body = parser.body
    BY <2>1, <2>2, RejectedTyped
  <2>4. QED
    BY <2>3, ParserNow, RejectedKeeps
<1>2. CASE ~TooMany(parser)
  <2>1. p = [q EXCEPT !.line = 0]
    BY <1>2 DEF NewLine
  <2> HIDE DEF p
  <2>2. /\ p \in Parsers /\ p.phase = q.phase /\ p.line = 0 /\ p.body = q.body /\ p.length = q.length
        /\ p.form = q.form /\ p.method = q.method /\ p.save = q.save
    BY <2>1 DEF Parsers
  <2>3. 0 <= MaxHeaderLine /\ 0 <= MaxRequestLine
    BY Limits
  <2>4. Read(p) /\ parser' = p
    BY DEF p, Read
  <2>5. CASE p.phase = "rejected"
    BY <2>2, <2>3, <2>4, <2>5, RejectedKeeps
  <2>6. CASE p.phase # "rejected"
    <3>1. SaidIsKnown' /\ PostIsFit' /\ BuffersHold'
      BY <2>2, <2>3, <2>4, <2>6 DEF SaidIsKnown, PostIsFit, SaidOf, FitToPost, BuffersHold
    <3>2. QED
      BY <2>2, <2>4, <3>1, ReadKeeps
  <2>7. QED
    BY <2>5, <2>6
<1>3. QED
  BY <1>1, <1>2

LEMMA ReadLineByteKeeps ==
  ASSUME PortalInv, ReadLineByte
  PROVE  PortalInv'
<1> DEFINE c == Counted(parser)
<1>1. /\ parser.phase # "body" /\ UNCHANGED said /\ ~Done(parser)
      /\ Read(LineByte(parser)) \/ Read(CarriageReturn(parser))
  BY DEF ReadLineByte, Read
<1>2. parser.phase = "requestLine" \/ parser.phase = "headers"
  BY <1>1, ParserNow DEF Done, ParserPhases
<1>3. /\ c \in Parsers /\ c.phase = parser.phase /\ c.line = parser.line /\ c.body = parser.body
      /\ c.length = parser.length /\ c.form = parser.form /\ c.method = parser.method /\ c.save = parser.save
  BY ParserNow, CountedTyped
<1>4. CASE Read(Rejected(c, 431))
  <2>1. /\ Rejected(c, 431) \in Parsers /\ Rejected(c, 431).phase = "rejected"
        /\ Rejected(c, 431).line = c.line /\ Rejected(c, 431).body = c.body
    <3>1. 431 \in Nat
      OBVIOUS
    <3>2. QED
      BY <1>3, <3>1, RejectedTyped
  <2>2. QED
    BY <1>3, <1>4, <2>1, ParserNow, RejectedKeeps
<1>5. ASSUME NEW p \in Parsers, Read(p), p.phase = parser.phase, p.line <= LineMax(parser), p.body = parser.body,
             p.length = parser.length, p.form = parser.form, p.method = parser.method, p.save = parser.save
      PROVE  PortalInv'
  <2>1. parser' = p
    BY <1>5 DEF Read
  <2>2. SaidIsKnown' /\ PostIsFit'
    BY <1>1, <1>2, <1>5, <2>1 DEF PortalInv, SaidIsKnown, PostIsFit, SaidOf, FitToPost
  <2>3. BuffersHold'
    BY <1>2, <1>5, <2>1, ParserNow DEF BuffersHold, LineMax
  <2>4. QED
    BY <1>5, <2>2, <2>3, ReadKeeps
<1>6. LineMax(parser) \in Nat /\ (parser.line <= LineMax(parser))
  BY Limits DEF LineMax, PortalInv, BuffersHold
<1>7. CASE Read(LineByte(parser)) /\ ~(TooMany(parser) \/ parser.line >= LineMax(parser))
  <2> DEFINE p == LineByte(parser)
  <2>1. p = [c EXCEPT !.line = c.line + 1]
    BY <1>7 DEF LineByte
  <2>2. parser.line + 1 \in Nat /\ parser.line + 1 <= LineMax(parser)
    BY <1>6, <1>7, ParserNow
  <2> HIDE DEF c
  <2> HIDE DEF p
  <2>3. /\ p \in Parsers /\ p.phase = c.phase /\ p.line = c.line + 1 /\ p.body = c.body /\ p.length = c.length
        /\ p.form = c.form /\ p.method = c.method /\ p.save = c.save
    BY <1>3, <2>1, <2>2 DEF Parsers
  <2>4. Read(p)
    BY <1>7 DEF p
  <2>5. QED
    BY <1>3, <1>5, <2>2, <2>3, <2>4
<1>8. CASE Read(CarriageReturn(parser)) /\ ~TooMany(parser)
  <2>1. Read(c)
    BY <1>8 DEF CarriageReturn
  <2> HIDE DEF c
  <2>2. QED
    BY <1>3, <1>5, <1>6, <2>1
<1>9. QED
  BY <1>1, <1>4, <1>7, <1>8 DEF LineByte, CarriageReturn

LEMMA ReadRequestLineKeeps ==
  ASSUME PortalInv, ReadRequestLine
  PROVE  PortalInv'
<1> DEFINE c == Counted(parser)
<1>1. PICK line \in RequestLines : Read(NewLine(parser, RequestLine(c, line)))
  BY DEF ReadRequestLine
<1>2. parser.phase = "requestLine" /\ UNCHANGED said
  BY DEF ReadRequestLine
<1>3. /\ c \in Parsers /\ c.phase = parser.phase /\ c.line = parser.line /\ c.body = parser.body
      /\ c.length = parser.length /\ c.form = parser.form
  BY ParserNow, CountedTyped
<1>4. said = {} /\ ~parser.form /\ parser.length = 0 /\ parser.body = 0
  BY <1>2 DEF PortalInv, SaidIsKnown, SaidOf
<1> DEFINE q == RequestLine(c, line)
<1> HIDE DEF c
<1>5. CASE c.line = 0 \/ line = "malformed"
  <2>1. q = Rejected(c, 400) /\ 400 \in Nat
    BY <1>5 DEF RequestLine
  <2>2. q \in Parsers /\ q.phase = "rejected" /\ q.body = c.body
    BY <1>3, <2>1, RejectedTyped
  <2>3. QED
    BY <1>1, <1>3, <2>2, ParserNow, NewLineKeeps
<1>6. CASE ~(c.line = 0 \/ line = "malformed")
  <2> DEFINE m == IF line = "get" THEN "get" ELSE "post"
             s == (line = "postSave")
  <2>1. q = [c EXCEPT !.phase = "headers", !.method = m, !.save = s]
    BY <1>6 DEF RequestLine
  <2>2. "headers" \in ParserPhases /\ m \in {"none", "get", "post"} /\ m # "none"
    BY DEF ParserPhases
  <2>3. s \in BOOLEAN
    OBVIOUS
  <2> HIDE DEF q, m, s
  <2>4. /\ q \in Parsers /\ q.phase = "headers" /\ q.method = m /\ q.body = c.body /\ q.length = c.length
        /\ q.form = c.form
    BY <1>3, <2>1, <2>2, <2>3 DEF Parsers
  <2>5. SaidOf(q, said') /\ FitToPost(q)
    BY <1>2, <1>3, <1>4, <2>2, <2>4 DEF SaidOf, FitToPost
  <2>6. Read(NewLine(parser, q))
    BY <1>1 DEF q
  <2>7. QED
    BY <1>3, <2>4, <2>5, <2>6, ParserNow, NewLineKeeps
<1>7. QED
  BY <1>5, <1>6

LEMMA HeaderLinesAre ==
  ASSUME NEW line \in HeaderLines
  PROVE  /\ line = <<line[1], line[2]>>
         /\ \/ line[1] = "length" /\ line[2] \in Nat
            \/ line[1] \in {"badLength", "formType", "otherType", "encoding", "other", "noColon"} /\ line[2] = 0
         /\ line \in BadLines => line[1] \in {"badLength", "otherType", "encoding", "noColon"}
<1>1. CASE line \in {"length"} \X (0..(MaxBody + 1))
  <2>1. line = <<line[1], line[2]>> /\ line[1] = "length" /\ line[2] \in 0..(MaxBody + 1)
    BY <1>1
  <2>2. line[2] \in Nat
    BY <2>1, Limits
  <2>3. line \notin BadLines
    BY <2>1 DEF BadLines
  <2>4. QED
    BY <2>1, <2>2, <2>3
<1>2. CASE line \in {"badLength", "formType", "otherType", "encoding", "other", "noColon"} \X {0}
  BY <1>2 DEF BadLines
<1>3. QED
  BY <1>1, <1>2 DEF HeaderLines

LEMMA ReadHeaderLineKeeps ==
  ASSUME PortalInv, ReadHeaderLine
  PROVE  PortalInv'
<1> DEFINE c == Counted(parser)
<1>1. PICK line \in HeaderLines :
        Read(NewLine(parser, HeaderLine(c, line))) /\ said' = said \cup {line}
  BY DEF ReadHeaderLine
<1>2. parser.phase = "headers"
  BY DEF ReadHeaderLine
<1>3. /\ c \in Parsers /\ c.phase = "headers" /\ c.line = parser.line /\ c.body = parser.body
      /\ c.length = parser.length /\ c.form = parser.form /\ c.method = parser.method /\ c.headers = parser.headers
  BY <1>2, ParserNow, CountedTyped
<1>4. /\ parser.body = 0 /\ said \cap BadLines = {} /\ (parser.form => <<"formType", 0>> \in said)
      /\ (parser.length > 0 => <<"length", parser.length>> \in said) /\ parser.method # "none"
  BY <1>2 DEF PortalInv, SaidIsKnown, SaidOf
<1>5. /\ line = <<line[1], line[2]>>
      /\ \/ line[1] = "length" /\ line[2] \in Nat
         \/ line[1] \in {"badLength", "formType", "otherType", "encoding", "other", "noColon"} /\ line[2] = 0
      /\ line \in BadLines => line[1] \in {"badLength", "otherType", "encoding", "noColon"}
  BY HeaderLinesAre
<1> DEFINE q == [c EXCEPT !.headers = c.headers + 1]
           p == HeaderLine(c, line)
<1> HIDE DEF c
<1>6. /\ q \in Parsers /\ q.phase = "headers" /\ q.body = 0 /\ q.length = parser.length /\ q.form = parser.form
      /\ q.method = parser.method
  <2>1. c.headers + 1 \in Nat
    BY <1>3 DEF Parsers
  <2>2. QED
    BY <1>3, <1>4, <2>1 DEF Parsers
<1>7. /\ q.headers > MaxHeaders \/ line[1] \in {"badLength", "noColon"} => p = Rejected(q, 400)
      /\ ~(q.headers > MaxHeaders) =>
           /\ line[1] = "length" => p = [q EXCEPT !.length = line[2]]
           /\ line[1] = "formType" => p = [q EXCEPT !.form = TRUE]
           /\ line[1] = "otherType" => p = Rejected([q EXCEPT !.form = FALSE], 400)
           /\ line[1] = "encoding" => p = Rejected([q EXCEPT !.encoding = TRUE], 400)
           /\ line[1] = "other" => p = q
  <2>1. p = CASE q.headers > MaxHeaders \/ line[1] \in {"badLength", "noColon"} -> Rejected(q, 400)
        [] q.headers <= MaxHeaders /\ line[1] = "length" -> [q EXCEPT !.length = line[2]]
        [] q.headers <= MaxHeaders /\ line[1] = "formType" -> [q EXCEPT !.form = TRUE]
        [] q.headers <= MaxHeaders /\ line[1] = "otherType" -> Rejected([q EXCEPT !.form = FALSE], 400)
        [] q.headers <= MaxHeaders /\ line[1] = "encoding" -> Rejected([q EXCEPT !.encoding = TRUE], 400)
        [] OTHER -> q
    BY DEF HeaderLine
  <2>2. q.headers \in Nat /\ MaxHeaders \in Nat
    BY <1>6, Limits DEF Parsers
  <2>3. q.headers > MaxHeaders <=> ~(q.headers <= MaxHeaders)
    BY <2>2
  <2> HIDE DEF p, q
  <2>4. QED
    BY <2>1, <2>3
<1>8. Read(NewLine(parser, p))
  BY <1>1
<1> HIDE DEF p, q
<1>9. 400 \in Nat /\ 0 <= MaxBody
  BY Limits
<1>10. ASSUME p.phase = "rejected", p \in Parsers, p.body = 0
       PROVE  PortalInv'
  BY <1>8, <1>9, <1>10, NewLineKeeps
<1>11. ASSUME NEW r \in Parsers, r.body = 0, p = Rejected(r, 400)
       PROVE  PortalInv'
  <2>1. p.phase = "rejected" /\ p \in Parsers /\ p.body = 0
    BY <1>9, <1>11, RejectedTyped
  <2>2. QED
    BY <1>10, <2>1
<1>12. ASSUME p \in Parsers, p.phase = "headers", p.body = 0, p.method = parser.method, line \notin BadLines,
              p.form => parser.form \/ line = <<"formType", 0>>,
              p.length > 0 => p.length = parser.length \/ line = <<"length", p.length>>
       PROVE  PortalInv'
  <2>1. SaidOf(p, said') /\ FitToPost(p)
    BY <1>1, <1>4, <1>12 DEF SaidOf, FitToPost
  <2>2. QED
    BY <1>8, <1>9, <1>12, <2>1, NewLineKeeps
<1>13. CASE q.headers > MaxHeaders \/ line[1] \in {"badLength", "noColon"}
  BY <1>6, <1>7, <1>11, <1>13
<1>14. CASE ~(q.headers > MaxHeaders) /\ line[1] = "length"
  <2>1. p = [q EXCEPT !.length = line[2]] /\ line[2] \in Nat /\ line \notin BadLines
    BY <1>5, <1>7, <1>14
  <2>2. /\ p \in Parsers /\ p.phase = "headers" /\ p.body = 0 /\ p.method = parser.method
        /\ p.length = line[2] /\ p.form = parser.form
    BY <1>6, <2>1 DEF Parsers
  <2>3. QED
    BY <1>5, <1>12, <1>14, <2>1, <2>2
<1>15. CASE ~(q.headers > MaxHeaders) /\ line[1] = "formType"
  <2>1. p = [q EXCEPT !.form = TRUE] /\ line = <<"formType", 0>> /\ line \notin BadLines
    BY <1>5, <1>7, <1>15
  <2>2. /\ p \in Parsers /\ p.phase = "headers" /\ p.body = 0 /\ p.method = parser.method
        /\ p.length = parser.length
    BY <1>6, <2>1 DEF Parsers
  <2>3. QED
    BY <1>12, <2>1, <2>2
<1>16. CASE ~(q.headers > MaxHeaders) /\ line[1] = "other"
  BY <1>5, <1>6, <1>7, <1>12, <1>16
<1>17. CASE ~(q.headers > MaxHeaders) /\ line[1] = "otherType"
  <2> DEFINE r == [q EXCEPT !.form = FALSE]
  <2>1. r \in Parsers /\ r.body = 0
    BY <1>6 DEF Parsers
  <2>2. QED
    BY <1>7, <1>11, <1>17, <2>1
<1>18. CASE ~(q.headers > MaxHeaders) /\ line[1] = "encoding"
  <2> DEFINE r == [q EXCEPT !.encoding = TRUE]
  <2>1. r \in Parsers /\ r.body = 0
    BY <1>6 DEF Parsers
  <2>2. QED
    BY <1>7, <1>11, <1>18, <2>1
<1>19. QED
  BY <1>5, <1>13, <1>14, <1>15, <1>16, <1>17, <1>18

LEMMA ReadEmptyLineKeeps ==
  ASSUME PortalInv, ReadEmptyLine
  PROVE  PortalInv'
<1> DEFINE c == Counted(parser)
           p == FinishHeaders(c)
<1>1. Read(NewLine(parser, p)) /\ parser.phase = "headers" /\ UNCHANGED said
  BY DEF ReadEmptyLine
<1>2. /\ c \in Parsers /\ c.phase = "headers" /\ c.body = parser.body /\ c.length = parser.length
      /\ c.form = parser.form /\ c.method = parser.method /\ c.save = parser.save
  BY <1>1, ParserNow, CountedTyped
<1>3. /\ parser.body = 0 /\ said \cap BadLines = {} /\ (parser.form => <<"formType", 0>> \in said)
      /\ (parser.length > 0 => <<"length", parser.length>> \in said) /\ parser.method # "none"
  BY <1>1 DEF PortalInv, SaidIsKnown, SaidOf
<1>4. 0 <= MaxBody /\ MaxBody \in Nat /\ parser.length \in Nat
  BY Limits, ParserNow
<1>5. ASSUME p.phase = "rejected", p \in Parsers, p.body = 0
      PROVE  PortalInv'
  BY <1>1, <1>4, <1>5, NewLineKeeps
<1> HIDE DEF c
<1>6. ASSUME NEW status \in Nat, p = Rejected(c, status)
      PROVE  PortalInv'
  <2> HIDE DEF p
  <2>1. p.phase = "rejected" /\ p \in Parsers /\ p.body = 0
    BY <1>2, <1>3, <1>6, RejectedTyped
  <2>2. QED
    BY <1>5, <2>1
<1>7. ASSUME NEW new \in {"complete", "body"}, p = [c EXCEPT !.phase = new],
             new = "complete" => c.method = "get",
             new = "body" => c.save /\ c.form /\ c.length > 0 /\ c.length <= MaxBody
      PROVE  PortalInv'
  <2> HIDE DEF p
  <2>1. new \in ParserPhases
    BY DEF ParserPhases
  <2>2. /\ p \in Parsers /\ p.phase = new /\ p.body = 0 /\ p.length = c.length
        /\ p.form = c.form /\ p.method = c.method /\ p.save = c.save
    BY <1>2, <1>3, <1>7, <2>1 DEF Parsers
  <2>3. SaidOf(p, said') /\ FitToPost(p)
    BY <1>1, <1>2, <1>3, <1>7, <2>2 DEF SaidOf, FitToPost
  <2>4. QED
    BY <1>1, <1>4, <2>2, <2>3, NewLineKeeps
<1>8. CASE c.method = "get"
  <2>1. p = [c EXCEPT !.phase = "complete"]
    BY <1>8 DEF FinishHeaders
  <2>2. QED
    BY <1>7, <1>8, <2>1
<1>9. CASE c.method # "get" /\ \E status \in {405, 415, 413, 400} : p = Rejected(c, status)
  BY <1>6, <1>9
<1>10. CASE c.method # "get" /\ ~(\E status \in {405, 415, 413, 400} : p = Rejected(c, status))
  <2>1. c.save /\ c.form /\ ~(c.length > MaxBody) /\ c.length # 0 /\ p = [c EXCEPT !.phase = "body"]
    BY <1>10 DEF FinishHeaders
  <2>2. c.length > 0 /\ c.length <= MaxBody
    BY <1>2, <1>4, <2>1
  <2>3. QED
    BY <1>7, <2>1, <2>2
<1>11. QED
  BY <1>8, <1>9, <1>10

(* The client is gone and nothing of it is left.                           *)
LEMMA ClosedKeeps ==
  ASSUME PortalInv, CloseClient, FormsJudged'
  PROVE  PortalInv'
<1>1. /\ client' = FALSE /\ parser' = FreshParser /\ said' = {}
      /\ left' = PollBytes /\ idle' = 0 /\ age' = 0 /\ polled' = TRUE
  BY DEF CloseClient
<1>2. PortalTyped'
  BY <1>1, FreshParserTyped, Limits DEF PortalTyped
<1>3. BuffersHold' /\ SaidIsKnown' /\ PostIsFit'
  BY <1>1, FreshParserTyped, Limits DEF BuffersHold, SaidIsKnown, PostIsFit, SaidOf, FitToPost
<1>4. TimeIsSeen' /\ AnswerIsOfThis'
  BY <1>1, Limits DEF TimeIsSeen, AnswerIsOfThis
<1>5. QED
  BY <1>2, <1>3, <1>4 DEF PortalInv

LEMMA AnswersKeep ==
  ASSUME PortalInv, AnswerRequest \/ AnswerRejected \/ HangUp
  PROVE  PortalInv'
<1>1. client => posted = <<>>
  BY DEF PortalInv, AnswerIsOfThis
<1>2. CASE HangUp
  <2>1. FormsJudged' /\ CloseClient
    BY <1>1, <1>2 DEF HangUp, FormsJudged
  <2>2. QED
    BY <2>1, ClosedKeeps
<1>3. CASE AnswerRejected
  <2>1. FormsJudged' /\ CloseClient
    BY <1>1, <1>3 DEF AnswerRejected, FormsJudged
  <2>2. QED
    BY <2>1, ClosedKeeps
<1>4. CASE AnswerRequest
  <2>1. CloseClient
    BY <1>4 DEF AnswerRequest
  <2>2. FormsJudged'
    <3>1. CASE parser.method = "get" /\ answer' = 200 /\ UNCHANGED posted
      BY <1>1, <1>4, <3>1 DEF AnswerRequest, FormsJudged
    <3>2. CASE posted' \in Forms /\ answer' = IF FormValid(posted') THEN 202 ELSE 400
      <4>1. FormValid(posted') <=>
               /\ Len(posted') = 3
               /\ {posted'[i].name : i \in DOMAIN posted'} = FieldNames
               /\ \A i \in DOMAIN posted' : posted'[i].value = "usable"
        BY <3>2, FormsAreJudged
      <4>2. answer' = 202 <=> FormValid(posted')
        BY <3>2
      <4>3. QED
        BY <4>1, <4>2 DEF FormsJudged
    <3>3. QED
      BY <1>4, <3>1, <3>2 DEF AnswerRequest
  <2>3. QED
    BY <2>1, <2>2, ClosedKeeps
<1>5. QED
  BY <1>2, <1>3, <1>4

LEMMA AcceptKeeps ==
  ASSUME PortalInv, NEW onHotspot \in BOOLEAN, Accept(onHotspot)
  PROVE  PortalInv'
<1>1. /\ ~client /\ client' = onHotspot /\ posted' = <<>>
      /\ UNCHANGED <<parser, said, left, idle, age, polled>>
  BY DEF Accept
<1>2. PortalTyped'
  BY <1>1 DEF PortalInv, PortalTyped
<1>3. BuffersHold' /\ SaidIsKnown' /\ PostIsFit'
  BY <1>1 DEF PortalInv, BuffersHold, SaidIsKnown, PostIsFit, SaidOf, FitToPost
<1>4. TimeIsSeen' /\ AnswerIsOfThis' /\ FormsJudged'
  BY <1>1 DEF PortalInv, TimeIsSeen, AnswerIsOfThis, FormsJudged
<1>5. QED
  BY <1>2, <1>3, <1>4 DEF PortalInv

(* Time passes only after a poll, and a poll sees what is due.             *)
LEMMA PollsKeep ==
  ASSUME PortalInv, EndPoll \/ PortalTick
  PROVE  PortalInv'
<1>1. UNCHANGED <<client, parser, said, answer, posted>>
  BY DEF EndPoll, PortalTick
<1>2. BuffersHold' /\ SaidIsKnown' /\ PostIsFit' /\ AnswerIsOfThis' /\ FormsJudged'
  BY <1>1 DEF PortalInv, BuffersHold, SaidIsKnown, PostIsFit, SaidOf, FitToPost, AnswerIsOfThis, FormsJudged
<1>3. /\ age \in Nat /\ idle \in Nat /\ left \in Nat /\ client \in BOOLEAN /\ polled \in BOOLEAN
      /\ age <= TotalTimeout + 1 /\ (age = TotalTimeout + 1 => ~polled) /\ (~client => age = 0)
      /\ parser \in Parsers
  BY DEF PortalInv, PortalTyped, TimeIsSeen
<1>4. PortalTyped' /\ age' <= TotalTimeout + 1 /\ (age' = TotalTimeout + 1 => ~polled') /\ (~client => age' = 0)
  <2>1. CASE EndPoll
    <3>1. /\ left' = PollBytes /\ polled' = TRUE /\ UNCHANGED <<idle, age>>
          /\ client => ~(age > TotalTimeout)
      BY <2>1 DEF EndPoll, TimedOut
    <3>2. age # TotalTimeout + 1
      BY <1>3, <3>1, Limits
    <3>3. QED
      BY <1>1, <1>3, <3>1, <3>2, Limits DEF PortalTyped
  <2>2. CASE PortalTick
    <3>1. /\ polled /\ polled' = FALSE /\ UNCHANGED left
          /\ idle' = idle \/ idle' = idle + 1
          /\ age' = age \/ (client /\ age' = age + 1)
      BY <2>2 DEF PortalTick
    <3>2. idle' \in Nat /\ age' \in Nat /\ age' <= TotalTimeout + 1
      BY <1>3, <3>1, Limits
    <3>3. QED
      BY <1>1, <1>3, <3>1, <3>2 DEF PortalTyped
  <2>3. QED
    BY <2>1, <2>2
<1>5. TimeIsSeen'
  BY <1>1, <1>4 DEF PortalInv, TimeIsSeen
<1>6. QED
  BY <1>2, <1>4, <1>5 DEF PortalInv

LEMMA PortalStarts == PortalInit => PortalInv
<1>1. SUFFICES ASSUME PortalInit PROVE PortalInv
  OBVIOUS
<1>2. /\ client = FALSE /\ parser = FreshParser /\ said = {} /\ left = PollBytes /\ idle = 0 /\ age = 0
      /\ polled = TRUE /\ posted = <<>>
  BY <1>1 DEF PortalInit
<1>3. PortalTyped
  BY <1>2, FreshParserTyped, Limits DEF PortalTyped
<1>4. BuffersHold /\ SaidIsKnown /\ PostIsFit
  BY <1>2, FreshParserTyped, Limits DEF BuffersHold, SaidIsKnown, PostIsFit, SaidOf, FitToPost
<1>5. TimeIsSeen /\ AnswerIsOfThis /\ FormsJudged
  BY <1>2, Limits DEF TimeIsSeen, AnswerIsOfThis, FormsJudged
<1>6. QED
  BY <1>3, <1>4, <1>5 DEF PortalInv

LEMMA PortalStays == PortalInv /\ [PortalNext]_portalVars => PortalInv'
<1>1. ASSUME PortalInv, PortalNext PROVE PortalInv'
  <2>1. CASE Accept(TRUE) \/ Accept(FALSE)
    BY <1>1, <2>1, AcceptKeeps
  <2>2. CASE ReadBody \/ ReadLineByte \/ ReadRequestLine \/ ReadHeaderLine \/ ReadEmptyLine
    BY <1>1, <2>2, ReadBodyKeeps, ReadLineByteKeeps, ReadRequestLineKeeps, ReadHeaderLineKeeps, ReadEmptyLineKeeps
  <2>3. CASE AnswerRequest \/ AnswerRejected \/ HangUp
    BY <1>1, <2>3, AnswersKeep
  <2>4. CASE EndPoll \/ PortalTick
    BY <1>1, <2>4, PollsKeep
  <2>5. QED
    BY <1>1, <2>1, <2>2, <2>3, <2>4 DEF PortalNext
<1>2. ASSUME PortalInv, UNCHANGED portalVars PROVE PortalInv'
  <2>1. UNCHANGED <<client, parser, said, left, idle, age, polled, answer, posted>>
    BY <1>2 DEF portalVars
  <2>2. QED
    BY <1>2, <2>1 DEF PortalInv, PortalTyped, BuffersHold, SaidIsKnown, PostIsFit, SaidOf, FitToPost,
                      TimeIsSeen, AnswerIsOfThis, FormsJudged
<1>3. QED
  BY <1>1, <1>2

LEMMA PortalSays == PortalInv => PortalJudges
<1>1. SUFFICES ASSUME PortalInv PROVE PortalJudges
  OBVIOUS
<1>2. parser.line <= MaxHeaderLine /\ parser.body <= MaxBody
  BY <1>1, ParserNow
<1>3. RequestsJudged
  <2>1. parser.phase = "body" => parser.body < parser.length
    BY <1>1 DEF PortalInv, PostIsFit, FitToPost
  <2>2. ASSUME parser.phase = "complete", parser.method = "post"
        PROVE  /\ parser.save /\ <<"formType", 0>> \in said
               /\ said \cap ({"badLength", "otherType", "encoding", "noColon"} \X {0}) = {}
               /\ <<"length", parser.body>> \in said /\ parser.body > 0
    BY <1>1, <2>2 DEF PortalInv, PostIsFit, FitToPost, SaidIsKnown, SaidOf, BadLines
  <2>3. QED
    BY <1>2, <2>1, <2>2 DEF RequestsJudged
<1>4. FormsJudged /\ HeldBriefly
  BY <1>1 DEF PortalInv, TimeIsSeen, HeldBriefly
<1>5. QED
  BY <1>3, <1>4 DEF PortalJudges

(* Whoever posts what to the setup portal, byte by byte: a request that is *)
(* taken has said what it must, a form is accepted if and only if it has   *)
(* the three fields once each (wifiHttpDecodeForm), and one client holds   *)
(* the portal no longer than the timeout (pollPortalHttp).  For any limits *)
(* and forms of any length.                                                *)
THEOREM PortalIsFair == PortalSpec => []PortalJudges
<1>1. PortalInv => PortalJudges
  BY PortalSays
<1>2. QED
  BY <1>1, PortalStarts, PortalStays, PTL DEF PortalSpec

--------------------------------------------------------------------------------
(***************************************************************************)
(* The sum of the values of a function, as SumFunction computes it.        *)
(***************************************************************************)

FirstOf(s) == CHOOSE x \in s : TRUE
Summed(g, T) ==
  [s \in SUBSET DOMAIN g |-> IF s = {} THEN 0 ELSE LET x == FirstOf(s) IN g[x] + T[s \ {x}]]
Summable(g) == IsFiniteSet(DOMAIN g) /\ \A x \in DOMAIN g : g[x] \in Nat

(* Whatever element is taken first, the rest and it make the sum.          *)
SumOf(T, g) ==
  /\ T[{}] = 0
  /\ \A s \in SUBSET DOMAIN g : T[s] \in Nat /\ \A x \in s : T[s] = g[x] + T[s \ {x}]

LEMMA Smaller ==
  ASSUME NEW D, IsFiniteSet(D), NEW s \in SUBSET D
  PROVE  /\ Cardinality(s) \in Nat /\ (Cardinality(s) = 0 <=> s = {}) /\ Cardinality(s) <= Cardinality(D)
         /\ \A x \in s : s \ {x} \in SUBSET D /\ Cardinality(s \ {x}) = Cardinality(s) - 1
         /\ s # {} => FirstOf(s) \in s
<1>1. IsFiniteSet(s) /\ Cardinality(s) <= Cardinality(D)
  BY FS_Subset
<1>2. Cardinality(s) \in Nat /\ (Cardinality(s) = 0 <=> s = {})
  BY <1>1, FS_CardinalityType, FS_EmptySet
<1>3. \A x \in s : Cardinality(s \ {x}) = Cardinality(s) - 1
  BY <1>1, FS_RemoveElement
<1>4. QED
  BY <1>1, <1>2, <1>3 DEF FirstOf

LEMMA SumExists ==
  ASSUME NEW g, Summable(g)
  PROVE  \E T : T = Summed(g, T)
<1> DEFINE D == DOMAIN g
           UpToSize(T, n) ==
             /\ T \in [SUBSET D -> Nat] /\ T[{}] = 0
             /\ \A s \in SUBSET D : s # {} /\ Cardinality(s) <= n => T[s] = g[FirstOf(s)] + T[s \ {FirstOf(s)}]
           S == {n \in Nat : \E T : UpToSize(T, n)}
<1>1. IsFiniteSet(D) /\ Cardinality(D) \in Nat /\ \A x \in D : g[x] \in Nat
  BY FS_CardinalityType DEF Summable
<1>2. 0 \in S
  <2> DEFINE T == [s \in SUBSET D |-> 0]
  <2>1. UpToSize(T, 0)
    <3>1. \A s \in SUBSET D : ~(s # {} /\ Cardinality(s) <= 0)
      BY <1>1, Smaller
    <3>2. T \in [SUBSET D -> Nat] /\ T[{}] = 0
      OBVIOUS
    <3>3. QED
      BY <3>1, <3>2
  <2>2. QED
    BY <2>1
<1>3. ASSUME NEW n \in Nat, n \in S
      PROVE  n + 1 \in S
  <2>1. PICK T : UpToSize(T, n)
    BY <1>3
  <2> DEFINE U == [s \in SUBSET D |-> IF s = {} THEN 0 ELSE g[FirstOf(s)] + T[s \ {FirstOf(s)}]]
  <2>2. \A s \in SUBSET D : s # {} => FirstOf(s) \in D /\ FirstOf(s) \in s /\ s \ {FirstOf(s)} \in SUBSET D
    BY <1>1, Smaller
  <2>3. U \in [SUBSET D -> Nat] /\ U[{}] = 0
    BY <1>1, <2>1, <2>2
  <2>4. ASSUME NEW s \in SUBSET D, s # {}, Cardinality(s) <= n + 1
        PROVE  U[s] = g[FirstOf(s)] + U[s \ {FirstOf(s)}]
    <3> DEFINE r == s \ {FirstOf(s)}
    <3>1. r \in SUBSET D /\ Cardinality(r) <= n
      BY <1>1, <2>2, <2>4, Smaller
    <3>2. U[r] = T[r]
      <4>1. CASE r = {}
        BY <2>1, <2>3, <4>1
      <4>2. CASE r # {}
        <5>1. T[r] = g[FirstOf(r)] + T[r \ {FirstOf(r)}]
          BY <2>1, <3>1, <4>2
        <5>2. U[r] = g[FirstOf(r)] + T[r \ {FirstOf(r)}]
          BY <3>1, <4>2
        <5>3. QED
          BY <5>1, <5>2
      <4>3. QED
        BY <4>1, <4>2
    <3>3. U[s] = g[FirstOf(s)] + T[r]
      BY <2>4
    <3>4. QED
      BY <3>2, <3>3
  <2> HIDE DEF U
  <2>5. UpToSize(U, n + 1)
    BY <2>3, <2>4
  <2>6. QED
    BY <2>5
<1> HIDE DEF S, D
<1>4. Cardinality(D) \in S
  <2>1. 0..Cardinality(D) \subseteq S
    BY <1>1, <1>2, <1>3, UpTo
  <2>2. QED
    BY <1>1, <2>1
<1>5. PICK T : UpToSize(T, Cardinality(D))
  BY <1>4 DEF S
<1>6. T = Summed(g, T)
  <2>1. \A s \in SUBSET D : s # {} => T[s] = g[FirstOf(s)] + T[s \ {FirstOf(s)}]
    BY <1>1, <1>5, Smaller
  <2>2. T = [s \in SUBSET D |-> T[s]] /\ T[{}] = 0
    BY <1>5
  <2>3. T = [s \in SUBSET D |-> IF s = {} THEN 0 ELSE LET x == FirstOf(s) IN g[x] + T[s \ {x}]]
    BY <2>1, <2>2
  <2>4. QED
    BY <2>3 DEF Summed, D
<1>7. QED
  BY <1>6

LEMMA SumIsOf ==
  ASSUME NEW g, Summable(g)
  PROVE  \E T : SumOf(T, g) /\ SumFunction(g) = T[DOMAIN g]
<1> DEFINE U == CHOOSE T : T = Summed(g, T)
           D == DOMAIN g
<1>1. U = Summed(g, U)
  BY SumExists
<1>2. SumFunction(g) = U[DOMAIN g]
  BY DEF SumFunction, SumFunctionOnSet, FoldFunctionOnSet, MapThenFoldSet, Summed, FirstOf
<1> HIDE DEF U
<1>3. IsFiniteSet(D) /\ Cardinality(D) \in Nat /\ \A x \in D : g[x] \in Nat
  BY FS_CardinalityType DEF Summable
<1>4. /\ U[{}] = 0
      /\ \A s \in SUBSET D : s # {} => U[s] = g[FirstOf(s)] + U[s \ {FirstOf(s)}]
  <2>1. U = [s \in SUBSET D |-> IF s = {} THEN 0 ELSE LET x == FirstOf(s) IN g[x] + U[s \ {x}]]
    BY <1>1 DEF Summed
  <2>2. {} \in SUBSET D
    OBVIOUS
  <2> HIDE DEF D
  <2>3. QED
    BY <2>1, <2>2
<1> DEFINE Fine(s) == U[s] \in Nat /\ \A x \in s : U[s] = g[x] + U[s \ {x}]
           S == {n \in Nat : \A s \in SUBSET D : Cardinality(s) <= n => Fine(s)}
<1> HIDE DEF D
<1>5. 0 \in S
  <2>1. \A s \in SUBSET D : Cardinality(s) <= 0 => s = {}
    BY <1>3, Smaller
  <2>2. Fine({})
    BY <1>4
  <2>3. QED
    BY <2>1, <2>2
<1>6. ASSUME NEW n \in Nat, n \in S
      PROVE  n + 1 \in S
  <2>1. SUFFICES ASSUME NEW s \in SUBSET D, Cardinality(s) <= n + 1
                 PROVE  Fine(s)
    OBVIOUS
  <2>2. CASE s = {}
    BY <1>4, <2>2
  <2>3. CASE s # {}
    <3> DEFINE c == FirstOf(s)
    <3>1. c \in s /\ s \ {c} \in SUBSET D /\ Cardinality(s \ {c}) <= n /\ U[s] = g[c] + U[s \ {c}]
      BY <1>3, <1>4, <2>1, <2>3, Smaller
    <3> HIDE DEF c
    <3>2. Fine(s \ {c}) /\ g[c] \in Nat
      BY <1>3, <1>6, <3>1
    <3>3. ASSUME NEW x \in s
          PROVE  U[s] = g[x] + U[s \ {x}]
      <4>1. CASE x = c
        BY <3>1, <4>1
      <4>2. CASE x # c
        <5>1. s \ {x} \in SUBSET D /\ Cardinality(s \ {x}) <= n /\ x \in s \ {c} /\ c \in s \ {x}
          BY <1>3, <2>1, <3>1, <4>2, Smaller
        <5>2. Fine(s \ {x}) /\ g[x] \in Nat
          BY <1>3, <1>6, <5>1
        <5>3. (s \ {x}) \ {c} = (s \ {c}) \ {x}
          OBVIOUS
        <5>4. U[s \ {x}] = g[c] + U[(s \ {c}) \ {x}] /\ U[s \ {c}] = g[x] + U[(s \ {c}) \ {x}]
          BY <3>2, <5>1, <5>2, <5>3
        <5>5. Cardinality((s \ {c}) \ {x}) <= n /\ (s \ {c}) \ {x} \in SUBSET D
          <6> DEFINE r == s \ {c}
          <6>1. r \in SUBSET D /\ Cardinality(r) <= n /\ x \in r
            BY <3>1, <5>1
          <6> HIDE DEF r
          <6>2. r \ {x} \in SUBSET D /\ Cardinality(r \ {x}) = Cardinality(r) - 1 /\ Cardinality(r) \in Nat
            BY <1>3, <6>1, Smaller
          <6>3. Cardinality(r \ {x}) <= n
            BY <6>1, <6>2
          <6>4. QED
            BY <6>2, <6>3 DEF r
        <5>6. U[(s \ {c}) \ {x}] \in Nat
          BY <1>6, <5>5
        <5>7. QED
          BY <3>1, <3>2, <5>2, <5>4, <5>6
      <4>3. QED
        BY <4>1, <4>2
    <3>4. U[s] \in Nat
      BY <3>1, <3>2
    <3>5. QED
      BY <3>3, <3>4
  <2>4. QED
    BY <2>2, <2>3
<1> HIDE DEF S, Fine
<1>7. Cardinality(D) \in S
  <2>1. 0..Cardinality(D) \subseteq S
    BY <1>3, <1>5, <1>6, UpTo
  <2>2. QED
    BY <1>3, <2>1
<1>8. \A s \in SUBSET D : Fine(s)
  BY <1>3, <1>7, Smaller DEF S
<1>9. SumOf(U, g)
  BY <1>4, <1>8 DEF SumOf, Fine, D
<1>10. QED
  BY <1>2, <1>9

(* Sums of as many values, none of them larger.                            *)
LEMMA SumGrows ==
  ASSUME NEW g, NEW h, Summable(g), Summable(h), DOMAIN g \subseteq DOMAIN h,
         \A x \in DOMAIN g : g[x] <= h[x]
  PROVE  /\ SumFunction(g) \in Nat /\ SumFunction(h) \in Nat /\ SumFunction(g) <= SumFunction(h)
         /\ (\E x \in DOMAIN g : g[x] < h[x]) => SumFunction(g) < SumFunction(h)
<1> DEFINE C == DOMAIN g
           D == DOMAIN h
<1>1. PICK T : SumOf(T, g) /\ SumFunction(g) = T[C]
  BY SumIsOf
<1>2. PICK U : SumOf(U, h) /\ SumFunction(h) = U[D]
  BY SumIsOf
<1>3. IsFiniteSet(D) /\ C \subseteq D /\ (\A x \in C : g[x] \in Nat /\ g[x] <= h[x]) /\ (\A x \in D : h[x] \in Nat)
  BY DEF Summable
<1>4. /\ T[{}] = 0 /\ U[{}] = 0
      /\ \A s \in SUBSET C : T[s] \in Nat /\ \A x \in s : T[s] = g[x] + T[s \ {x}]
      /\ \A s \in SUBSET D : U[s] \in Nat /\ \A x \in s : U[s] = h[x] + U[s \ {x}]
  BY <1>1, <1>2 DEF SumOf
<1> DEFINE S == {n \in Nat : \A s \in SUBSET D : Cardinality(s) <= n => T[s \cap C] <= U[s]}
<1>5. SumFunction(g) = T[C] /\ SumFunction(h) = U[D]
  BY <1>1, <1>2
<1> HIDE DEF C, D
<1>6. 0 \in S
  <2>1. \A s \in SUBSET D : Cardinality(s) <= 0 => s = {} /\ s \cap C = {}
    BY <1>3, Smaller
  <2>2. ASSUME NEW s \in SUBSET D, Cardinality(s) <= 0
        PROVE  T[s \cap C] <= U[s]
    <3>1. s = {} /\ s \cap C = {}
      BY <2>1, <2>2
    <3>2. T[s \cap C] = 0 /\ U[s] = 0
      BY <1>4, <3>1
    <3>3. QED
      BY <3>2
  <2>3. QED
    BY <2>2
<1>7. ASSUME NEW n \in Nat, n \in S
      PROVE  n + 1 \in S
  <2>1. SUFFICES ASSUME NEW s \in SUBSET D, Cardinality(s) <= n + 1
                 PROVE  T[s \cap C] <= U[s]
    OBVIOUS
  <2>2. CASE s = {}
    <3>1. s \cap C = {}
      BY <2>2
    <3>2. QED
      BY <1>4, <2>2, <3>1
  <2>3. CASE s # {}
    <3>1. PICK x \in s : TRUE
      BY <2>3
    <3> DEFINE r == s \ {x}
    <3>2. r \in SUBSET D /\ Cardinality(r) <= n
      BY <1>3, <2>1, Smaller
    <3>3. T[r \cap C] <= U[r]
      BY <1>7, <3>2
    <3>4. U[s] = h[x] + U[r] /\ U[r] \in Nat /\ h[x] \in Nat
      BY <1>3, <1>4, <3>2
    <3>5. CASE x \in C
      <4>1. (s \cap C) \ {x} = r \cap C /\ x \in s \cap C
        BY <3>5
      <4>2. T[s \cap C] = g[x] + T[r \cap C] /\ T[r \cap C] \in Nat
        <5>1. s \cap C \in SUBSET C /\ r \cap C \in SUBSET C
          OBVIOUS
        <5>2. QED
          BY <1>4, <4>1, <5>1
      <4>3. QED
        BY <1>3, <3>3, <3>4, <3>5, <4>2
    <3>6. CASE x \notin C
      <4>1. s \cap C = r \cap C
        BY <3>6
      <4>2. T[r \cap C] \in Nat
        BY <1>4
      <4>3. QED
        BY <3>3, <3>4, <4>1, <4>2
    <3>7. QED
      BY <3>5, <3>6
  <2>4. QED
    BY <2>2, <2>3
<1>8. Cardinality(D) \in Nat
  BY <1>3, FS_CardinalityType
<1> HIDE DEF S
<1>9. Cardinality(D) \in S
  <2>1. 0..Cardinality(D) \subseteq S
    BY <1>6, <1>7, <1>8, UpTo
  <2>2. QED
    BY <1>8, <2>1
<1>10. \A s \in SUBSET D : T[s \cap C] <= U[s]
  BY <1>3, <1>9, Smaller DEF S
<1>11. T[C] \in Nat /\ U[D] \in Nat /\ T[C] <= U[D]
  <2>1. D \cap C = C /\ C \in SUBSET C /\ D \in SUBSET D
    BY <1>3
  <2>2. QED
    BY <1>4, <1>10, <2>1
<1>12. ASSUME NEW x \in C, g[x] < h[x]
       PROVE  T[C] < U[D]
  <2>1. C \ {x} = (D \ {x}) \cap C /\ C \ {x} \in SUBSET C /\ D \ {x} \in SUBSET D /\ x \in D
    BY <1>3
  <2>2. T[C \ {x}] <= U[D \ {x}] /\ T[C \ {x}] \in Nat /\ U[D \ {x}] \in Nat
    BY <1>4, <1>10, <2>1
  <2>3. T[C] = g[x] + T[C \ {x}] /\ U[D] = h[x] + U[D \ {x}]
    BY <1>4, <2>1
  <2>4. g[x] \in Nat /\ h[x] \in Nat
    BY <1>3, <2>1
  <2>5. QED
    BY <1>12, <2>2, <2>3, <2>4
<1>13. QED
  BY <1>5, <1>11, <1>12 DEF C

LEMMA SumTyped ==
  ASSUME NEW g, Summable(g)
  PROVE  SumFunction(g) \in Nat
<1>1. \A x \in DOMAIN g : g[x] <= g[x]
  BY DEF Summable
<1>2. QED
  BY <1>1, SumGrows

LEMMA SumOfOne ==
  ASSUME NEW p, NEW v \in Nat
  PROVE  SumFunction([x \in {p} |-> v]) = v
<1> DEFINE g == [x \in {p} |-> v]
<1>1. Summable(g)
  BY FS_Singleton DEF Summable
<1>2. PICK T : SumOf(T, g) /\ SumFunction(g) = T[DOMAIN g]
  BY <1>1, SumIsOf
<1>3. T[{p}] = g[p] + T[{p} \ {p}] /\ {p} \ {p} = {} /\ T[{}] = 0
  <2>1. {p} \in SUBSET DOMAIN g /\ p \in {p}
    OBVIOUS
  <2>2. QED
    BY <1>2, <2>1 DEF SumOf
<1>4. QED
  BY <1>2, <1>3

(***************************************************************************)
(* The pack that comes in and the pack that plays.                         *)
(***************************************************************************)

InstallSteps == {"idle", "files", "chunks", "end"}

FilesTyped(st) ==
  /\ DOMAIN st \subseteq Packs /\ IsFiniteSet(DOMAIN st)
  /\ \A p \in DOMAIN st :
       DOMAIN st[p] \subseteq Files /\ \A f \in DOMAIN st[p] : st[p][f] \in Nat

TransferTyped ==
  /\ FilesTyped(files)
  /\ xfer \in [active : BOOLEAN, pack : Packs \cup {NoPack}, file : (Packs \X Files) \cup {NoFile},
               expected : Nat, written : Nat]
  /\ installer \in [step : InstallSteps, pack : Packs \cup {NoPack}, left : SUBSET Files,
                    chunks : Nat, told : BOOLEAN]
  /\ kept \in BOOLEAN

(* Nothing is loaded while files come in, and what is loaded and open is on *)
(* the flash.                                                              *)
LoadedIsThere ==
  /\ loaded # NoPack => loaded \in DOMAIN files /\ ~xfer.active
  /\ anim.gif # "none" => loaded \in DOMAIN files /\ anim.gif \in DOMAIN files[loaded]
  /\ anim = [state |-> anim.state, gif |-> anim.gif, rot |-> anim.rot, pause |-> anim.pause]

(* The host and the device are at the same place of an installation.       *)
InStep ==
  /\ xfer.active => xfer.pack \in DOMAIN files /\ installed = NoPack
  /\ installer.step # "idle" => xfer.active /\ xfer.pack = installer.pack
  /\ installer.step = "chunks" =>
       /\ xfer.file # NoFile /\ xfer.file[1] = xfer.pack
       /\ xfer.file[2] \in Files \ installer.left /\ xfer.file[2] \in DOMAIN files[xfer.pack]
  /\ installer.step = "end" => installer.left = {} /\ xfer.file = NoFile
  /\ installed # NoPack => xfer.file = NoFile

(* Of a pack whose total was given, and that is alone, every chunk is on   *)
(* the flash: there was room for all of it from the beginning.             *)
Arrived(f) ==
  IF installer.step = "chunks" /\ f = xfer.file[2]
  THEN Sizes[installer.pack][f] - installer.chunks ELSE Sizes[installer.pack][f]
NothingIsLost ==
  installer.step # "idle" /\ installer.told /\ ~kept =>
    /\ DOMAIN files = {installer.pack} /\ TotalOf(installer.pack) <= Flash
    /\ files[installer.pack] \in [Files \ installer.left -> Nat]
    /\ \A f \in Files \ installer.left : files[installer.pack][f] = Arrived(f)

PetIsSaved ==
  /\ pet \in [buddy : BOOLEAN, gifs : BOOLEAN, species : {"gif", "ascii"}]
  /\ PetAsSaved

TransferInv ==
  TransferTyped /\ LoadedIsThere /\ InStep /\ NothingIsLost /\ InstalledIsWhole /\ PetIsSaved

LEMMA NoneApart ==
  /\ NoPack \notin Packs /\ NoFile \notin Packs \X Files /\ "none" \notin Files
  /\ "idle" \in InstallSteps /\ {} \in SUBSET Files /\ 0 \in Nat /\ FALSE \in BOOLEAN
BY TransferAssumption DEF NoFile, Files, InstallSteps

LEMMA SizesAre ==
  ASSUME NEW p \in Packs
  PROVE  Sizes[p] \in [Files -> Nat \ {0}] /\ \A f \in Files : Sizes[p][f] \in Nat
BY TransferAssumption

LEMMA FilesAreFew ==
  ASSUME NEW D, D \subseteq Files
  PROVE  IsFiniteSet(D)
<1>1. IsFiniteSet({} \cup {"manifest"} \cup {"one"} \cup {"two"})
  BY FS_EmptySet, FS_AddElement
<1>2. Files = {} \cup {"manifest"} \cup {"one"} \cup {"two"}
  BY DEF Files
<1>3. QED
  BY <1>1, <1>2, FS_Subset

LEMMA SizeOfTyped ==
  ASSUME NEW g, DOMAIN g \subseteq Files, \A f \in DOMAIN g : g[f] \in Nat
  PROVE  Summable(g) /\ SizeOf(g) \in Nat
<1>1. Summable(g)
  BY FilesAreFew DEF Summable
<1>2. QED
  BY <1>1, SumTyped DEF SizeOf

LEMMA UsedTyped ==
  ASSUME FilesTyped(files)
  PROVE  Used \in Nat
<1> DEFINE g == [p \in DOMAIN files |-> SizeOf(files[p])]
<1>1. \A p \in DOMAIN files : SizeOf(files[p]) \in Nat
  BY SizeOfTyped DEF FilesTyped
<1>2. Summable(g)
  BY <1>1 DEF Summable, FilesTyped
<1>3. Used = SumFunction(g)
  BY DEF Used
<1> HIDE DEF g
<1>4. QED
  BY <1>2, <1>3, SumTyped

(* Of one pack alone, its size is what is used.                            *)
LEMMA UsedByOne ==
  ASSUME NEW p, DOMAIN files = {p}, SizeOf(files[p]) \in Nat
  PROVE  Used = SizeOf(files[p])
<1> DEFINE v == SizeOf(files[p])
<1>1. [q \in DOMAIN files |-> SizeOf(files[q])] = [q \in {p} |-> v]
  OBVIOUS
<1> HIDE DEF v
<1>2. Used = SumFunction([q \in {p} |-> v])
  BY <1>1 DEF Used
<1>3. v \in Nat
  BY DEF v
<1>4. QED
  BY <1>2, <1>3, SumOfOne DEF v

(* What a wipe leaves is some of what was there.                           *)
LEMMA WipedTyped ==
  ASSUME FilesTyped(files), NEW keep, \A k \in keep : k[1] \in DOMAIN files /\ k[2] \in DOMAIN files[k[1]]
  PROVE  /\ FilesTyped(Wiped(keep)) /\ DOMAIN Wiped(keep) \subseteq DOMAIN files
         /\ keep = {} => DOMAIN Wiped(keep) = {}
<1>1. DOMAIN Wiped(keep) = {k[1] : k \in keep}
  BY DEF Wiped
<1>2. DOMAIN Wiped(keep) \subseteq DOMAIN files
  BY <1>1
<1>3. ASSUME NEW p \in DOMAIN Wiped(keep)
      PROVE  /\ DOMAIN Wiped(keep)[p] \subseteq Files
             /\ \A f \in DOMAIN Wiped(keep)[p] : Wiped(keep)[p][f] \in Nat
  <2> DEFINE D == {k[2] : k \in {j \in keep : j[1] = p}}
  <2>1. Wiped(keep)[p] = [f \in D |-> files[p][f]]
    BY <1>1, <1>3 DEF Wiped
  <2>2. D \subseteq DOMAIN files[p]
    OBVIOUS
  <2>3. p \in DOMAIN files /\ DOMAIN files[p] \subseteq Files /\ \A f \in DOMAIN files[p] : files[p][f] \in Nat
    BY <1>2, <1>3 DEF FilesTyped
  <2> HIDE DEF D
  <2>4. QED
    BY <2>1, <2>2, <2>3
<1>4. IsFiniteSet(DOMAIN Wiped(keep)) /\ DOMAIN Wiped(keep) \subseteq Packs
  BY <1>2, FS_Subset DEF FilesTyped
<1>5. FilesTyped(Wiped(keep))
  BY <1>3, <1>4 DEF FilesTyped
<1>6. QED
  BY <1>1, <1>2, <1>5

LEMMA UnfinishedThere ==
  ASSUME NEW keep \in SUBSET Unfinished
  PROVE  \A k \in keep : k[1] \in DOMAIN files /\ k[2] \in DOMAIN files[k[1]]
BY DEF Unfinished, StillThere

LEMMA NoFilesTyped == DOMAIN << >> = {} /\ FilesTyped(<< >>)
BY FS_EmptySet DEF FilesTyped

(***************************************************************************)
(* The steps.                                                              *)
(***************************************************************************)

(* A device that starts shows the pack it finds.                           *)
LEMMA BootKeeps ==
  ASSUME NEW st, FilesTyped(st), NEW species \in {"gif", "ascii"}, BootsOn(st, species),
         InstalledIsWhole, InStep,
         installed' = NoPack \/ (installed' = installed /\ (installed # NoPack => st = files))
  PROVE  TransferInv'
<1>1. PICK p \in (DOMAIN st) \cup {q \in {NoPack} : DOMAIN st = {}} :
        /\ files' = st
        /\ loaded' = IF p # NoPack /\ Parses(p, st) THEN p ELSE NoPack
        /\ pet' = [buddy |-> ~((p # NoPack /\ Parses(p, st)) /\ species = "gif"),
                   gifs |-> (p # NoPack /\ Parses(p, st)), species |-> species]
        /\ xfer' = QuietXfer /\ anim' = Closed /\ kept' = FALSE /\ installer' = NoInstall
  BY DEF BootsOn
<1>2. /\ xfer'.active = FALSE /\ xfer'.file = NoFile /\ installer'.step = "idle" /\ anim'.gif = "none"
      /\ anim' = [state |-> anim'.state, gif |-> anim'.gif, rot |-> anim'.rot, pause |-> anim'.pause]
  BY <1>1 DEF QuietXfer, NoInstall, Closed
<1>3. TransferTyped'
  <2>1. xfer' \in [active : BOOLEAN, pack : Packs \cup {NoPack}, file : (Packs \X Files) \cup {NoFile},
                   expected : Nat, written : Nat]
    BY <1>1, NoneApart DEF QuietXfer
  <2>2. installer' \in [step : InstallSteps, pack : Packs \cup {NoPack}, left : SUBSET Files,
                        chunks : Nat, told : BOOLEAN]
    BY <1>1, NoneApart DEF NoInstall
  <2>3. QED
    BY <1>1, <2>1, <2>2 DEF TransferTyped
<1>4. LoadedIsThere'
  BY <1>1, <1>2 DEF LoadedIsThere
<1>5. InStep' /\ NothingIsLost'
  BY <1>2 DEF InStep, NothingIsLost
<1>6. PetIsSaved'
  BY <1>1 DEF PetIsSaved, PetIsSaved, PetAsSaved
<1>7. InstalledIsWhole'
  <2>1. CASE installed' = NoPack
    BY <2>1 DEF InstalledIsWhole
  <2>2. CASE installed # NoPack /\ installed' = installed /\ st = files
    <3>1. /\ files' = files /\ DOMAIN files = {installed} /\ files[installed] = Sizes[installed]
          /\ installed \in Packs
      BY <1>1, <2>2 DEF InstalledIsWhole, Whole, FilesTyped
    <3>2. p = installed
      BY <1>1, <2>2, <3>1
    <3>3. Parses(p, st)
      BY <2>2, <3>1, <3>2, SizesAre DEF Parses, Files
    <3>4. loaded' = installed
      BY <1>1, <2>2, <3>2, <3>3
    <3>5. QED
      BY <2>2, <3>1, <3>4 DEF InstalledIsWhole, Whole
  <2>3. QED
    BY <2>1, <2>2
<1>8. QED
  BY <1>3, <1>4, <1>5, <1>6, <1>7 DEF TransferInv

(* A step that leaves the files, the transfer and the host alone.          *)
LEMMA PetSteps ==
  ASSUME TransferInv, UNCHANGED <<files, xfer, loaded, installer, kept, installed>>,
         PetIsSaved',
         \/ anim' = anim
         \/ /\ anim' = [state |-> anim'.state, gif |-> anim'.gif, rot |-> anim'.rot, pause |-> anim'.pause]
            /\ anim'.gif # "none" => loaded # NoPack /\ anim'.gif \in DOMAIN files[loaded]
  PROVE  TransferInv'
<1>1. TransferTyped'
  BY DEF TransferInv, TransferTyped
<1>2. LoadedIsThere'
  <2>1. CASE anim' = anim
    BY <2>1 DEF TransferInv, LoadedIsThere
  <2>2. CASE /\ anim' = [state |-> anim'.state, gif |-> anim'.gif, rot |-> anim'.rot, pause |-> anim'.pause]
             /\ anim'.gif # "none" => loaded # NoPack /\ anim'.gif \in DOMAIN files[loaded]
    BY <2>2 DEF TransferInv, LoadedIsThere
  <2>3. QED
    BY <2>1, <2>2
<1>3. InStep' /\ NothingIsLost' /\ InstalledIsWhole'
  BY DEF TransferInv, InStep, NothingIsLost, InstalledIsWhole, Whole, Arrived
<1>4. QED
  BY <1>1, <1>2, <1>3 DEF TransferInv

LEMMA OpenedIsThere ==
  ASSUME NEW s, NEW rot, Opened(s, rot) # "none"
  PROVE  Opened(s, rot) \in DOMAIN files[loaded]
<1> DEFINE v == Variants(s)
           x == v[rot[s] + 1]
<1>1. Opened(s, rot) = IF v # <<>> /\ x \in DOMAIN files[loaded] THEN x ELSE "none"
  BY DEF Opened
<1> HIDE DEF v, x
<1>2. QED
  BY <1>1

LEMMA ShowKeeps ==
  ASSUME TransferInv,
         (\E s \in PetStates : ShowState(s)) \/ GifEnds \/ PauseEnds \/ NextPet
            \/ (\E s \in {"gif", "ascii"} : SpeciesCommand(s))
  PROVE  TransferInv'
<1>1. UNCHANGED <<files, xfer, loaded, installer, kept, installed>>
  BY DEF ShowState, GifEnds, PauseEnds, NextPet, SpeciesCommand
<1>2. anim = [state |-> anim.state, gif |-> anim.gif, rot |-> anim.rot, pause |-> anim.pause]
  BY DEF TransferInv, LoadedIsThere
<1>3. CASE \E s \in PetStates : ShowState(s)
  <2>1. PICK s \in PetStates : ShowState(s)
    BY <1>3
  <2> DEFINE o == Opened(s, anim.rot)
  <2>2. anim' = [anim EXCEPT !.state = s, !.gif = o, !.pause = FALSE] /\ loaded # NoPack /\ UNCHANGED pet
    BY <2>1 DEF ShowState
  <2>3. o # "none" => o \in DOMAIN files[loaded]
    BY OpenedIsThere
  <2> HIDE DEF o
  <2>4. anim' = [state |-> s, gif |-> o, rot |-> anim.rot, pause |-> FALSE]
    BY <1>2, <2>2
  <2>5. PetIsSaved'
    BY <2>2 DEF TransferInv, PetIsSaved, PetAsSaved
  <2>6. QED
    BY <1>1, <2>2, <2>3, <2>4, <2>5, PetSteps
<1>4. CASE GifEnds
  <2>1. anim'.gif = "none" /\ UNCHANGED pet
        /\ anim' = [state |-> anim'.state, gif |-> anim'.gif, rot |-> anim'.rot, pause |-> anim'.pause]
    <3> DEFINE n == Len(Variants(anim.state))
               r == [anim.rot EXCEPT ![anim.state] = (anim.rot[anim.state] + 1) % n]
    <3>1. /\ anim' = IF n = 1 THEN [anim EXCEPT !.gif = "none"]
                     ELSE [anim EXCEPT !.gif = "none", !.pause = TRUE, !.rot = r]
          /\ UNCHANGED pet
      BY <1>4 DEF GifEnds
    <3> HIDE DEF n, r
    <3>2. CASE n = 1
      <4>1. anim' = [state |-> anim.state, gif |-> "none", rot |-> anim.rot, pause |-> anim.pause]
        BY <1>2, <3>1, <3>2
      <4>2. QED
        BY <3>1, <4>1
    <3>3. CASE n # 1
      <4>1. anim' = [state |-> anim.state, gif |-> "none", rot |-> r, pause |-> TRUE]
        BY <1>2, <3>1, <3>3
      <4>2. QED
        BY <3>1, <4>1
    <3>4. QED
      BY <3>2, <3>3
  <2>2. PetIsSaved'
    BY <2>1 DEF TransferInv, PetIsSaved, PetAsSaved
  <2>3. QED
    BY <1>1, <2>1, <2>2, PetSteps
<1>5. CASE PauseEnds
  <2> DEFINE o == Opened(anim.state, anim.rot)
  <2>1. anim' = [anim EXCEPT !.pause = FALSE, !.gif = o] /\ loaded # NoPack /\ UNCHANGED pet
    BY <1>5 DEF PauseEnds
  <2>2. o # "none" => o \in DOMAIN files[loaded]
    BY OpenedIsThere
  <2> HIDE DEF o
  <2>3. anim' = [state |-> anim.state, gif |-> o, rot |-> anim.rot, pause |-> FALSE]
    BY <1>2, <2>1
  <2>4. PetIsSaved'
    BY <2>1 DEF TransferInv, PetIsSaved, PetAsSaved
  <2>5. QED
    BY <1>1, <2>1, <2>2, <2>3, <2>4, PetSteps
<1>6. CASE NextPet
  <2> DEFINE o == IF anim.state = "none" THEN "none" ELSE Opened(anim.state, anim.rot)
  <2>1. anim' = IF loaded = NoPack THEN anim ELSE [anim EXCEPT !.pause = FALSE, !.gif = o]
    BY <1>6 DEF NextPet, Reopened
  <2>2. o # "none" => o \in DOMAIN files[loaded]
    BY OpenedIsThere
  <2>3. PetIsSaved'
    <3>1. pet \in [buddy : BOOLEAN, gifs : BOOLEAN, species : {"gif", "ascii"}]
      BY DEF TransferInv, PetIsSaved
    <3>2. CASE pet' = [pet EXCEPT !.buddy = TRUE, !.species = "ascii"]
      BY <3>1, <3>2 DEF PetIsSaved, PetAsSaved
    <3>3. CASE pet.gifs /\ pet' = [pet EXCEPT !.buddy = FALSE, !.species = "gif"]
      BY <3>1, <3>3 DEF PetIsSaved, PetAsSaved
    <3>4. CASE pet.buddy /\ pet' = [pet EXCEPT !.species = "ascii"]
      BY <3>1, <3>4 DEF PetIsSaved, PetAsSaved
    <3>5. QED
      BY <1>6, <3>2, <3>3, <3>4 DEF NextPet
  <2> HIDE DEF o
  <2>4. CASE loaded = NoPack
    BY <1>1, <2>1, <2>3, <2>4, PetSteps
  <2>5. CASE loaded # NoPack
    <3>1. anim' = [state |-> anim.state, gif |-> o, rot |-> anim.rot, pause |-> FALSE]
      BY <1>2, <2>1, <2>5
    <3>2. QED
      BY <1>1, <2>2, <2>3, <2>5, <3>1, PetSteps
  <2>6. QED
    BY <2>4, <2>5
<1>7. CASE \E s \in {"gif", "ascii"} : SpeciesCommand(s)
  <2>1. anim' = anim
    BY <1>7 DEF SpeciesCommand
  <2>2. PetIsSaved'
    <3>1. PICK s \in {"gif", "ascii"} : pet' = [pet EXCEPT !.species = s, !.buddy = ~(pet.gifs /\ s = "gif")]
      BY <1>7 DEF SpeciesCommand
    <3> DEFINE b == ~(pet.gifs /\ s = "gif")
    <3>2. b \in BOOLEAN /\ b = ~(pet.gifs /\ s = "gif")
      OBVIOUS
    <3> HIDE DEF b
    <3>3. pet' = [pet EXCEPT !.species = s, !.buddy = b]
      BY <3>1 DEF b
    <3>4. pet \in [buddy : BOOLEAN, gifs : BOOLEAN, species : {"gif", "ascii"}]
      BY DEF TransferInv, PetIsSaved
    <3>5. /\ pet' \in [buddy : BOOLEAN, gifs : BOOLEAN, species : {"gif", "ascii"}]
          /\ pet'.species = s /\ pet'.buddy = b /\ pet'.gifs = pet.gifs
      BY <3>2, <3>3, <3>4
    <3>6. QED
      BY <3>2, <3>5 DEF PetIsSaved, PetAsSaved
  <2>3. QED
    BY <1>1, <2>1, <2>2, PetSteps
<1>8. QED
  BY <1>3, <1>4, <1>5, <1>6, <1>7

LEMMA LinkDropsKeeps ==
  ASSUME TransferInv, LinkDrops
  PROVE  TransferInv'
<1>1. UNCHANGED <<files, xfer, loaded, anim, pet, kept, installed>> /\ installer' = NoInstall
  BY DEF LinkDrops
<1>2. installer' \in [step : InstallSteps, pack : Packs \cup {NoPack}, left : SUBSET Files,
                      chunks : Nat, told : BOOLEAN] /\ installer'.step = "idle"
  BY <1>1, NoneApart DEF NoInstall
<1>3. TransferTyped'
  BY <1>1, <1>2 DEF TransferInv, TransferTyped
<1>4. QED
  BY <1>1, <1>2, <1>3 DEF TransferInv, LoadedIsThere, InStep, NothingIsLost, InstalledIsWhole, Whole, PetIsSaved, PetAsSaved

(* Restarts, cuts and resets.                                              *)
LEMMA BootsKeep ==
  ASSUME TransferInv, PowerCut \/ MountFails \/ DeleteCharacter \/ FactoryReset
  PROVE  TransferInv'
<1>1. FilesTyped(files) /\ InstalledIsWhole /\ InStep
  BY DEF TransferInv, TransferTyped
<1>0. pet.species \in {"gif", "ascii"}
  BY DEF TransferInv, PetIsSaved
<1>2. CASE MountFails \/ FactoryReset
  <2>1. PICK species \in {"gif", "ascii"} : BootsOn(<< >>, species)
    BY <1>0, <1>2 DEF MountFails, FactoryReset
  <2>2. installed' = NoPack
    BY <1>2 DEF MountFails, FactoryReset
  <2>3. QED
    BY <1>1, <2>1, <2>2, NoFilesTyped, BootKeeps
<1>3. CASE DeleteCharacter
  <2>1. PICK keep \in SUBSET (Unfinished \cup {k \in {<<loaded, anim.gif>>} : anim.gif # "none"}) :
          BootsOn(Wiped(keep), pet.species)
    BY <1>3 DEF DeleteCharacter
  <2>2. \A k \in keep : k[1] \in DOMAIN files /\ k[2] \in DOMAIN files[k[1]]
    <3>1. SUFFICES ASSUME NEW k \in keep
                   PROVE  k[1] \in DOMAIN files /\ k[2] \in DOMAIN files[k[1]]
      OBVIOUS
    <3>2. CASE k \in Unfinished
      BY <3>2 DEF Unfinished, StillThere
    <3>3. CASE k = <<loaded, anim.gif>> /\ anim.gif # "none"
      BY <3>3 DEF TransferInv, LoadedIsThere
    <3>4. QED
      BY <3>2, <3>3
  <2>3. FilesTyped(Wiped(keep))
    BY <1>1, <2>2, WipedTyped
  <2>4. installed' = NoPack
    BY <1>3 DEF DeleteCharacter
  <2>5. QED
    BY <1>0, <1>1, <2>1, <2>3, <2>4, BootKeeps
<1>4. CASE PowerCut /\ ~StillThere
  <2>1. BootsOn(files, pet.species) /\ installed' = installed
    BY <1>4 DEF PowerCut
  <2>2. QED
    BY <1>0, <1>1, <2>1, BootKeeps
<1>5. CASE PowerCut /\ StillThere
  <2>1. PICK n \in 0..files[xfer.file[1]][xfer.file[2]] :
          BootsOn([files EXCEPT ![xfer.file[1]][xfer.file[2]] = n], pet.species)
    BY <1>5 DEF PowerCut
  <2>2. installed' = NoPack
    BY <1>5 DEF PowerCut, StillThere, TransferInv, InStep
  <2> DEFINE a == xfer.file[1]
             b == xfer.file[2]
             st == [files EXCEPT ![a][b] = n]
  <2>3. a \in DOMAIN files /\ b \in DOMAIN files[a]
    BY <1>5 DEF StillThere
  <2>4. n \in Nat
    BY <1>1, <2>1, <2>3 DEF FilesTyped
  <2>5. FilesTyped(st)
    <3> HIDE DEF a, b
    <3>1. DOMAIN st = DOMAIN files /\ \A p \in DOMAIN files : DOMAIN st[p] = DOMAIN files[p]
      BY <2>3
    <3>2. \A p \in DOMAIN files : \A f \in DOMAIN files[p] : st[p][f] = n \/ st[p][f] = files[p][f]
      BY <2>3
    <3> HIDE DEF st
    <3>3. QED
      BY <1>1, <2>4, <3>1, <3>2 DEF FilesTyped
  <2>6. BootsOn(st, pet.species)
    BY <2>1
  <2> HIDE DEF st
  <2>7. QED
    BY <1>0, <1>1, <2>2, <2>5, <2>6, BootKeeps
<1>6. QED
  BY <1>2, <1>3, <1>4, <1>5

(* The host begins: what there was is wiped, and there is room.            *)
LEMMA CharBeginKeeps ==
  ASSUME TransferInv, NEW p \in Packs, CharBegin(p)
  PROVE  TransferInv'
<1>1. PICK gives \in BOOLEAN :
        IF ~Fits(IF gives THEN TotalOf(p) ELSE 0)
        THEN UNCHANGED transferVars
        ELSE \E keep \in SUBSET Unfinished :
               LET stays == Wiped(keep) IN
               /\ files' = [q \in DOMAIN stays \cup {p} |-> IF q \in DOMAIN stays THEN stays[q] ELSE << >>]
               /\ kept' = (keep # {})
               /\ xfer' = [xfer EXCEPT !.active = TRUE, !.pack = p]
               /\ loaded' = NoPack
               /\ anim' = [anim EXCEPT !.state = "none", !.gif = "none"]
               /\ installer' = [step |-> "files", pack |-> p, left |-> Files, chunks |-> 0, told |-> gives]
               /\ installed' = NoPack
               /\ UNCHANGED <<pet, troubles>>
  BY DEF CharBegin
<1>2. CASE UNCHANGED transferVars
  BY <1>2 DEF transferVars, TransferInv, TransferTyped, LoadedIsThere, InStep, NothingIsLost, Arrived,
              InstalledIsWhole, Whole, PetIsSaved, PetAsSaved
<1>3. CASE Fits(IF gives THEN TotalOf(p) ELSE 0) /\ ~UNCHANGED transferVars
  <2>1. PICK keep \in SUBSET Unfinished :
               /\ files' = [q \in DOMAIN Wiped(keep) \cup {p} |->
                              IF q \in DOMAIN Wiped(keep) THEN Wiped(keep)[q] ELSE << >>]
               /\ kept' = (keep # {})
               /\ xfer' = [xfer EXCEPT !.active = TRUE, !.pack = p]
               /\ loaded' = NoPack
               /\ anim' = [anim EXCEPT !.state = "none", !.gif = "none"]
               /\ installer' = [step |-> "files", pack |-> p, left |-> Files, chunks |-> 0, told |-> gives]
               /\ installed' = NoPack
               /\ UNCHANGED <<pet, troubles>>
    BY <1>1, <1>3
  <2> DEFINE w == Wiped(keep)
  <2>2. FilesTyped(w) /\ (keep = {} => DOMAIN w = {})
    BY UnfinishedThere, WipedTyped DEF TransferInv, TransferTyped
  <2>3. files' = [q \in DOMAIN w \cup {p} |-> IF q \in DOMAIN w THEN w[q] ELSE << >>]
    BY <2>1
  <2> HIDE DEF w
  <2>4. /\ FilesTyped(files') /\ p \in DOMAIN files'
        /\ keep = {} => DOMAIN files' = {p} /\ files'[p] = << >>
    <3>1. IsFiniteSet(DOMAIN w \cup {p})
      BY <2>2, FS_AddElement DEF FilesTyped
    <3>2. DOMAIN << >> = {}
      OBVIOUS
    <3>3. /\ DOMAIN files' = DOMAIN w \cup {p} /\ (p \notin DOMAIN w => files'[p] = << >>)
          /\ \A q \in DOMAIN w : files'[q] = w[q]
      BY <2>3
    <3>4. FilesTyped(files')
      BY <2>2, <3>1, <3>2, <3>3 DEF FilesTyped
    <3>5. QED
      BY <2>2, <3>3, <3>4
  <2>5. TransferTyped'
    <3>1. xfer' \in [active : BOOLEAN, pack : Packs \cup {NoPack}, file : (Packs \X Files) \cup {NoFile},
                     expected : Nat, written : Nat]
      BY <2>1 DEF TransferInv, TransferTyped
    <3>2. installer' \in [step : InstallSteps, pack : Packs \cup {NoPack}, left : SUBSET Files,
                          chunks : Nat, told : BOOLEAN]
      BY <2>1 DEF InstallSteps
    <3>3. kept' \in BOOLEAN
      BY <2>1
    <3>4. QED
      BY <2>4, <3>1, <3>2, <3>3 DEF TransferTyped
  <2>6. xfer'.active /\ xfer'.pack = p
    BY <2>1 DEF TransferInv, TransferTyped
  <2>7. /\ installer'.step = "files" /\ installer'.pack = p /\ installer'.left = Files
        /\ installer'.told = gives
    BY <2>1
  <2>8. LoadedIsThere'
    <3>1. anim' = [state |-> "none", gif |-> "none", rot |-> anim.rot, pause |-> anim.pause]
      BY <2>1 DEF TransferInv, LoadedIsThere
    <3>2. QED
      BY <2>1, <3>1 DEF LoadedIsThere
  <2>9. InStep' /\ InstalledIsWhole' /\ PetIsSaved'
    BY <2>1, <2>4, <2>6, <2>7 DEF TransferInv, InStep, InstalledIsWhole, PetIsSaved, PetAsSaved
  <2>10. NothingIsLost'
    <3>1. SUFFICES ASSUME gives, keep = {}
                   PROVE  /\ DOMAIN files' = {p} /\ TotalOf(p) <= Flash
                          /\ files'[p] \in [{} -> Nat]
      BY <2>1, <2>7 DEF NothingIsLost, TotalOf
    <3>2. TotalOf(p) <= Flash
      <4>1. Fits(TotalOf(p))
        BY <1>3, <3>1
      <4>2. TotalOf(p) \in Nat /\ Used \in Nat /\ Flash \in Nat /\ Headroom \in Nat
        BY SizesAre, SizeOfTyped, UsedTyped, TransferAssumption DEF TotalOf, TransferInv, TransferTyped
      <4>3. QED
        BY <4>1, <4>2 DEF Fits
    <3>3. << >> \in [{} -> Nat]
      OBVIOUS
    <3>4. QED
      BY <2>4, <3>1, <3>2, <3>3
  <2>11. QED
    BY <2>5, <2>8, <2>9, <2>10 DEF TransferInv
<1>4. QED
  BY <1>1, <1>2, <1>3

(* While a pack comes in nothing is loaded, open or confirmed.             *)
LEMMA NothingPlays ==
  ASSUME TransferInv, xfer.active
  PROVE  /\ loaded = NoPack /\ anim.gif = "none" /\ installed = NoPack /\ xfer.pack \in DOMAIN files
         /\ xfer.pack \in Packs
BY NoneApart DEF TransferInv, TransferTyped, FilesTyped, LoadedIsThere, InStep

LEMMA FilesChange ==
  ASSUME FilesTyped(files), NEW p \in DOMAIN files, NEW h, DOMAIN h \subseteq Files,
         \A f \in DOMAIN h : h[f] \in Nat
  PROVE  FilesTyped([files EXCEPT ![p] = h])
<1> DEFINE st == [files EXCEPT ![p] = h]
<1>1. DOMAIN st = DOMAIN files /\ st[p] = h /\ \A q \in DOMAIN files : q # p => st[q] = files[q]
  OBVIOUS
<1> HIDE DEF st
<1>2. FilesTyped(st)
  BY <1>1 DEF FilesTyped
<1>3. QED
  BY <1>2 DEF st

LEMMA FileStartKeeps ==
  ASSUME TransferInv, FileStart
  PROVE  TransferInv'
<1>1. installer.step = "files" /\ xfer.active /\ UNCHANGED <<loaded, anim, pet, kept, installed, troubles>>
  BY DEF FileStart
<1> DEFINE P == xfer.pack
           D == DOMAIN files[P]
<1>2. PICK f \in installer.left :
        /\ files' = [files EXCEPT ![P] = [g \in D \cup {f} |-> IF g = f THEN 0 ELSE files[P][g]]]
        /\ xfer' = [xfer EXCEPT !.file = <<P, f>>, !.written = 0, !.expected = Sizes[installer.pack][f]]
        /\ installer' = [installer EXCEPT !.step = "chunks", !.left = installer.left \ {f},
                                          !.chunks = Sizes[installer.pack][f]]
  BY DEF FileStart
<1>3. /\ loaded = NoPack /\ anim.gif = "none" /\ installed = NoPack /\ P \in DOMAIN files /\ P \in Packs
      /\ installer.pack = P
  BY <1>1, NothingPlays DEF TransferInv, InStep
<1> DEFINE h == [g \in D \cup {f} |-> IF g = f THEN 0 ELSE files[P][g]]
<1>4. f \in Files /\ Sizes[P][f] \in Nat
  BY <1>3, SizesAre DEF TransferInv, TransferTyped
<1>5. DOMAIN h = D \cup {f} /\ h[f] = 0 /\ \A g \in D : g # f => h[g] = files[P][g]
  OBVIOUS
<1>6. files' = [files EXCEPT ![P] = h]
  BY <1>2
<1>7. FilesTyped(files) /\ D \subseteq Files /\ \A g \in D : files[P][g] \in Nat
  BY <1>3 DEF TransferInv, TransferTyped, FilesTyped
<1> HIDE DEF h, P
<1>8. FilesTyped(files')
  <2>1. DOMAIN h \subseteq Files /\ \A g \in DOMAIN h : h[g] \in Nat
    BY <1>4, <1>5, <1>7
  <2>2. FilesTyped([files EXCEPT ![P] = h])
    BY ONLY <1>3, <1>7, <2>1, FilesChange
  <2>3. QED
    BY <1>6, <2>2
<1>9. DOMAIN files' = DOMAIN files /\ files'[P] = h
  BY <1>3, <1>6
<1>10. /\ xfer' = [active |-> TRUE, pack |-> P, file |-> <<P, f>>, expected |-> Sizes[P][f], written |-> 0]
       /\ installer' = [step |-> "chunks", pack |-> P, left |-> installer.left \ {f},
                        chunks |-> Sizes[P][f], told |-> installer.told]
  <2>1. xfer' = [xfer EXCEPT !.file = <<P, f>>, !.written = 0, !.expected = Sizes[installer.pack][f]]
    BY <1>2
  <2>2. installer' = [installer EXCEPT !.step = "chunks", !.left = installer.left \ {f},
                                          !.chunks = Sizes[installer.pack][f]]
    BY <1>2
  <2>3. QED
    BY <1>1, <1>3, <2>1, <2>2 DEF TransferInv, TransferTyped, P
<1>11. TransferTyped'
  <2>1. installer.left \ {f} \in SUBSET Files /\ installer.told \in BOOLEAN /\ kept \in BOOLEAN
    BY DEF TransferInv, TransferTyped
  <2>2. xfer' \in [active : BOOLEAN, pack : Packs \cup {NoPack}, file : (Packs \X Files) \cup {NoFile},
                   expected : Nat, written : Nat]
    BY <1>3, <1>4, <1>10
  <2>3. installer' \in [step : InstallSteps, pack : Packs \cup {NoPack}, left : SUBSET Files,
                        chunks : Nat, told : BOOLEAN]
    BY <1>3, <1>4, <1>10, <2>1 DEF InstallSteps
  <2>4. QED
    BY <1>1, <1>8, <2>1, <2>2, <2>3 DEF TransferTyped
<1>12. InStep'
  <2>1. <<P, f>> # NoFile /\ <<P, f>>[1] = P /\ <<P, f>>[2] = f
    BY <1>3, <1>4, NoneApart
  <2>2. QED
    BY <1>1, <1>3, <1>4, <1>5, <1>9, <1>10, <2>1 DEF InStep
<1>13. LoadedIsThere' /\ InstalledIsWhole' /\ PetIsSaved'
  BY <1>1, <1>3 DEF TransferInv, LoadedIsThere, InstalledIsWhole, PetIsSaved, PetAsSaved
<1>14. NothingIsLost'
  <2>1. SUFFICES ASSUME installer.told, ~kept
                 PROVE  /\ DOMAIN files' = {P} /\ TotalOf(P) <= Flash
                        /\ h \in [Files \ (installer.left \ {f}) -> Nat]
                        /\ \A g \in Files \ (installer.left \ {f}) :
                             h[g] = IF g = f THEN Sizes[P][g] - Sizes[P][f] ELSE Sizes[P][g]
    <3>1. installer'.step = "chunks" /\ xfer'.file[2] = f /\ installer'.pack = P
          /\ installer'.left = installer.left \ {f} /\ installer'.chunks = Sizes[P][f] /\ installer'.told = installer.told
      BY <1>10
    <3>2. QED
      BY <1>1, <1>9, <3>1 DEF NothingIsLost, Arrived, TotalOf
  <2>2. /\ DOMAIN files = {P} /\ TotalOf(P) <= Flash
        /\ D = Files \ installer.left
        /\ \A g \in D : files[P][g] = Sizes[P][g]
    BY <1>1, <1>3, <2>1 DEF TransferInv, NothingIsLost, Arrived
  <2>3. Files \ (installer.left \ {f}) = D \cup {f}
    BY <1>4, <2>2
  <2>4. h \in [D \cup {f} -> Nat]
    <3>1. h = [g \in D \cup {f} |-> h[g]]
      BY DEF h
    <3>2. \A g \in D \cup {f} : h[g] \in Nat
      BY <1>5, <1>7
    <3>3. QED
      BY <3>1, <3>2
  <2>5. QED
    BY <1>4, <1>5, <1>9, <2>2, <2>3, <2>4
<1>15. QED
  BY <1>11, <1>12, <1>13, <1>14 DEF TransferInv

(* Of the pack that is alone, what arrived is less than what is to arrive:  *)
(* the chunk finds room.                                                   *)
LEMMA ThereIsRoom ==
  ASSUME TransferInv, installer.step = "chunks", installer.chunks > 0, installer.told, ~kept
  PROVE  Used < Flash
<1> DEFINE P == installer.pack
           g == files[P]
           F == xfer.file[2]
<1>1. /\ DOMAIN files = {P} /\ TotalOf(P) <= Flash /\ g \in [Files \ installer.left -> Nat]
      /\ \A f \in Files \ installer.left : g[f] = Arrived(f)
  BY DEF TransferInv, NothingIsLost
<1>2. P \in Packs /\ F \in Files \ installer.left /\ installer.chunks \in Nat /\ installer.left \subseteq Files
  BY <1>1 DEF TransferInv, InStep, TransferTyped, FilesTyped
<1>3. \A f \in Files : Sizes[P][f] \in Nat /\ DOMAIN Sizes[P] = Files
  BY <1>2, SizesAre
<1>4. \A f \in Files \ installer.left :
        g[f] = IF f = F THEN Sizes[P][f] - installer.chunks ELSE Sizes[P][f]
  BY <1>1 DEF Arrived
<1>5. DOMAIN g = Files \ installer.left /\ \A f \in DOMAIN g : g[f] \in Nat
  BY <1>1
<1> DEFINE z == Sizes[P]
<1>6. \A f \in DOMAIN g : g[f] <= z[f]
  BY <1>2, <1>3, <1>4, <1>5
<1>7. F \in DOMAIN g /\ g[F] < z[F]
  BY <1>2, <1>3, <1>4, <1>5
<1>8. DOMAIN z = Files /\ \A f \in DOMAIN z : z[f] \in Nat
  BY <1>2, <1>3
<1>9. Summable(g) /\ Summable(z) /\ SizeOf(g) \in Nat /\ SizeOf(z) \in Nat
  <2> HIDE DEF g, z
  <2>1. QED
    BY <1>5, <1>8, SizeOfTyped
<1>10. SizeOf(g) < SizeOf(z)
  <2> HIDE DEF g, z, F
  <2>1. DOMAIN g \subseteq DOMAIN z
    BY <1>5, <1>8
  <2>2. QED
    BY <1>6, <1>7, <1>9, <2>1, SumGrows DEF SizeOf
<1>11. Used = SizeOf(g)
  BY <1>1, <1>9, UsedByOne
<1>12. QED
  <2>1. SizeOf(z) <= Flash /\ Flash \in Nat
    BY <1>1, TransferAssumption DEF TotalOf
  <2> HIDE DEF g, z
  <2>2. QED
    BY <1>9, <1>10, <1>11, <2>1

LEMMA ChunkKeeps ==
  ASSUME TransferInv, Chunk
  PROVE  TransferInv'
<1> DEFINE P == xfer.file[1]
           F == xfer.file[2]
<1>1. /\ installer.step = "chunks" /\ installer.chunks > 0 /\ xfer.active
      /\ files' = IF Used < Flash THEN [files EXCEPT ![P][F] = files[P][F] + 1] ELSE files
      /\ xfer' = [xfer EXCEPT !.written = xfer.written + 1]
      /\ installer' = [installer EXCEPT !.chunks = installer.chunks - 1]
      /\ UNCHANGED <<loaded, anim, pet, kept, installed, troubles>>
  BY DEF Chunk
<1>2. /\ loaded = NoPack /\ anim.gif = "none" /\ installed = NoPack /\ P \in DOMAIN files /\ P \in Packs
      /\ installer.pack = P /\ xfer.pack = P /\ xfer.file # NoFile
      /\ F \in Files \ installer.left /\ F \in DOMAIN files[P]
  BY <1>1, NothingPlays DEF TransferInv, InStep
<1>3. FilesTyped(files) /\ files[P][F] \in Nat
  BY <1>2 DEF TransferInv, TransferTyped, FilesTyped
<1> DEFINE h == [files[P] EXCEPT ![F] = files[P][F] + 1]
<1>4. /\ DOMAIN h = DOMAIN files[P] /\ h[F] = files[P][F] + 1
      /\ \A f \in DOMAIN files[P] : f # F => h[f] = files[P][f]
  BY <1>2
<1>5. files' = IF Used < Flash THEN [files EXCEPT ![P] = h] ELSE files
  BY <1>1
<1> HIDE DEF h, P, F
<1>6. /\ FilesTyped(files') /\ DOMAIN files' = DOMAIN files
      /\ \A p \in DOMAIN files : DOMAIN files'[p] = DOMAIN files[p]
      /\ Used < Flash => files'[P] = h
  <2>1. DOMAIN h \subseteq Files /\ \A f \in DOMAIN h : h[f] \in Nat
    BY <1>2, <1>3, <1>4 DEF FilesTyped
  <2>2. FilesTyped([files EXCEPT ![P] = h])
    BY ONLY <1>2, <1>3, <2>1, FilesChange
  <2>3. CASE Used < Flash
    BY <1>2, <1>4, <1>5, <2>2, <2>3
  <2>4. CASE ~(Used < Flash)
    BY <1>3, <1>5, <2>4
  <2>5. QED
    BY <2>3, <2>4
<1>7. /\ xfer' \in [active : BOOLEAN, pack : Packs \cup {NoPack}, file : (Packs \X Files) \cup {NoFile},
                    expected : Nat, written : Nat]
      /\ xfer'.active = TRUE /\ xfer'.pack = P /\ xfer'.file = xfer.file
  <2>1. xfer.written + 1 \in Nat
    BY DEF TransferInv, TransferTyped
  <2>2. QED
    BY <1>1, <1>2, <2>1 DEF TransferInv, TransferTyped
<1>8. /\ installer' \in [step : InstallSteps, pack : Packs \cup {NoPack}, left : SUBSET Files,
                         chunks : Nat, told : BOOLEAN]
      /\ installer'.step = "chunks" /\ installer'.pack = P /\ installer'.left = installer.left
      /\ installer'.chunks = installer.chunks - 1 /\ installer'.told = installer.told
  <2>1. installer.chunks - 1 \in Nat
    BY <1>1 DEF TransferInv, TransferTyped
  <2>2. QED
    BY <1>1, <1>2, <2>1 DEF TransferInv, TransferTyped
<1>9. TransferTyped'
  BY <1>1, <1>6, <1>7, <1>8 DEF TransferInv, TransferTyped
<1>10. InStep'
  BY <1>1, <1>2, <1>6, <1>7, <1>8 DEF InStep, P, F
<1>11. LoadedIsThere' /\ InstalledIsWhole' /\ PetIsSaved'
  BY <1>1, <1>2 DEF TransferInv, LoadedIsThere, InstalledIsWhole, PetIsSaved, PetAsSaved
<1>12. NothingIsLost'
  <2>1. SUFFICES ASSUME installer.told, ~kept
                 PROVE  /\ DOMAIN files' = {P} /\ TotalOf(P) <= Flash
                        /\ files'[P] \in [Files \ installer.left -> Nat]
                        /\ \A f \in Files \ installer.left :
                             files'[P][f] = IF f = F THEN Sizes[P][f] - (installer.chunks - 1) ELSE Sizes[P][f]
    BY <1>1, <1>7, <1>8 DEF NothingIsLost, Arrived, TotalOf, F
  <2>2. /\ DOMAIN files = {P} /\ TotalOf(P) <= Flash
        /\ files[P] \in [Files \ installer.left -> Nat]
        /\ \A f \in Files \ installer.left :
             files[P][f] = IF f = F THEN Sizes[P][f] - installer.chunks ELSE Sizes[P][f]
    BY <1>1, <1>2, <2>1 DEF TransferInv, NothingIsLost, Arrived, F
  <2>3. files'[P] = h
    BY <1>1, <1>6, <2>1, ThereIsRoom
  <2>4. h \in [Files \ installer.left -> Nat]
    BY <1>2, <1>3, <2>2 DEF h
  <2>5. installer.chunks \in Nat /\ Sizes[P][F] \in Nat
    BY <1>2, SizesAre DEF TransferInv, TransferTyped
  <2>6. QED
    BY <1>2, <1>3, <1>4, <1>6, <2>2, <2>3, <2>4, <2>5
<1>13. QED
  BY <1>9, <1>10, <1>11, <1>12 DEF TransferInv

LEMMA FileEndKeeps ==
  ASSUME TransferInv, FileEnd
  PROVE  TransferInv'
<1>1. /\ installer.step = "chunks" /\ installer.chunks = 0 /\ xfer.active
      /\ xfer' = [xfer EXCEPT !.file = NoFile]
      /\ UNCHANGED <<files, loaded, anim, pet, kept, installed, troubles>>
      /\ \/ installer.left = {} /\ installer' = [installer EXCEPT !.step = "end"]
         \/ installer.left # {} /\ installer' = [installer EXCEPT !.step = "files"]
         \/ installer' = NoInstall
  BY DEF FileEnd
<1>2. loaded = NoPack /\ anim.gif = "none" /\ installed = NoPack
  BY <1>1, NothingPlays
<1>3. /\ xfer' \in [active : BOOLEAN, pack : Packs \cup {NoPack}, file : (Packs \X Files) \cup {NoFile},
                    expected : Nat, written : Nat]
      /\ xfer'.active = TRUE /\ xfer'.pack = xfer.pack /\ xfer'.file = NoFile
  BY <1>1 DEF TransferInv, TransferTyped
<1>4. /\ installer' \in [step : InstallSteps, pack : Packs \cup {NoPack}, left : SUBSET Files,
                         chunks : Nat, told : BOOLEAN]
      /\ installer'.step \in {"idle", "files", "end"}
      /\ installer'.step # "idle" => /\ installer'.pack = installer.pack /\ installer'.left = installer.left
                                     /\ installer'.told = installer.told
      /\ installer'.step = "end" => installer.left = {}
  <2>1. CASE installer.left = {} /\ installer' = [installer EXCEPT !.step = "end"]
    BY <2>1 DEF TransferInv, TransferTyped, InstallSteps
  <2>2. CASE installer.left # {} /\ installer' = [installer EXCEPT !.step = "files"]
    BY <2>2 DEF TransferInv, TransferTyped, InstallSteps
  <2>3. CASE installer' = NoInstall
    BY <2>3, NoneApart DEF NoInstall
  <2>4. QED
    BY <1>1, <2>1, <2>2, <2>3
<1>5. TransferTyped'
  BY <1>1, <1>3, <1>4 DEF TransferInv, TransferTyped
<1>6. InStep'
  BY <1>1, <1>2, <1>3, <1>4 DEF TransferInv, InStep
<1>7. LoadedIsThere' /\ InstalledIsWhole' /\ PetIsSaved'
  BY <1>1, <1>2 DEF TransferInv, LoadedIsThere, InstalledIsWhole, PetIsSaved, PetAsSaved
<1>8. NothingIsLost'
  <2>1. SUFFICES ASSUME installer'.step # "idle", installer'.told, ~kept
                 PROVE  /\ DOMAIN files = {installer.pack} /\ TotalOf(installer.pack) <= Flash
                        /\ files[installer.pack] \in [Files \ installer.left -> Nat]
                        /\ \A f \in Files \ installer.left : files[installer.pack][f] = Sizes[installer.pack][f]
    BY <1>1, <1>4 DEF NothingIsLost, Arrived, TotalOf
  <2>2. /\ DOMAIN files = {installer.pack} /\ TotalOf(installer.pack) <= Flash
        /\ files[installer.pack] \in [Files \ installer.left -> Nat]
        /\ \A f \in Files \ installer.left :
             files[installer.pack][f] = IF f = xfer.file[2] THEN Sizes[installer.pack][f] - 0
                                        ELSE Sizes[installer.pack][f]
    BY <1>1, <1>4, <2>1 DEF TransferInv, NothingIsLost, Arrived
  <2>3. \A f \in Files : Sizes[installer.pack][f] \in Nat
    <3>1. installer.pack \in Packs
      BY <2>2 DEF TransferInv, TransferTyped, FilesTyped
    <3>2. QED
      BY <3>1, SizesAre
  <2>4. QED
    BY <2>2, <2>3
<1>9. QED
  BY <1>5, <1>6, <1>7, <1>8 DEF TransferInv

LEMMA CharEndKeeps ==
  ASSUME TransferInv, CharEnd
  PROVE  TransferInv'
<1> DEFINE P == xfer.pack
<1>1. /\ installer.step = "end" /\ xfer.active
      /\ xfer' = [xfer EXCEPT !.active = FALSE]
      /\ \/ /\ loaded' = P
            /\ anim' = [anim EXCEPT !.rot = [s \in PetStates |-> 0]]
            /\ pet' = [buddy |-> FALSE, gifs |-> TRUE, species |-> "gif"]
            /\ installed' = IF installer.told /\ ~kept THEN P ELSE NoPack
         \/ UNCHANGED <<loaded, anim, pet, installed>>
      /\ installer' = NoInstall
      /\ UNCHANGED <<files, kept, troubles>>
  BY DEF CharEnd
<1>2. /\ loaded = NoPack /\ anim.gif = "none" /\ installed = NoPack /\ P \in DOMAIN files /\ P \in Packs
      /\ installer.left = {} /\ installer.pack = P /\ xfer.file = NoFile
  BY <1>1, NothingPlays DEF TransferInv, InStep
<1> HIDE DEF P
<1>3. /\ xfer' \in [active : BOOLEAN, pack : Packs \cup {NoPack}, file : (Packs \X Files) \cup {NoFile},
                    expected : Nat, written : Nat]
      /\ xfer'.active = FALSE /\ xfer'.file = NoFile
  BY <1>1, <1>2 DEF TransferInv, TransferTyped
<1>4. installer' \in [step : InstallSteps, pack : Packs \cup {NoPack}, left : SUBSET Files,
                      chunks : Nat, told : BOOLEAN] /\ installer'.step = "idle"
  BY <1>1, NoneApart DEF NoInstall
<1>5. TransferTyped'
  BY <1>1, <1>3, <1>4 DEF TransferInv, TransferTyped
<1>6. InStep' /\ NothingIsLost'
  BY <1>3, <1>4 DEF InStep, NothingIsLost
<1>7. LoadedIsThere'
  <2>1. /\ anim' = [state |-> anim'.state, gif |-> anim'.gif, rot |-> anim'.rot, pause |-> anim'.pause]
        /\ anim'.gif = "none"
    <3>1. anim = [state |-> anim.state, gif |-> anim.gif, rot |-> anim.rot, pause |-> anim.pause]
      BY DEF TransferInv, LoadedIsThere
    <3>2. CASE anim' = anim
      BY <1>2, <3>1, <3>2
    <3>3. CASE anim' = [anim EXCEPT !.rot = [s \in PetStates |-> 0]]
      <4>1. anim' = [state |-> anim.state, gif |-> anim.gif, rot |-> [s \in PetStates |-> 0], pause |-> anim.pause]
        BY <3>1, <3>3
      <4>2. QED
        BY <1>2, <4>1
    <3>4. QED
      BY <1>1, <3>2, <3>3
  <2>2. loaded' # NoPack => loaded' \in DOMAIN files'
    BY <1>1, <1>2
  <2>3. QED
    BY <1>3, <2>1, <2>2 DEF LoadedIsThere
<1>8. PetIsSaved'
  <2>1. CASE pet' = [buddy |-> FALSE, gifs |-> TRUE, species |-> "gif"]
    BY ONLY <2>1 DEF PetIsSaved, PetAsSaved
  <2>2. CASE UNCHANGED pet
    BY <2>2 DEF TransferInv, PetIsSaved, PetAsSaved
  <2>3. QED
    BY <1>1, <2>1, <2>2
<1>9. InstalledIsWhole'
  <2>1. CASE installed' = NoPack
    BY <2>1 DEF InstalledIsWhole
  <2>2. CASE installed' # NoPack
    <3>1. installer.told /\ ~kept /\ installed' = P /\ loaded' = P
      BY <1>1, <1>2, <2>2
    <3>2. /\ DOMAIN files = {P} /\ files[P] \in [Files -> Nat]
          /\ \A f \in Files : files[P][f] = Sizes[P][f]
      BY <1>1, <1>2, <3>1 DEF TransferInv, NothingIsLost, Arrived
    <3>3. Sizes[P] \in [Files -> Nat \ {0}]
      BY <1>2, SizesAre
    <3>4. files[P] = Sizes[P]
      BY <3>2, <3>3
    <3>5. QED
      BY <1>1, <3>1, <3>2, <3>4 DEF InstalledIsWhole, Whole
  <2>3. QED
    BY <2>1, <2>2
<1>10. QED
  BY <1>5, <1>6, <1>7, <1>8, <1>9 DEF TransferInv

LEMMA TransferStarts == TransferInit => TransferInv
<1> SUFFICES ASSUME TransferInit
             PROVE  TransferInv
  OBVIOUS
<1>1. /\ files = << >> /\ xfer = QuietXfer /\ loaded = NoPack /\ anim = Closed
      /\ pet = [buddy |-> TRUE, gifs |-> FALSE, species |-> "gif"]
      /\ installer = NoInstall /\ kept = FALSE /\ installed = NoPack
  BY DEF TransferInit
<1>2. TransferTyped
  <2>1. xfer \in [active : BOOLEAN, pack : Packs \cup {NoPack}, file : (Packs \X Files) \cup {NoFile},
                  expected : Nat, written : Nat]
    BY <1>1, NoneApart DEF QuietXfer
  <2>2. installer \in [step : InstallSteps, pack : Packs \cup {NoPack}, left : SUBSET Files,
                       chunks : Nat, told : BOOLEAN]
    BY <1>1, NoneApart DEF NoInstall
  <2>3. QED
    BY <1>1, <2>1, <2>2, NoFilesTyped DEF TransferTyped
<1>3. LoadedIsThere
  BY <1>1 DEF LoadedIsThere, Closed
<1>4. InStep /\ NothingIsLost
  BY <1>1 DEF InStep, NothingIsLost, QuietXfer, NoInstall
<1>5. InstalledIsWhole /\ PetIsSaved
  BY <1>1 DEF InstalledIsWhole, PetIsSaved, PetAsSaved
<1>6. QED
  BY <1>2, <1>3, <1>4, <1>5 DEF TransferInv

LEMMA TransferStays == TransferInv /\ [TransferNext]_transferVars => TransferInv'
<1> SUFFICES ASSUME TransferInv, [TransferNext]_transferVars
             PROVE  TransferInv'
  OBVIOUS
<1>1. CASE UNCHANGED transferVars
  BY <1>1 DEF transferVars, TransferInv, TransferTyped, LoadedIsThere, InStep, NothingIsLost, Arrived,
              InstalledIsWhole, Whole, PetIsSaved, PetAsSaved
<1>2. CASE \E p \in Packs : CharBegin(p)
  BY <1>2, CharBeginKeeps
<1>3. CASE Serve
  BY <1>3, FileStartKeeps, ChunkKeeps, FileEndKeeps, CharEndKeeps DEF Serve
<1>4. CASE \/ \E s \in PetStates : ShowState(s)
           \/ GifEnds \/ PauseEnds \/ NextPet
           \/ \E s \in {"gif", "ascii"} : SpeciesCommand(s)
  BY <1>4, ShowKeeps
<1>5. CASE PowerCut \/ MountFails \/ DeleteCharacter \/ FactoryReset
  BY <1>5, BootsKeep
<1>6. CASE LinkDrops
  BY <1>6, LinkDropsKeeps
<1>7. QED
  BY <1>1, <1>2, <1>3, <1>4, <1>5, <1>6 DEF TransferNext

LEMMA TransferSays == TransferInv => PackIsWhole
BY DEF TransferInv, PackIsWhole, LoadedIsThere, PetIsSaved, NothingPlaysWhileRewritten

(* The pet that is shown is the one that was installed or chosen: while     *)
(* files come in nothing plays from them, a pack the host saw confirmed with *)
(* its total is whole, alone and loaded through reboots, power cuts and      *)
(* broken transfers, and what is on the screen is what the next boot takes  *)
(* (char_begin to char_end in xfer.h, characterInit in character.cpp).     *)
THEOREM PackPlaysWhole == TransferSpec => []PackIsWhole
BY TransferStarts, TransferStays, TransferSays, PTL DEF TransferSpec

--------------------------------------------------------------------------------
(***************************************************************************)
(* Bounds that the types of the run have and the invariants do without.    *)
(***************************************************************************)

(* What a step may do to a channel, which holds no more than it may.       *)
Passes(q, r) ==
  \/ r = q \/ r = << >>
  \/ q # << >> /\ r = Tail(q)
  \/ Len(q) < Depth /\ \E m : r = Append(q, m)

LEMMA ChannelHolds ==
  ASSUME NEW S, NEW q \in Seq(S), NEW r, Passes(q, r), Len(q) <= Depth
  PROVE  Len(r) <= Depth
<1>1. Len(q) \in Nat /\ Depth \in Nat \ {0}
  BY PushAssumption
<1>2. CASE r = q \/ r = << >>
  BY <1>1, <1>2
<1>3. CASE q # << >> /\ r = Tail(q)
  <2>1. Len(Tail(q)) = Len(q) - 1
    BY <1>3
  <2>2. QED
    BY <1>1, <1>3, <2>1
<1>4. CASE Len(q) < Depth /\ \E m : r = Append(q, m)
  <2>1. PICK m : r = Append(q, m)
    BY <1>4
  <2>2. Len(Append(q, m)) = Len(q) + 1
    OBVIOUS
  <2>3. QED
    BY <1>1, <1>4, <2>1, <2>2
<1>5. QED
  BY <1>2, <1>3, <1>4 DEF Passes

LEMMA ToldPasses ==
  ASSUME NEW s, NEW p, NEW applied, Told(s, p, applied)
  PROVE  Passes(up, up')
BY DEF Told, Passes

LEMMA ReportedPasses ==
  ASSUME NEW b, NEW p, Reported(b, p)
  PROVE  Passes(up, up')
BY ToldPasses DEF Reported, Passes

LEMMA SendsPasses ==
  ASSUME NEW kind, Sends(kind)
  PROVE  Passes(down, down')
BY DEF Sends, Passes

(* An offer is sent as often as the coordinator wants at most.             *)
OffersLeft(h) ==
  /\ h.offers \in 0..Offers
  /\ h.at = "offer" => h.offers < Offers
  /\ h.at = "probing" => h.offers = 0

PushRoom == Len(up) <= Depth /\ Len(down) <= Depth /\ OffersLeft(host)

LEMMA DevicePasses ==
  ASSUME DeviceReads \/ UpdateMoves \/ OfferLapses \/ Confirmed \/ LinkLost
  PROVE  Passes(up, up') /\ Passes(down, down') /\ UNCHANGED host
<1>1. CASE DeviceProbed \/ DeviceOffered \/ DeviceCancels
  <2>1. UNCHANGED host /\ Passes(down, down')
    BY <1>1 DEF DeviceProbed, DeviceOffered, DeviceCancels, Received, hostVars, Passes
  <2>2. Passes(up, up')
    <3>1. CASE DeviceProbed
      BY <3>1, ToldPasses DEF DeviceProbed
    <3>2. CASE DeviceOffered
      BY <3>2, ToldPasses DEF DeviceOffered, Passes
    <3>3. CASE DeviceCancels
      BY <3>3, ToldPasses DEF DeviceCancels, Passes
    <3>4. QED
      BY <1>1, <3>1, <3>2, <3>3
  <2>3. QED
    BY <2>1, <2>2
<1>2. CASE UpdateArms \/ Confirmed
  BY <1>2, ReportedPasses DEF UpdateArms, Confirmed, Moves, hostVars, Passes
<1>3. CASE Stops("error") \/ Stops("cancelled") \/ Advances
  BY <1>3, ReportedPasses DEF Stops, Advances, Moves, hostVars, Passes
<1>4. CASE CancelApplies
  BY <1>4, ToldPasses DEF CancelApplies, hostVars, Passes
<1>5. CASE TerminalOver \/ OfferLapses \/ LinkLost
  BY <1>5 DEF TerminalOver, OfferLapses, LinkLost, hostVars, Passes
<1>6. CASE RestartsInto \/ BootSettles
  BY <1>6 DEF RestartsInto, BootSettles, Restarted, hostVars, Passes
<1>7. QED
  BY <1>1, <1>2, <1>3, <1>4, <1>5, <1>6 DEF DeviceReads, UpdateMoves

LEMMA HostPasses ==
  ASSUME PushInv, OffersLeft(host), HostMoves \/ StartPush \/ Timeout \/ CancelCalled
  PROVE  Passes(up, up') /\ Passes(down, down') /\ OffersLeft(host')
<1>1. /\ host \in [at : Places, s : Versions, offers : Nat, accepted : BOOLEAN,
                   irreversible : BOOLEAN, end : Words]
      /\ Offers \in Nat \ {0}
  BY PushAssumption DEF PushInv, PushTyped
<1>2. \A how : Ends(how) => OffersLeft(host')
  BY <1>1 DEF Ends, OffersLeft
<1>3. CASE StartPush
  <2>1. host'.at = "probing" /\ host'.offers = 0
    BY <1>3 DEF StartPush, QuietHost
  <2>2. QED
    BY <1>1, <1>3, <2>1 DEF StartPush, OffersLeft, Passes
<1>4. CASE SendOffer
  <2>1. host' = [host EXCEPT !.at = "offering", !.offers = @ + 1] /\ host.offers < Offers
    BY <1>4 DEF SendOffer, OffersLeft
  <2>2. host'.at = "offering" /\ host'.offers = host.offers + 1
    BY <1>1, <2>1
  <2>3. OffersLeft(host')
    BY <1>1, <2>1, <2>2 DEF OffersLeft
  <2>4. QED
    BY <1>4, <2>3, SendsPasses DEF SendOffer, Passes
<1>5. CASE Foreign \/ Reprobe \/ SendCancel \/ CancelReturns \/ CancelCalled
  BY <1>5, SendsPasses DEF Foreign, Reprobe, SendCancel, CancelReturns, CancelCalled, hostVars, Passes
<1>6. CASE Timeout
  BY <1>1, <1>2, <1>6 DEF Timeout, OffersLeft, Passes
<1>7. CASE TakeStatus
  <2> DEFINE m == Head(up)
  <2>1. /\ host.at \in {"probing", "offering", "waiting"} /\ up # << >> /\ up' = Tail(up)
        /\ \/ Sends("probe") /\ UNCHANGED host
           \/ UNCHANGED down /\ host.at = "probing" /\ Probed(m)
           \/ UNCHANGED down /\ host.at # "probing" /\ Answered(m)
    BY <1>7 DEF TakeStatus
  <2> HIDE DEF m
  <2>2. Passes(up, up') /\ Passes(down, down')
    BY <2>1, SendsPasses DEF Passes
  <2>3. CASE host.at = "probing" /\ Probed(m)
    <3>1. host' = [host EXCEPT !.at = "offer"] => OffersLeft(host')
      BY <1>1, <2>3 DEF OffersLeft
    <3>2. QED
      BY <1>2, <2>2, <2>3, <3>1 DEF Probed
  <2>4. CASE host.at # "probing" /\ Answered(m)
    <3>1. Follows(m) => host'.at = "waiting" /\ host'.offers = host.offers
      BY <1>1 DEF Follows
    <3>2. OldRunning => OffersLeft(host')
      <4>1. ASSUME host.offers < Offers, host' = [host EXCEPT !.at = "offer"]
            PROVE  OffersLeft(host')
        BY <1>1, <4>1 DEF OffersLeft
      <4>2. Ends("rollback") \/ Ends("timeout") => OffersLeft(host')
        BY <1>2
      <4>3. ASSUME OldRunning
            PROVE  \/ UNCHANGED host \/ Ends("rollback") \/ Ends("timeout")
                   \/ host.offers < Offers /\ host' = [host EXCEPT !.at = "offer"]
        <5>1. host.offers < Offers \/ host.offers >= Offers
          BY <1>1
        <5>2. CASE host.at = "waiting"
          BY <4>3, <5>2 DEF OldRunning
        <5>3. CASE host.at # "waiting" /\ host.offers < Offers
          BY <1>1, <4>3, <5>3 DEF OldRunning
        <5>4. CASE host.at # "waiting" /\ host.offers >= Offers
          BY <1>1, <4>3, <5>4 DEF OldRunning
        <5>5. QED
          BY <5>1, <5>2, <5>3, <5>4
      <4>4. QED
        BY <4>1, <4>2, <4>3
    <3>3. OldRunning \/ Follows(m) \/ \E how : Ends(how)
      BY <2>4 DEF Answered
    <3>4. QED
      BY <1>1, <1>2, <2>2, <3>1, <3>2, <3>3 DEF OffersLeft
  <2>5. QED
    BY <2>1, <2>2, <2>3, <2>4
<1>8. QED
  BY <1>3, <1>4, <1>5, <1>6, <1>7 DEF HostMoves

LEMMA PushStaysInRoom ==
  ASSUME PushInv, PushRoom, [PushNext]_pushVars
  PROVE  PushRoom'
<1>1. Passes(up, up') /\ Passes(down, down') /\ OffersLeft(host')
  <2>1. CASE DeviceReads \/ UpdateMoves \/ OfferLapses \/ Confirmed \/ LinkLost
    BY <2>1, DevicePasses DEF PushRoom
  <2>2. CASE HostMoves \/ StartPush \/ Timeout \/ CancelCalled
    BY <2>2, HostPasses DEF PushRoom
  <2>3. CASE UNCHANGED pushVars
    BY <2>3 DEF PushRoom, pushVars, Passes
  <2>4. QED
    BY <2>1, <2>2, <2>3 DEF PushNext
<1>2. up \in Seq(Answers) /\ down \in Seq(Asks) /\ Len(up) <= Depth /\ Len(down) <= Depth
  BY DEF PushInv, PushTyped, PushRoom
<1>3. Len(up') <= Depth
  BY <1>1, <1>2, ChannelHolds
<1>4. Len(down') <= Depth
  BY <1>1, <1>2, ChannelHolds
<1>5. QED
  BY <1>1, <1>3, <1>4 DEF PushRoom

LEMMA PushStartsInRoom == PushInit => PushRoom
BY PushAssumption DEF PushInit, PushRoom, OffersLeft, QuietHost

LEMMA PushBounds == PushInv /\ PushRoom => PushTypeOK
BY DEF PushInv, PushTyped, PushRoom, OffersLeft, PushTypeOK, Versions, Sessions

(* No more keys are remembered than the limit, and what the device has heard *)
(* is a number of the agent.                                               *)
ChimeRoom == Len(turnKeys) <= DedupeLimit /\ chime.seq \in 0..(SeqModulus - 1)

LEMMA KeysAreFew ==
  ASSUME ChimeInv, Len(turnKeys) <= DedupeLimit, NEW s \in OpenSessions
  PROVE  Len(Pushed(s)) <= DedupeLimit
<1>1. turnKeys \in Seq(OpenSessions) /\ DedupeLimit \in Nat \ {0}
  BY ChimeAssumption DEF ChimeInv, ChimeTyped
<1>2. \A q \in Seq(OpenSessions) : Append(q, s) \in Seq(OpenSessions) /\ Len(Append(q, s)) = Len(q) + 1
  OBVIOUS
<1>3. CASE Len(turnKeys) >= DedupeLimit
  <2>1. turnKeys # << >>
    BY <1>1, <1>3
  <2>2. Tail(turnKeys) \in Seq(OpenSessions) /\ Len(Tail(turnKeys)) = Len(turnKeys) - 1
    BY <1>1, <2>1
  <2>3. Len(Append(Tail(turnKeys), s)) = Len(turnKeys)
    BY <1>1, <1>2, <2>2
  <2>4. QED
    BY <1>3, <2>3 DEF Pushed
<1>4. CASE ~(Len(turnKeys) >= DedupeLimit)
  <2>1. Len(Append(turnKeys, s)) = Len(turnKeys) + 1 /\ Len(turnKeys) \in Nat
    BY <1>1, <1>2
  <2>2. QED
    BY <1>1, <1>4, <2>1 DEF Pushed
<1>5. QED
  BY <1>3, <1>4

LEMMA NumbersOfLines ==
  ASSUME ChimeInv
  PROVE  \A i \in 1..Len(lines) : lines[i].seq \in 0..(SeqModulus - 1)
<1>1. SUFFICES ASSUME NEW i \in 1..Len(lines)
               PROVE  lines[i].seq \in 0..(SeqModulus - 1)
  OBVIOUS
<1>2. lines[i].counted \in Nat /\ lines[i].seq = lines[i].counted % SeqModulus
  <2>1. lines \in Seq(LineKinds)
    BY DEF ChimeInv, ChimeTyped
  <2>2. lines[i] \in LineKinds
    BY <2>1
  <2>3. QED
    BY <2>2 DEF LineKinds, ChimeInv, NumberIsCount
<1>3. QED
  BY <1>2, NumberInRange

LEMMA ChimeStaysInRoom ==
  ASSUME ChimeInv, ChimeRoom, [ChimeNext]_chimeVars
  PROVE  ChimeRoom'
<1>1. DedupeLimit \in Nat /\ SeqModulus \in Nat \ {0} /\ Len(<< >>) = 0
  BY ChimeAssumption
<1>2. CASE UNCHANGED <<turnKeys, chime>>
  BY <1>2 DEF ChimeRoom
<1>3. ASSUME NEW s \in OpenSessions, Notice(s)
      PROVE  ChimeRoom'
  <2>1. UNCHANGED chime /\ (turnKeys' = turnKeys \/ turnKeys' = Pushed(s))
    BY <1>3 DEF Notice, NoticeCounts, NoticeKnown
  <2>2. Len(Pushed(s)) <= DedupeLimit
    BY KeysAreFew DEF ChimeRoom
  <2>3. QED
    BY <2>1, <2>2 DEF ChimeRoom
<1>4. ASSUME NEW k \in 1..Len(lines), Loop(k)
      PROVE  ChimeRoom'
  <2>1. UNCHANGED turnKeys /\ chime' = [has |-> TRUE, seq |-> lines[k].seq]
    BY <1>4 DEF Loop, Observed
  <2>2. chime'.seq \in 0..(SeqModulus - 1)
    BY <2>1, NumbersOfLines
  <2>3. QED
    BY <2>1, <2>2 DEF ChimeRoom
<1>5. CASE AgentRestarts
  BY <1>1, <1>5 DEF AgentRestarts, ChimeRoom
<1>6. CASE DeviceRestarts
  BY <1>1, <1>6 DEF DeviceRestarts, Unheard, ChimeRoom
<1>7. ASSUME NEW s \in OpenSessions, TurnEnds(s) \/ NoticeLost(s)
      PROVE  UNCHANGED <<turnKeys, chime>>
  BY <1>7 DEF TurnEnds, NoticeLost
<1>8. Keepalive \/ Link \/ Unlink \/ UNCHANGED chimeVars => UNCHANGED <<turnKeys, chime>>
  BY DEF Keepalive, Link, Unlink, chimeVars
<1>9. QED
  BY <1>2, <1>3, <1>4, <1>5, <1>6, <1>7, <1>8 DEF ChimeNext

LEMMA ChimeStartsInRoom == ChimeInit => ChimeRoom
<1>1. DedupeLimit \in Nat /\ SeqModulus \in Nat \ {0} /\ Len(<< >>) = 0
  BY ChimeAssumption
<1>2. QED
  BY <1>1 DEF ChimeInit, ChimeRoom, Unheard

LEMMA ChimeBounds == ChimeInv /\ ChimeRoom => ChimeTypeOK
<1> SUFFICES ASSUME ChimeInv, ChimeRoom
             PROVE  ChimeTypeOK
  OBVIOUS
<1>1. completionSeq \in 0..(SeqModulus - 1) /\ stateFile \in 0..(SeqModulus - 1)
  <2>1. tally.counted \in Nat
    BY DEF ChimeInv, ChimeTyped
  <2>2. QED
    BY <2>1, NumberInRange DEF ChimeInv, NumberIsCount
<1>2. {line.seq : line \in Range(lines)} \subseteq 0..(SeqModulus - 1)
  <2>1. lines \in Seq(LineKinds)
    BY DEF ChimeInv, ChimeTyped
  <2>2. DOMAIN lines = 1..Len(lines)
    BY <2>1
  <2>3. QED
    BY <2>2, NumbersOfLines DEF Range
<1>3. QED
  BY <1>1, <1>2 DEF ChimeInv, ChimeTyped, ChimeRoom, ChimeTypeOK

(***************************************************************************)
(* Sums of values that differ.                                             *)
(***************************************************************************)

Worth(g, x) == IF x \in DOMAIN g THEN g[x] ELSE 0

(* If no value is larger than it was, but for one and that by k at most, and *)
(* what is new is worth nothing, the sum is larger by k at most.            *)
LEMMA SumsDiffer ==
  ASSUME NEW g, NEW h, Summable(g), Summable(h), NEW y, NEW k \in Nat,
         \A x \in DOMAIN h : h[x] <= Worth(g, x) + (IF x = y THEN k ELSE 0)
  PROVE  SumFunction(h) <= SumFunction(g) + k
<1> DEFINE C == DOMAIN g
           D == DOMAIN h
           E == C \cup D
           More(s) == IF y \in s THEN k ELSE 0
<1>1. PICK T : SumOf(T, g) /\ SumFunction(g) = T[C]
  BY SumIsOf
<1>2. PICK U : SumOf(U, h) /\ SumFunction(h) = U[D]
  BY SumIsOf
<1>3. /\ IsFiniteSet(E) /\ C \subseteq E /\ D \subseteq E
      /\ \A x \in E : Worth(g, x) \in Nat /\ Worth(h, x) \in Nat
      /\ \A x \in E : Worth(h, x) <= Worth(g, x) + More({x})
  <2>1. IsFiniteSet(C) /\ IsFiniteSet(D) /\ (\A x \in C : g[x] \in Nat) /\ (\A x \in D : h[x] \in Nat)
    BY DEF Summable
  <2>2. IsFiniteSet(E)
    BY <2>1, FS_Union
  <2>3. \A x \in E : Worth(g, x) \in Nat /\ Worth(h, x) \in Nat
    BY <2>1 DEF Worth
  <2>4. ASSUME NEW x \in E
        PROVE  Worth(h, x) <= Worth(g, x) + More({x})
    <3>1. CASE x \in D
      <4>1. h[x] <= Worth(g, x) + (IF x = y THEN k ELSE 0)
        BY <3>1
      <4>2. Worth(h, x) = h[x] /\ More({x}) = (IF x = y THEN k ELSE 0)
        BY <3>1 DEF Worth
      <4>3. QED
        BY <4>1, <4>2
    <3>2. CASE x \notin D
      <4>1. Worth(h, x) = 0 /\ More({x}) \in Nat /\ Worth(g, x) \in Nat
        BY <2>3, <3>2 DEF Worth
      <4>2. QED
        BY <4>1
    <3>3. QED
      BY <3>1, <3>2
  <2>5. QED
    BY <2>2, <2>3, <2>4
<1>4. /\ T[{}] = 0 /\ U[{}] = 0
      /\ \A s \in SUBSET C : T[s] \in Nat /\ \A x \in s : T[s] = g[x] + T[s \ {x}]
      /\ \A s \in SUBSET D : U[s] \in Nat /\ \A x \in s : U[s] = h[x] + U[s \ {x}]
  BY <1>1, <1>2 DEF SumOf
<1>5. SumFunction(g) = T[C] /\ SumFunction(h) = U[D]
  BY <1>1, <1>2
<1>6. ASSUME NEW s \in SUBSET E, NEW x \in s
      PROVE  /\ T[s \cap C] \in Nat /\ T[s \cap C] = Worth(g, x) + T[(s \ {x}) \cap C]
             /\ U[s \cap D] \in Nat /\ U[s \cap D] = Worth(h, x) + U[(s \ {x}) \cap D]
  <2>1. s \cap C \in SUBSET C /\ s \cap D \in SUBSET D
    OBVIOUS
  <2>2. T[s \cap C] \in Nat /\ U[s \cap D] \in Nat
    BY <1>4, <2>1
  <2>3. T[s \cap C] = Worth(g, x) + T[(s \ {x}) \cap C]
    <3>1. CASE x \in C
      <4>1. (s \cap C) \ {x} = (s \ {x}) \cap C /\ x \in s \cap C
        BY <3>1
      <4>2. T[s \cap C] = g[x] + T[(s \cap C) \ {x}]
        BY <1>4, <2>1, <4>1
      <4>3. QED
        BY <3>1, <4>1, <4>2 DEF Worth
    <3>2. CASE x \notin C
      <4>1. s \cap C = (s \ {x}) \cap C
        BY <3>2
      <4>2. QED
        BY <2>2, <3>2, <4>1 DEF Worth
    <3>3. QED
      BY <3>1, <3>2
  <2>4. U[s \cap D] = Worth(h, x) + U[(s \ {x}) \cap D]
    <3>1. CASE x \in D
      <4>1. (s \cap D) \ {x} = (s \ {x}) \cap D /\ x \in s \cap D
        BY <3>1
      <4>2. U[s \cap D] = h[x] + U[(s \cap D) \ {x}]
        BY <1>4, <2>1, <4>1
      <4>3. QED
        BY <3>1, <4>1, <4>2 DEF Worth
    <3>2. CASE x \notin D
      <4>1. s \cap D = (s \ {x}) \cap D
        BY <3>2
      <4>2. QED
        BY <2>2, <3>2, <4>1 DEF Worth
    <3>3. QED
      BY <3>1, <3>2
  <2>5. QED
    BY <2>2, <2>3, <2>4
<1> DEFINE S == {n \in Nat : \A s \in SUBSET E : Cardinality(s) <= n => U[s \cap D] <= T[s \cap C] + More(s)}
<1> HIDE DEF C, D, E
<1>7. 0 \in S
  <2>1. ASSUME NEW s \in SUBSET E, Cardinality(s) <= 0
        PROVE  U[s \cap D] <= T[s \cap C] + More(s)
    <3>1. s = {}
      <4>1. Cardinality(s) \in Nat /\ (Cardinality(s) = 0 <=> s = {})
        BY <1>3, Smaller
      <4>2. QED
        BY <2>1, <4>1
    <3>2. s \cap D = {} /\ s \cap C = {}
      BY <3>1
    <3>3. U[s \cap D] = 0 /\ T[s \cap C] = 0 /\ More(s) = 0
      BY <1>4, <3>1, <3>2
    <3>4. QED
      BY <3>3
  <2>2. QED
    BY <2>1
<1>8. ASSUME NEW n \in Nat, n \in S
      PROVE  n + 1 \in S
  <2>1. SUFFICES ASSUME NEW s \in SUBSET E, Cardinality(s) <= n + 1
                 PROVE  U[s \cap D] <= T[s \cap C] + More(s)
    OBVIOUS
  <2>2. CASE s = {}
    <3>1. s \cap D = {} /\ s \cap C = {}
      BY <2>2
    <3>2. U[s \cap D] = 0 /\ T[s \cap C] = 0 /\ More(s) = 0
      BY <1>4, <2>2, <3>1
    <3>3. QED
      BY <3>2
  <2>3. CASE s # {}
    <3>1. PICK x \in s : TRUE
      BY <2>3
    <3> DEFINE r == s \ {x}
    <3>2. r \in SUBSET E /\ Cardinality(r) <= n
      BY <1>3, <2>1, Smaller
    <3>3. U[r \cap D] <= T[r \cap C] + More(r)
      BY <1>8, <3>2
    <3>4. /\ T[s \cap C] \in Nat /\ T[s \cap C] = Worth(g, x) + T[r \cap C]
          /\ U[s \cap D] \in Nat /\ U[s \cap D] = Worth(h, x) + U[r \cap D]
      BY <1>6
    <3>5. T[r \cap C] \in Nat /\ U[r \cap D] \in Nat
      BY <1>4
    <3>6. Worth(h, x) <= Worth(g, x) + More({x}) /\ Worth(g, x) \in Nat /\ Worth(h, x) \in Nat
      BY <1>3
    <3>7. More(s) = More(r) + More({x}) /\ More(r) \in Nat /\ More({x}) \in Nat
      OBVIOUS
    <3> HIDE DEF More, r
    <3>8. QED
      BY ONLY <3>3, <3>4, <3>5, <3>6, <3>7
  <2>4. QED
    BY <2>2, <2>3
<1>9. Cardinality(E) \in Nat
  BY <1>3, FS_CardinalityType
<1> HIDE DEF S
<1>10. Cardinality(E) \in S
  <2>1. 0..Cardinality(E) \subseteq S
    BY <1>7, <1>8, <1>9, UpTo
  <2>2. QED
    BY <1>9, <2>1
<1>11. U[E \cap D] <= T[E \cap C] + More(E)
  <2>1. Cardinality(E) <= Cardinality(E) /\ E \in SUBSET E
    BY <1>9
  <2>2. QED
    BY <1>10, <2>1 DEF S
<1>12. E \cap D = D /\ E \cap C = C /\ T[C] \in Nat /\ U[D] \in Nat /\ More(E) \in {0, k}
  BY <1>3, <1>4
<1>13. QED
  BY <1>5, <1>11, <1>12

(* What lies on the flash, of any files.                                   *)
Content(st) == SumFunction([p \in DOMAIN st |-> SizeOf(st[p])])
Lies(st, p, f) == IF p \in DOMAIN st THEN Worth(st[p], f) ELSE 0

LEMMA NothingLies == SizeOf(<< >>) = 0 /\ DOMAIN << >> = {}
<1>1. DOMAIN << >> = {}
  OBVIOUS
<1>2. Summable(<< >>)
  BY <1>1, FS_EmptySet DEF Summable
<1>3. PICK T : SumOf(T, << >>) /\ SumFunction(<< >>) = T[DOMAIN << >>]
  BY <1>2, SumIsOf
<1>4. QED
  BY <1>1, <1>3 DEF SumOf, SizeOf

(* If no file is longer than it was, but for one and that by k at most, the *)
(* flash holds no more than it did and k.                                  *)
LEMMA ContentsDiffer ==
  ASSUME NEW st, NEW tt, FilesTyped(st), FilesTyped(tt), NEW q, NEW e, NEW k \in Nat,
         \A p \in DOMAIN tt : \A f \in DOMAIN tt[p] :
           tt[p][f] <= Lies(st, p, f) + (IF p = q /\ f = e THEN k ELSE 0)
  PROVE  Content(tt) <= Content(st) + k
<1> DEFINE g == [p \in DOMAIN st |-> SizeOf(st[p])]
           h == [p \in DOMAIN tt |-> SizeOf(tt[p])]
           Was(p) == IF p \in DOMAIN st THEN st[p] ELSE << >>
           More(p) == IF p = q THEN k ELSE 0
<1>1. Summable(g) /\ Summable(h)
  <2>1. \A p \in DOMAIN st : SizeOf(st[p]) \in Nat
    BY SizeOfTyped DEF FilesTyped
  <2>2. \A p \in DOMAIN tt : SizeOf(tt[p]) \in Nat
    BY SizeOfTyped DEF FilesTyped
  <2>3. QED
    BY <2>1, <2>2 DEF Summable, FilesTyped
<1>2. ASSUME NEW p \in DOMAIN tt
      PROVE  SizeOf(tt[p]) <= SizeOf(Was(p)) + More(p)
  <2>1. Summable(tt[p]) /\ Summable(Was(p))
    <3>1. Summable(tt[p])
      BY SizeOfTyped DEF FilesTyped
    <3>2. CASE p \in DOMAIN st
      BY <3>1, <3>2, SizeOfTyped DEF FilesTyped
    <3>3. CASE p \notin DOMAIN st
      BY <3>1, <3>3, NothingLies, FS_EmptySet DEF Summable
    <3>4. QED
      BY <3>2, <3>3
  <2>2. ASSUME NEW f \in DOMAIN tt[p]
        PROVE  tt[p][f] <= Worth(Was(p), f) + (IF f = e THEN More(p) ELSE 0)
    <3>1. Lies(st, p, f) = Worth(Was(p), f)
      BY NothingLies DEF Lies, Worth
    <3>2. tt[p][f] <= Lies(st, p, f) + (IF p = q /\ f = e THEN k ELSE 0)
      OBVIOUS
    <3>3. (IF p = q /\ f = e THEN k ELSE 0) = (IF f = e THEN More(p) ELSE 0)
      OBVIOUS
    <3>4. QED
      BY <3>1, <3>2, <3>3
  <2>3. More(p) \in Nat
    OBVIOUS
  <2> HIDE DEF Was, More
  <2>4. SumFunction(tt[p]) <= SumFunction(Was(p)) + More(p)
    BY <2>1, <2>2, <2>3, SumsDiffer
  <2>5. QED
    BY <2>4 DEF SizeOf
<1>3. ASSUME NEW p \in DOMAIN h
      PROVE  h[p] <= Worth(g, p) + (IF p = q THEN k ELSE 0)
  <2>1. h[p] = SizeOf(tt[p]) /\ p \in DOMAIN tt
    OBVIOUS
  <2>2. Worth(g, p) = SizeOf(Was(p))
    BY NothingLies DEF Worth
  <2>3. QED
    BY <1>2, <2>1, <2>2
<1> HIDE DEF g, h
<1>4. SumFunction(h) <= SumFunction(g) + k
  BY <1>1, <1>3, SumsDiffer
<1>5. QED
  BY <1>4 DEF g, h, Content

LEMMA UsedIsContent == Used = Content(files)
BY DEF Used, Content

LEMMA ContentTyped ==
  ASSUME NEW st, FilesTyped(st)
  PROVE  Content(st) \in Nat
<1> DEFINE g == [p \in DOMAIN st |-> SizeOf(st[p])]
<1>1. \A p \in DOMAIN st : SizeOf(st[p]) \in Nat
  BY SizeOfTyped DEF FilesTyped
<1>2. Summable(g)
  BY <1>1 DEF Summable, FilesTyped
<1>3. Content(st) = SumFunction(g)
  BY DEF Content
<1> HIDE DEF g
<1>4. QED
  BY <1>2, <1>3, SumTyped

(* What the flash holds fits, what was written of a file and what is still  *)
(* to come make the file, and the troubles are counted.                    *)
TransferRoom ==
  /\ Used <= Flash
  /\ xfer.written <= xfer.expected
  /\ installer.step = "chunks" => xfer.written + installer.chunks = xfer.expected
  /\ troubles \in 0..MaxTrouble

(* A step after which no file is longer.                                   *)
NoLonger(st) == \A p \in DOMAIN st : \A f \in DOMAIN st[p] : st[p][f] <= Lies(files, p, f)

LEMMA NoLongerFits ==
  ASSUME FilesTyped(files), NEW st, FilesTyped(st), NoLonger(st), Used <= Flash
  PROVE  Content(st) <= Flash
<1>1. Content(st) <= Content(files) + 0
  <2>1. \A p \in DOMAIN st : \A f \in DOMAIN st[p] :
          st[p][f] <= Lies(files, p, f) + (IF p = NoPack /\ f = NoFile THEN 0 ELSE 0)
    <3>1. SUFFICES ASSUME NEW p \in DOMAIN st, NEW f \in DOMAIN st[p]
                   PROVE  st[p][f] <= Lies(files, p, f) + 0
      OBVIOUS
    <3>2. Lies(files, p, f) \in Nat /\ st[p][f] <= Lies(files, p, f) /\ st[p][f] \in Nat
      BY DEF Lies, Worth, FilesTyped, NoLonger
    <3>3. QED
      BY <3>2
  <2>2. QED
    BY <2>1, ContentsDiffer
<1>2. Content(files) \in Nat /\ Content(st) \in Nat /\ Flash \in Nat
  BY ContentTyped, TransferAssumption
<1>3. QED
  BY <1>1, <1>2, UsedIsContent

LEMMA WipedShrinks ==
  ASSUME FilesTyped(files), NEW keep, \A k \in keep : k[1] \in DOMAIN files /\ k[2] \in DOMAIN files[k[1]]
  PROVE  NoLonger(Wiped(keep))
<1>1. SUFFICES ASSUME NEW p \in DOMAIN Wiped(keep), NEW f \in DOMAIN Wiped(keep)[p]
               PROVE  Wiped(keep)[p][f] <= Lies(files, p, f)
  BY DEF NoLonger
<1> DEFINE P == {k[1] : k \in keep}
           F(q) == {k[2] : k \in {j \in keep : j[1] = q}}
<1>2. Wiped(keep) = [q \in P |-> [e \in F(q) |-> files[q][e]]]
  BY DEF Wiped
<1> HIDE DEF P, F
<1>3. p \in P /\ Wiped(keep)[p] = [e \in F(p) |-> files[p][e]]
  BY <1>2
<1>4. f \in F(p) /\ Wiped(keep)[p][f] = files[p][f]
  BY <1>3
<1>5. p \in DOMAIN files /\ f \in DOMAIN files[p]
  BY <1>3, <1>4 DEF P, F
<1>6. files[p][f] \in Nat
  BY <1>5 DEF FilesTyped
<1>7. QED
  BY <1>4, <1>5, <1>6 DEF Lies, Worth

LEMMA SameIsNoLonger ==
  ASSUME FilesTyped(files)
  PROVE  NoLonger(files) /\ NoLonger(<< >>)
<1>1. ASSUME NEW p \in DOMAIN files, NEW f \in DOMAIN files[p]
      PROVE  files[p][f] <= Lies(files, p, f)
  <2>1. files[p][f] \in Nat
    BY DEF FilesTyped
  <2>2. QED
    BY <2>1 DEF Lies, Worth
<1>2. QED
  BY <1>1, NoFilesTyped DEF NoLonger

(* The room after a step that leaves the files no longer and the host as it *)
(* was or without a file.                                                  *)
LEMMA RoomStays ==
  ASSUME TransferInv, TransferInv', TransferRoom, NoLonger(files'),
         xfer'.written <= xfer'.expected,
         installer'.step = "chunks" => xfer'.written + installer'.chunks = xfer'.expected,
         troubles' \in 0..MaxTrouble
  PROVE  TransferRoom'
<1>1. FilesTyped(files) /\ FilesTyped(files') /\ Used <= Flash
  BY DEF TransferInv, TransferTyped, TransferRoom
<1>2. Content(files') <= Flash
  BY <1>1, NoLongerFits
<1>3. Used' = Content(files')
  BY DEF Used, Content
<1>4. QED
  BY <1>2, <1>3 DEF TransferRoom

LEMMA XferIs ==
  ASSUME TransferInv, TransferRoom
  PROVE  /\ FilesTyped(files)
         /\ xfer.written \in Nat /\ xfer.expected \in Nat /\ installer.chunks \in Nat
         /\ MaxTrouble \in Nat /\ troubles \in 0..MaxTrouble
         /\ xfer.written <= xfer.expected
         /\ installer.step = "chunks" => xfer.written + installer.chunks = xfer.expected
BY TransferAssumption DEF TransferInv, TransferTyped, TransferRoom

LEMMA BeginRoom ==
  ASSUME TransferInv, TransferInv', TransferRoom, NEW p \in Packs, CharBegin(p)
  PROVE  TransferRoom'
<1>1. CASE UNCHANGED transferVars
  <2>1. NoLonger(files')
    BY <1>1, XferIs, SameIsNoLonger DEF transferVars
  <2>2. QED
    BY <1>1, <2>1, XferIs, RoomStays DEF transferVars
<1>2. CASE ~UNCHANGED transferVars
  <2>1. PICK keep \in SUBSET Unfinished :
          /\ files' = [q \in DOMAIN Wiped(keep) \cup {p} |->
                         IF q \in DOMAIN Wiped(keep) THEN Wiped(keep)[q] ELSE << >>]
          /\ xfer' = [xfer EXCEPT !.active = TRUE, !.pack = p]
          /\ installer'.step = "files" /\ UNCHANGED troubles
    <3>1. PICK gives \in BOOLEAN, keep \in SUBSET Unfinished :
            /\ files' = [q \in DOMAIN Wiped(keep) \cup {p} |->
                           IF q \in DOMAIN Wiped(keep) THEN Wiped(keep)[q] ELSE << >>]
            /\ xfer' = [xfer EXCEPT !.active = TRUE, !.pack = p]
            /\ installer' = [step |-> "files", pack |-> p, left |-> Files, chunks |-> 0, told |-> gives]
            /\ UNCHANGED troubles
      <4>1. PICK gives \in BOOLEAN :
              IF ~Fits(IF gives THEN TotalOf(p) ELSE 0)
              THEN UNCHANGED transferVars
              ELSE \E keep \in SUBSET Unfinished :
                     LET stays == Wiped(keep) IN
                     /\ files' = [q \in DOMAIN stays \cup {p} |-> IF q \in DOMAIN stays THEN stays[q] ELSE << >>]
                     /\ kept' = (keep # {})
                     /\ xfer' = [xfer EXCEPT !.active = TRUE, !.pack = p]
                     /\ loaded' = NoPack
                     /\ anim' = [anim EXCEPT !.state = "none", !.gif = "none"]
                     /\ installer' = [step |-> "files", pack |-> p, left |-> Files, chunks |-> 0, told |-> gives]
                     /\ installed' = NoPack
                     /\ UNCHANGED <<pet, troubles>>
        BY DEF CharBegin
      <4>2. QED
        BY <1>2, <4>1
    <3>2. installer'.step = "files"
      BY <3>1
    <3>3. QED
      BY <3>1, <3>2
  <2>2. NoLonger(Wiped(keep))
    BY XferIs, UnfinishedThere, WipedShrinks
  <2> DEFINE W == Wiped(keep)
  <2> HIDE DEF W
  <2>3. files' = [q \in DOMAIN W \cup {p} |-> IF q \in DOMAIN W THEN W[q] ELSE << >>] /\ NoLonger(W)
    BY <2>1, <2>2 DEF W
  <2>4. NoLonger(files')
    <3>1. SUFFICES ASSUME NEW q \in DOMAIN files', NEW f \in DOMAIN files'[q]
                   PROVE  files'[q][f] <= Lies(files, q, f)
      BY DEF NoLonger
    <3>2. q \in DOMAIN W
      BY <2>3, <3>1, NothingLies
    <3>3. files'[q] = W[q]
      BY <2>3, <3>2
    <3>4. QED
      BY <2>3, <3>1, <3>2, <3>3 DEF NoLonger
  <2>5. xfer'.written = xfer.written /\ xfer'.expected = xfer.expected
    BY <2>1 DEF TransferInv, TransferTyped
  <2>6. QED
    BY <2>1, <2>4, <2>5, XferIs, RoomStays
<1>3. QED
  BY <1>1, <1>2

LEMMA FileStartRoom ==
  ASSUME TransferInv, TransferInv', TransferRoom, FileStart
  PROVE  TransferRoom'
<1>1. PICK f \in installer.left :
        /\ files' = [files EXCEPT ![xfer.pack] = [g \in DOMAIN @ \cup {f} |-> IF g = f THEN 0 ELSE @[g]]]
        /\ xfer' = [xfer EXCEPT !.file = <<xfer.pack, f>>, !.written = 0,
                                !.expected = Sizes[installer.pack][f]]
        /\ installer' = [installer EXCEPT !.step = "chunks", !.left = @ \ {f},
                                          !.chunks = Sizes[installer.pack][f]]
  BY DEF FileStart
<1>2. UNCHANGED troubles /\ installer.step = "files"
  BY DEF FileStart
<1>3. /\ xfer \in [active : BOOLEAN, pack : Packs \cup {NoPack}, file : (Packs \X Files) \cup {NoFile},
                   expected : Nat, written : Nat]
      /\ installer \in [step : InstallSteps, pack : Packs \cup {NoPack}, left : SUBSET Files,
                        chunks : Nat, told : BOOLEAN]
      /\ xfer.pack \in DOMAIN files /\ xfer.pack = installer.pack
  BY <1>2 DEF TransferInv, TransferTyped, InStep
<1>4. installer.pack \in Packs
  BY <1>3 DEF TransferInv, TransferTyped, FilesTyped
<1> DEFINE n == Sizes[installer.pack][f]
<1>5. n \in Nat
  <2>1. f \in Files
    BY <1>3
  <2>2. QED
    BY <1>4, <2>1, SizesAre
<1> HIDE DEF n
<1>6. xfer'.written = 0 /\ xfer'.expected = n /\ installer'.chunks = n
  BY <1>1, <1>3 DEF n
<1>7. NoLonger(files')
  <2>1. SUFFICES ASSUME NEW q \in DOMAIN files', NEW e \in DOMAIN files'[q]
                 PROVE  files'[q][e] <= Lies(files, q, e)
    BY DEF NoLonger
  <2>2. q \in DOMAIN files
    BY <1>1
  <2>3. CASE q # xfer.pack
    <3>1. files'[q] = files[q]
      BY <1>1, <2>2, <2>3
    <3>2. files[q][e] \in Nat /\ e \in DOMAIN files[q]
      BY <2>1, <2>2, <3>1 DEF TransferInv, TransferTyped, FilesTyped
    <3>3. QED
      BY <2>2, <3>1, <3>2 DEF Lies, Worth
  <2>4. CASE q = xfer.pack
    <3>1. files'[q] = [g \in DOMAIN files[q] \cup {f} |-> IF g = f THEN 0 ELSE files[q][g]]
      BY <1>1, <2>2, <2>4
    <3>2. Lies(files, q, e) \in Nat
      BY <2>2 DEF Lies, Worth, TransferInv, TransferTyped, FilesTyped
    <3>3. CASE e = f
      BY <3>1, <3>2, <3>3
    <3>4. CASE e # f
      <4>1. files'[q][e] = files[q][e] /\ e \in DOMAIN files[q]
        BY <2>1, <3>1, <3>4
      <4>2. QED
        BY <2>2, <3>2, <4>1 DEF Lies, Worth
    <3>5. QED
      BY <3>3, <3>4
  <2>5. QED
    BY <2>3, <2>4
<1>8. QED
  BY <1>2, <1>5, <1>6, <1>7, XferIs, RoomStays

(* A chunk that finds no room is lost, and the others take what was free.  *)
LEMMA ChunkRoom ==
  ASSUME TransferInv, TransferInv', TransferRoom, Chunk
  PROVE  TransferRoom'
<1>1. /\ installer.step = "chunks" /\ installer.chunks > 0 /\ UNCHANGED troubles
      /\ files' = IF Used < Flash THEN [files EXCEPT ![xfer.file[1]][xfer.file[2]] = @ + 1] ELSE files
      /\ xfer' = [xfer EXCEPT !.written = @ + 1] /\ installer' = [installer EXCEPT !.chunks = @ - 1]
  BY DEF Chunk
<1>2. /\ xfer \in [active : BOOLEAN, pack : Packs \cup {NoPack}, file : (Packs \X Files) \cup {NoFile},
                   expected : Nat, written : Nat]
      /\ installer \in [step : InstallSteps, pack : Packs \cup {NoPack}, left : SUBSET Files,
                        chunks : Nat, told : BOOLEAN]
      /\ FilesTyped(files) /\ FilesTyped(files')
  BY DEF TransferInv, TransferTyped
<1>3. xfer'.written = xfer.written + 1 /\ xfer'.expected = xfer.expected /\ installer'.chunks = installer.chunks - 1
  BY <1>1, <1>2
<1>4. xfer'.written <= xfer'.expected /\ xfer'.written + installer'.chunks = xfer'.expected
  BY <1>1, <1>3, XferIs
<1>5. CASE Used < Flash
  <2> DEFINE q == xfer.file[1]
             e == xfer.file[2]
  <2>1. q \in DOMAIN files /\ e \in DOMAIN files[q]
    BY <1>1 DEF TransferInv, InStep
  <2>2. files' = [files EXCEPT ![q][e] = @ + 1]
    BY <1>1, <1>5
  <2> HIDE DEF q, e
  <2>3. ASSUME NEW p \in DOMAIN files', NEW f \in DOMAIN files'[p]
        PROVE  files'[p][f] <= Lies(files, p, f) + (IF p = q /\ f = e THEN 1 ELSE 0)
    <3>1. p \in DOMAIN files
      BY <2>2
    <3>2. CASE p = q
      <4>1. files'[p] = [files[p] EXCEPT ![e] = @ + 1]
        BY <2>2, <3>1, <3>2
      <4>2. f \in DOMAIN files[p]
        BY <2>3, <4>1
      <4>3. files[p][f] \in Nat
        BY <1>2, <3>1, <4>2 DEF FilesTyped
      <4>4. files'[p][f] = files[p][f] + (IF f = e THEN 1 ELSE 0)
        BY <4>1, <4>2, <4>3
      <4>5. Lies(files, p, f) = files[p][f]
        BY <3>1, <4>2 DEF Lies, Worth
      <4>6. QED
        BY <3>2, <4>3, <4>4, <4>5
    <3>3. CASE p # q
      <4>1. files'[p] = files[p]
        BY <2>2, <3>1, <3>3
      <4>2. f \in DOMAIN files[p] /\ files[p][f] \in Nat
        BY <1>2, <2>3, <3>1, <4>1 DEF FilesTyped
      <4>3. QED
        BY <3>1, <3>3, <4>1, <4>2 DEF Lies, Worth
    <3>4. QED
      BY <3>2, <3>3
  <2>4. Content(files') <= Content(files) + 1
    BY <1>2, <2>3, ContentsDiffer
  <2>5. Content(files) \in Nat /\ Content(files') \in Nat /\ Flash \in Nat
    BY <1>2, ContentTyped, TransferAssumption
  <2>6. Content(files) < Flash
    BY <1>5, UsedIsContent
  <2>7. Used' = Content(files')
    BY DEF Used, Content
  <2>8. Used' <= Flash
    BY <2>4, <2>5, <2>6, <2>7
  <2>9. QED
    BY <1>1, <1>4, <2>8, XferIs DEF TransferRoom
<1>6. CASE ~(Used < Flash)
  <2>1. files' = files
    BY <1>1, <1>6
  <2>2. NoLonger(files')
    BY <1>2, <2>1, SameIsNoLonger
  <2>3. QED
    BY <1>1, <1>4, <2>2, XferIs, RoomStays
<1>7. QED
  BY <1>5, <1>6

(* A device that starts has no transfer.                                   *)
LEMMA BootsRoom ==
  ASSUME TransferInv, TransferInv', TransferRoom,
         PowerCut \/ MountFails \/ DeleteCharacter \/ FactoryReset
  PROVE  TransferRoom'
<1>1. FilesTyped(files) /\ troubles \in 0..MaxTrouble /\ MaxTrouble \in Nat
  BY XferIs
<1>2. troubles' \in 0..MaxTrouble
  <2>1. troubles' = troubles \/ (troubles < MaxTrouble /\ troubles' = troubles + 1)
    BY DEF PowerCut, MountFails, DeleteCharacter, FactoryReset
  <2>2. QED
    BY <1>1, <2>1
<1>3. ASSUME NEW st, NEW species, BootsOn(st, species), NoLonger(st)
      PROVE  TransferRoom'
  <2>1. files' = st /\ xfer'.written = 0 /\ xfer'.expected = 0 /\ installer'.step = "idle"
    BY <1>3 DEF BootsOn, QuietXfer, NoInstall
  <2>2. QED
    BY <1>2, <1>3, <2>1, RoomStays
<1>4. CASE PowerCut
  <2>1. CASE StillThere
    <3> DEFINE q == xfer.file[1]
               e == xfer.file[2]
    <3>1. PICK n \in 0..files[q][e] : BootsOn([files EXCEPT ![q][e] = n], pet.species)
      BY <1>4, <2>1 DEF PowerCut
    <3>2. q \in DOMAIN files /\ e \in DOMAIN files[q]
      BY <2>1 DEF StillThere
    <3> HIDE DEF q, e
    <3>3. n \in Nat /\ n <= files[q][e]
      BY <1>1, <3>1, <3>2 DEF FilesTyped
    <3> DEFINE st == [files EXCEPT ![q][e] = n]
    <3>4. NoLonger(st)
      <4>1. SUFFICES ASSUME NEW p \in DOMAIN st, NEW f \in DOMAIN st[p]
                     PROVE  st[p][f] <= Lies(files, p, f)
        BY DEF NoLonger
      <4>2. p \in DOMAIN files
        OBVIOUS
      <4>3. CASE p = q
        <5>1. st[p] = [files[p] EXCEPT ![e] = n]
          BY <4>2, <4>3
        <5> HIDE DEF st
        <5>2. f \in DOMAIN files[p]
          BY <4>1, <5>1
        <5>3. files[p][f] \in Nat
          BY <1>1, <4>2, <5>2 DEF FilesTyped
        <5>4. st[p][f] <= files[p][f]
          BY <3>3, <4>3, <5>1, <5>2, <5>3
        <5>5. QED
          BY <4>2, <5>2, <5>4 DEF Lies, Worth
      <4>4. CASE p # q
        <5>1. st[p] = files[p]
          BY <4>2, <4>4
        <5> HIDE DEF st
        <5>2. f \in DOMAIN files[p] /\ files[p][f] \in Nat
          BY <1>1, <4>1, <4>2, <5>1 DEF FilesTyped
        <5>3. QED
          BY <4>2, <5>1, <5>2 DEF Lies, Worth
      <4>5. QED
        BY <4>3, <4>4
    <3>5. QED
      BY <1>3, <3>1, <3>4
  <2>2. CASE ~StillThere
    <3>1. BootsOn(files, pet.species)
      BY <1>4, <2>2 DEF PowerCut
    <3>2. QED
      BY <1>1, <1>3, <3>1, SameIsNoLonger
  <2>3. QED
    BY <2>1, <2>2
<1>5. CASE MountFails \/ FactoryReset
  <2>1. PICK species : BootsOn(<< >>, species)
    BY <1>5 DEF MountFails, FactoryReset
  <2>2. QED
    BY <1>1, <1>3, <2>1, SameIsNoLonger
<1>6. CASE DeleteCharacter
  <2>1. PICK keep \in SUBSET (Unfinished \cup {k \in {<<loaded, anim.gif>>} : anim.gif # "none"}) :
          BootsOn(Wiped(keep), pet.species)
    BY <1>6 DEF DeleteCharacter
  <2>2. \A k \in keep : k[1] \in DOMAIN files /\ k[2] \in DOMAIN files[k[1]]
    BY <2>1 DEF Unfinished, StillThere, TransferInv, LoadedIsThere
  <2>3. QED
    BY <1>1, <1>3, <2>1, <2>2, WipedShrinks
<1>7. QED
  BY <1>4, <1>5, <1>6

LEMMA TransferStaysInRoom ==
  ASSUME TransferInv, TransferRoom, [TransferNext]_transferVars
  PROVE  TransferRoom'
<1>1. TransferInv'
  BY TransferStays
<1>2. ASSUME UNCHANGED <<files, troubles>>, UNCHANGED <<xfer, installer>>
      PROVE  TransferRoom'
  BY <1>2 DEF TransferRoom, Used
<1>3. CASE FileEnd \/ CharEnd
  <2>1. /\ UNCHANGED <<files, troubles>>
        /\ xfer'.written = xfer.written /\ xfer'.expected = xfer.expected
        /\ installer'.step # "chunks"
    <3>1. /\ xfer \in [active : BOOLEAN, pack : Packs \cup {NoPack}, file : (Packs \X Files) \cup {NoFile},
                       expected : Nat, written : Nat]
          /\ installer \in [step : InstallSteps, pack : Packs \cup {NoPack}, left : SUBSET Files,
                            chunks : Nat, told : BOOLEAN]
      BY DEF TransferInv, TransferTyped
    <3>2. CASE FileEnd
      <4>1. /\ UNCHANGED <<files, troubles>> /\ xfer' = [xfer EXCEPT !.file = NoFile]
            /\ \/ installer' = NoInstall
               \/ installer' = [installer EXCEPT !.step = "end"]
               \/ installer' = [installer EXCEPT !.step = "files"]
        BY <3>2 DEF FileEnd
      <4>2. QED
        BY <3>1, <4>1 DEF NoInstall
    <3>3. CASE CharEnd
      <4>1. /\ UNCHANGED <<files, troubles>> /\ xfer' = [xfer EXCEPT !.active = FALSE]
            /\ installer' = NoInstall
        BY <3>3 DEF CharEnd
      <4>2. QED
        BY <3>1, <4>1 DEF NoInstall
    <3>4. QED
      BY <1>3, <3>2, <3>3
  <2>2. QED
    BY <2>1 DEF TransferRoom, Used
<1>4. CASE LinkDrops
  <2>1. /\ UNCHANGED <<files, xfer>> /\ installer'.step = "idle"
        /\ troubles < MaxTrouble /\ troubles' = troubles + 1
    BY <1>4 DEF LinkDrops, NoInstall
  <2>2. troubles' \in 0..MaxTrouble
    BY <2>1, XferIs
  <2>3. QED
    BY <2>1, <2>2 DEF TransferRoom, Used
<1>5. ASSUME NEW p \in Packs, CharBegin(p)
      PROVE  TransferRoom'
  BY <1>1, <1>5, BeginRoom
<1>6. CASE FileStart \/ Chunk
  BY <1>1, <1>6, FileStartRoom, ChunkRoom
<1>7. CASE PowerCut \/ MountFails \/ DeleteCharacter \/ FactoryReset
  BY <1>1, <1>7, BootsRoom
<1>8. CASE \/ \E s \in PetStates : ShowState(s)
           \/ GifEnds \/ PauseEnds \/ NextPet
           \/ \E s \in {"gif", "ascii"} : SpeciesCommand(s)
           \/ UNCHANGED transferVars
  <2>1. UNCHANGED <<files, troubles>> /\ UNCHANGED <<xfer, installer>>
    BY <1>8 DEF ShowState, GifEnds, PauseEnds, NextPet, SpeciesCommand, transferVars
  <2>2. QED
    BY <1>2, <2>1
<1>9. QED
  BY <1>3, <1>4, <1>5, <1>6, <1>7, <1>8 DEF TransferNext, Serve

LEMMA TransferStartsInRoom == TransferInit => TransferRoom
<1> SUFFICES ASSUME TransferInit
             PROVE  TransferRoom
  OBVIOUS
<1>1. files = << >> /\ xfer = QuietXfer /\ installer = NoInstall /\ troubles = 0
  BY DEF TransferInit
<1>2. Used = 0
  <2> DEFINE g == [p \in DOMAIN files |-> SizeOf(files[p])]
  <2>1. DOMAIN g = {}
    BY <1>1, NothingLies
  <2>2. Used = SumFunction(g)
    BY DEF Used
  <2> HIDE DEF g
  <2>3. Summable(g)
    BY <2>1, FS_EmptySet DEF Summable
  <2>4. PICK T : SumOf(T, g) /\ SumFunction(g) = T[DOMAIN g]
    BY <2>3, SumIsOf
  <2>5. QED
    BY <2>1, <2>2, <2>4 DEF SumOf
<1>3. QED
  BY <1>1, <1>2, TransferAssumption DEF TransferRoom, QuietXfer, NoInstall

LEMMA TransferBounds == TransferInv /\ TransferRoom => TransferTypeOK
<1> SUFFICES ASSUME TransferInv, TransferRoom
             PROVE  TransferTypeOK
  OBVIOUS
<1>1. FilesTyped(files) /\ loaded \in Packs \cup {NoPack} /\ anim.gif \in Files \cup {"none"}
  BY DEF TransferInv, TransferTyped, LoadedIsThere, FilesTyped
<1>2. QED
  BY <1>1 DEF TransferInv, TransferTyped, TransferRoom, FilesTyped, TransferTypeOK

--------------------------------------------------------------------------------
(***************************************************************************)
(* The parts together: of whatever moves, each part makes its steps or     *)
(* stays as it is.                                                         *)
(***************************************************************************)

LEMMA PartsMoveAlone ==
  [ServicesNext]_serviceVars =>
    /\ [WifiNext]_wifiVars /\ [PortalNext]_portalVars /\ [PushNext]_pushVars
    /\ [TransferNext]_transferVars /\ [TextNext]_textVars /\ [ChimeNext]_chimeVars /\ UNCHANGED scope
BY DEF ServicesNext, OthersRest, serviceVars

(* Whichever part of the device moves, what the portal, the push, the      *)
(* transfer and the chime promise holds: none of their code shares state   *)
(* with another's (wifi_manager.cpp, ota_status.h, xfer.h,                 *)
(* completion_chime_logic.h).                                              *)
THEOREM ServicesKeep ==
  ServicesSpec => [](PortalJudges /\ PushIsTrue /\ PackIsWhole /\ ChimeIsTrue)
<1> DEFINE Inv == PortalInv /\ PushInv /\ TransferInv /\ ChimeInv
<1>1. ServicesInit => Inv
  BY PortalStarts, PushStarts, TransferStarts, ChimeInvInit DEF ServicesInit
<1>2. Inv /\ [ServicesNext]_serviceVars => Inv'
  BY PartsMoveAlone, PortalStays, PushInvInductive, TransferStays, ChimeInvStep
<1>3. Inv => PortalJudges /\ PushIsTrue /\ PackIsWhole /\ ChimeIsTrue
  BY PortalSays, PushSays, TransferSays, ChimeInvSays DEF ChimeIsTrue
<1>4. QED
  BY <1>1, <1>2, <1>3, PTL DEF ServicesSpec

(* In what moves as in what rests the rows tell the hint as the text part   *)
(* alone does (utf8WrapInto in utf8_text_logic.h).                         *)
THEOREM HintsAreTold == ServicesSpec => HintIsTold
<1> DEFINE Breaks ==
             word' # << >> /\ word' # word /\ word # << >> =>
               Cells(word) > size.width \/ Bytes(Row \o word) >= size.bytes
           Tells == scope = "text" => RowsTellTheHint
<1>1. TextInv /\ [ServicesNext]_serviceVars => TextInv'
  BY PartsMoveAlone, TextKeeps
<1>2. TextInv => Tells
  BY TextTells
<1>3. TextInv /\ [ServicesNext]_serviceVars => [Breaks]_textVars
  BY PartsMoveAlone, WordsStayWhole
<1>4. ServicesInit => TextInv
  BY TextBegins DEF ServicesInit
<1>5. ServicesSpec => [][Breaks]_textVars
  BY <1>1, <1>3, <1>4, PTL DEF ServicesSpec
<1>6. ServicesSpec => []Tells
  BY <1>1, <1>2, <1>4, PTL DEF ServicesSpec
<1>7. QED
  BY <1>5, <1>6 DEF HintIsTold, BreaksAreForced

(* In the run the credentials keep the word of their module: with one       *)
(* failed write or power cut at most in a commit (wifi_credentials.cpp).   *)
THEOREM WifiWordStays ==
  ASSUME MaxFaults \in {0, 1}
  PROVE  ServicesSpec => []WifiKeepsItsWord
<1>1. WifiInv /\ [ServicesNext]_serviceVars => WifiInv'
  BY PartsMoveAlone, WifiStays
<1>2. ServicesInit => WifiInv
  BY WifiStarts DEF ServicesInit
<1>3. QED
  BY <1>1, <1>2, WifiSays, PTL DEF ServicesSpec

(* The types of all parts: no channel, buffer, file system or counter holds *)
(* more than it has room for.                                              *)
THEOREM ServicesTypes ==
  ASSUME MaxFaults \in {0, 1}
  PROVE  ServicesSpec => []ServicesTypeOK
<1> DEFINE Inv == /\ WifiInv /\ PushInv /\ PushRoom /\ TransferInv /\ TransferRoom
                  /\ TextInv /\ ChimeInv /\ ChimeRoom
<1>1. ServicesInit => Inv
  BY WifiStarts, PushStarts, PushStartsInRoom, TransferStarts, TransferStartsInRoom, TextBegins,
     ChimeInvInit, ChimeStartsInRoom DEF ServicesInit
<1>2. Inv /\ [ServicesNext]_serviceVars => Inv'
  BY PartsMoveAlone, WifiStays, PushInvInductive, PushStaysInRoom, TransferStays, TransferStaysInRoom,
     TextKeeps, ChimeInvStep, ChimeStaysInRoom
<1>3. Inv => ServicesTypeOK
  BY WifiTyped, PushBounds, TransferBounds, TextTyped, ChimeBounds DEF ServicesTypeOK
<1>4. QED
  BY <1>1, <1>2, <1>3, PTL DEF ServicesSpec
================================================================================
