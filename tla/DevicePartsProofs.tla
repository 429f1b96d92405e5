--------------------------- MODULE DevicePartsProofs ---------------------------
(***************************************************************************)
(* What holds of the parts of the device a user touches and sees, for any  *)
(* values of their constants and wherever a behaviour moves.  A part is    *)
(* proved about by itself, then for the behaviours that move one of them.  *)
(***************************************************************************)
EXTENDS MCDeviceParts, BuddyDeviceProofs, TLAPS, FiniteSetTheorems, WellFoundedInduction

--------------------------------------------------------------------------------
(***************************************************************************)
(* The prompt loop: what a press answers, whatever edges of the buttons    *)
(* can happen.                                                             *)
(***************************************************************************)
(* One press of A.                                                         *)

ByA(event) == {i \in DOMAIN Replies(event) : ButtonOf(Replies(event)[i].answer) = "A"}

(* An iteration holds at most one answer of A: the long press and the      *)
(* release never answer together.                                          *)
LEMMA OneOfA ==
  ASSUME DeviceTypeOK, NEW event \in Events
  PROVE  /\ Cardinality(ByA(event)) \in {0, 1}
         /\ Always(event) = <<>> /\ Released(event) = <<>> => Cardinality(ByA(event)) = 0
<1> DEFINE place == IF Always(event) # <<>> THEN 1 ELSE Len(Always(event)) + Len(Reject(event)) + 1
<1>1. ~(Always(event) # <<>> /\ Released(event) # <<>>)
  BY RepliesNeedPrompt DEF LongA, ReleaseA, Position
<1>2. ASSUME NEW i \in ByA(event)
      PROVE  i = place /\ (Always(event) # <<>> \/ Released(event) # <<>>)
  <2>1. i \in DOMAIN Replies(event) /\ ButtonOf(Replies(event)[i].answer) = "A"
    BY DEF ByA
  <2>2. Replies(event)[i].answer \notin {"reject", "deny"}
    BY <2>1 DEF ButtonOf
  <2>3. \/ Always(event) # <<>> /\ i = 1
        \/ Released(event) # <<>> /\ i = Len(Always(event)) + Len(Reject(event)) + 1
    <3>1. \/ Always(event) # <<>> /\ i = 1
          \/ Replies(event)[i].answer = "reject"
          \/ Released(event) # <<>> /\ i = Len(Always(event)) + Len(Reject(event)) + 1
          \/ Replies(event)[i].answer = "deny"
      BY <2>1, RepliesAre
    <3>2. QED BY <2>2, <3>1
  <2>4. QED BY <1>1, <2>3
<1>3. ByA(event) = {} \/ ByA(event) = {place}
  <2> HIDE DEF place
  <2> QED BY <1>2
<1>4. Cardinality({}) = 0 /\ Cardinality({place}) = 1
  BY FS_EmptySet, FS_Singleton
<1> HIDE DEF place
<1>5. Always(event) = <<>> /\ Released(event) = <<>> => ByA(event) = {}
  BY <1>2, <1>3
<1>6. QED
  BY <1>3, <1>4, <1>5

(* What the flags of A say of its press: a press that is held has had its  *)
(* long press or is swallowed; one that is neither has answered nothing;   *)
(* one that woke the screen is swallowed until it ends.                    *)
PressOfA ==
  /\ given \in {0, 1}
  /\ btnA = "up" => ~longA /\ ~swallowA
  /\ btnA = "held" => longA \/ swallowA
  /\ btnA # "up" /\ ~longA /\ ~swallowA => given = 0
  /\ woke => given = 0 /\ (btnA # "up" => swallowA)

(* An answer is remembered only while something is asked, and as long as   *)
(* none is remembered none was given to what is shown.                     *)
AnswerOfShowing ==
  /\ sent => devPrompt # None \/ devQuestion # None
  /\ ~sent => answered = {}

PressesInv == DeviceTypeOK /\ PressOfA /\ AnswerOfShowing

LEMMA PressesStart == PressesInit => PressesInv
<1> SUFFICES ASSUME PressesInit PROVE PressesInv
  OBVIOUS
<1>2. DeviceTypeOK
  BY DeviceStart DEF PressesInit
<1>3. PressOfA /\ AnswerOfShowing
  BY DEF PressesInit, DeviceInit, PressOfA, AnswerOfShowing
<1>4. QED
  BY <1>2, <1>3 DEF PressesInv

(* An iteration with an edge of a button, and what the press of A keeps.   *)
LEMMA PressKept ==
  ASSUME DeviceTypeOK, PressOfA, NEW event \in ButtonEvents, Presses(event)
  PROVE  PressOfA'
<1> DEFINE a == Position(btnA, "A", event)  counted == IF event = <<"A", "down">> THEN 0 ELSE given
<1>1. event \in Events /\ (event[1] = "A" => event[2] \in ButtonPositions)
  BY DeviceAssumption DEF Events, NoEvent, Power
<1>2. /\ btnA' = a /\ Possible(event)
      /\ longA' <=> event # <<"A", "up">> /\ (longA \/ LongA(a))
      /\ swallowA' <=> event # <<"A", "up">> /\ SwallowA(a)
  BY DEF Presses, DeviceLoop
<1>3. given' = counted + Cardinality(ByA(event))
  BY DEF Presses, Given, ByA
<1>4. /\ Cardinality(ByA(event)) \in {0, 1}
      /\ Always(event) = <<>> /\ Released(event) = <<>> => Cardinality(ByA(event)) = 0
  BY <1>1, OneOfA
<1>5. /\ Always(event) # <<>> => LongA(a)
      /\ Released(event) # <<>> => event = <<"A", "up">> /\ ~longA /\ ~swallowA
  BY <1>1, RepliesNeedPrompt DEF ReleaseA
<1>6. \/ event # <<"A", "down">> /\ event # <<"A", "held">> /\ event # <<"A", "up">> /\ a = btnA
      \/ event = <<"A", "down">> /\ a = "down" /\ btnA = "up"
      \/ event = <<"A", "held">> /\ a = "held" /\ btnA = "down"
      \/ event = <<"A", "up">> /\ a = "up" /\ btnA # "up"
  <2>1. CASE event[1] = "A"
    <3>1. event = <<"A", event[2]>>
      BY <1>1, <2>1 DEF Events, NoEvent, Power
    <3>2. CASE event[2] = "down"
      BY <1>2, <3>1, <3>2 DEF Possible, Position
    <3>3. CASE event[2] = "held"
      BY <1>2, <3>1, <3>3 DEF Possible, Position
    <3>4. CASE event[2] = "up"
      BY <1>2, <3>1, <3>4 DEF Possible, Position
    <3>5. QED
      BY <1>1, <2>1, <3>2, <3>3, <3>4 DEF ButtonPositions
  <2>2. CASE event[1] # "A"
    BY <2>2 DEF Position
  <2>3. QED BY <2>1, <2>2
<1>7. /\ given \in {0, 1} /\ counted \in {0, 1}
      /\ {longA, swallowA} \subseteq BOOLEAN /\ btnA \in ButtonPositions
  BY DEF PressOfA, DeviceTypeOK
<1>8. woke' => IF event = <<"A", "down">> THEN Dark ELSE woke
  BY <1>1 DEF Presses, Events, NoEvent, Power
<1> HIDE DEF a
<1>9. Always(event) # <<>> \/ Released(event) # <<>> => counted = 0
  BY <1>5, <1>6 DEF PressOfA, LongA, SwallowA
<1>10. given' \in {0, 1}
  <2> HIDE DEF counted
  <2> QED BY <1>3, <1>4, <1>7, <1>9
<1>11. btnA' = "up" => ~longA' /\ ~swallowA'
  BY <1>2, <1>6 DEF PressOfA, LongA, SwallowA
<1>12. btnA' = "held" => longA' \/ swallowA'
  <2>1. a = "held" => longA \/ LongA(a) \/ SwallowA(a)
    BY DEF LongA
  <2>2. a = "held" => event # <<"A", "up">>
    BY <1>6
  <2>3. QED BY <1>2, <2>1, <2>2
<1>13. btnA' # "up" /\ ~longA' /\ ~swallowA' => given' = 0
  <2> SUFFICES ASSUME btnA' # "up", ~longA', ~swallowA' PROVE given' = 0
    OBVIOUS
  <2>1. event # <<"A", "up">> /\ ~longA /\ ~LongA(a) /\ ~SwallowA(a) /\ ~swallowA
    BY <1>2, <1>6 DEF SwallowA
  <2>2. Cardinality(ByA(event)) = 0
    BY <1>4, <1>5, <2>1
  <2>3. counted = 0
    BY <1>2, <1>6, <2>1 DEF PressOfA, LongA
  <2> HIDE DEF counted
  <2> QED BY <1>3, <2>2, <2>3
<1>14. woke' => given' = 0 /\ (btnA' # "up" => swallowA')
  <2> SUFFICES ASSUME woke' PROVE given' = 0 /\ (btnA' # "up" => swallowA')
    OBVIOUS
  <2>1. counted = 0
    BY <1>8 DEF PressOfA
  <2>2. btnA' # "up" => SwallowA(a) /\ event # <<"A", "up">>
    BY <1>2, <1>6, <1>8 DEF PressOfA, SwallowA
  <2>3. ~LongA(a) /\ ~(event = <<"A", "up">> /\ ~longA /\ ~swallowA)
    BY <1>2, <1>6, <1>8, <2>2 DEF PressOfA, LongA
  <2>4. Cardinality(ByA(event)) = 0
    BY <1>4, <1>5, <2>3
  <2> HIDE DEF counted
  <2>5. btnA' # "up" => swallowA'
    BY <1>2, <2>2
  <2> HIDE DEF ByA
  <2>6. given' = 0
    BY <1>3, <2>1, <2>4
  <2> QED BY <2>5, <2>6
<1>15. QED
  BY <1>10, <1>11, <1>12, <1>13, <1>14 DEF PressOfA

LEMMA ShowingKept ==
  ASSUME DeviceTypeOK, AnswerOfShowing, NEW event \in ButtonEvents, Presses(event)
  PROVE  AnswerOfShowing'
<1>1. event \in Events
  BY DeviceAssumption
<1>2. /\ devPrompt' = NewPrompt /\ devQuestion' = NewQuestion
      /\ sent' = (Answered \/ Replies(event) # <<>>)
      /\ answered' = (IF Changed THEN {} ELSE answered)
                      \cup {Replies(event)[i].ask : i \in DOMAIN Replies(event)}
  BY DEF Presses, DeviceLoop
<1>3. Replies(event) # <<>> => InPrompt
  BY <1>1, PartsTyped, RepliesNeedPrompt DEF ReleaseA
<1>4. sent' => devPrompt' # None \/ devQuestion' # None
  BY <1>2, <1>3 DEF Answered, InPrompt, Prompted
<1>5. ~sent' => answered' = {}
  <2> SUFFICES ASSUME ~sent' PROVE answered' = {}
    OBVIOUS
  <2>1. ~Answered /\ Replies(event) = <<>>
    BY <1>2
  <2>2. Changed \/ answered = {}
    BY <2>1 DEF Answered, AnswerOfShowing, Changed, Prompted
  <2>3. DOMAIN Replies(event) = {}
    BY <2>1
  <2>4. QED BY <1>2, <2>2, <2>3
<1>6. QED
  BY <1>4, <1>5 DEF AnswerOfShowing

--------------------------------------------------------------------------------
(* The steps that are not an iteration with an edge.                       *)
LEMMA OthersKeep ==
  ASSUME PressesInv,
         \/ /\ UNCHANGED historyVars
            /\ \/ ScreenTimeout
               \/ \E payload \in Payloads : Receive(payload)
               \/ TakeAnswer \/ DeviceLinkUp \/ DeviceLinkDown
         \/ UNCHANGED pressVars
  PROVE  PressesInv'
<1> USE DEF pressVars, deviceVars, historyVars, screenVars, buttonVars
<1>1. /\ UNCHANGED <<devPrompt, devQuestion, qSelected, sent, buttonVars, historyVars>>
      /\ screenOff' \in BOOLEAN /\ devLink' \in BOOLEAN
  BY DEF ScreenTimeout, Receive, TakeAnswer, DeviceLinkUp, DeviceLinkDown, PressesInv, DeviceTypeOK
<1>2. rx' = rx \/ \E payload \in Payloads : rx' = Append(rx, payload)
  BY DEF ScreenTimeout, Receive, TakeAnswer, DeviceLinkUp, DeviceLinkDown
<1>3. upq' = upq \/ (upq # <<>> /\ upq' = Tail(upq))
  BY DEF ScreenTimeout, Receive, TakeAnswer, DeviceLinkUp, DeviceLinkDown
<1>4. DeviceTypeOK'
  BY <1>1, <1>2, <1>3, RestTyped DEF PressesInv
<1>5. PressOfA' /\ AnswerOfShowing'
  BY <1>1 DEF PressesInv, PressOfA, AnswerOfShowing
<1>6. QED
  BY <1>4, <1>5 DEF PressesInv

LEMMA PressesKept ==
  PressesInv /\ [PressesNext]_pressVars => PressesInv'
<1> SUFFICES ASSUME PressesInv, [PressesNext]_pressVars PROVE PressesInv'
  OBVIOUS
<1>1. CASE \E event \in ButtonEvents : Presses(event)
  <2>1. PICK event \in ButtonEvents : Presses(event)
    BY <1>1
  <2>2. DeviceTypeOK'
    BY <2>1, LoopTyped, DeviceAssumption DEF PressesInv, Presses
  <2>3. PressOfA' /\ AnswerOfShowing'
    BY <2>1, PressKept, ShowingKept DEF PressesInv
  <2>4. QED
    BY <2>2, <2>3 DEF PressesInv
<1>2. CASE ~ \E event \in ButtonEvents : Presses(event)
  BY <1>2, OthersKeep DEF PressesNext
<1>3. QED
  BY <1>1, <1>2

(* The variables of the prompt loop have values of their kinds.            *)
THEOREM PressesTyped == PressesSpec => []DeviceTypeOK
<1>1. PressesInv => DeviceTypeOK
  BY DEF PressesInv
<1>2. QED
  BY <1>1, PressesStart, PressesKept, PTL DEF PressesSpec, pressVars

(* One press of A gives at most one answer, and none if it woke the        *)
(* screen, whatever arrives between its edges (main.cpp:2598-2624).        *)
THEOREM OnePressOneAnswer == PressesSpec => []PressOfAAnswersOnce
<1>1. PressesInv => PressOfAAnswersOnce
  BY DEF PressesInv, PressOfA, PressOfAAnswersOnce, OneAnswerPerPressOfA, WakingPressOfASwallowed
<1>2. QED
  BY <1>1, PressesStart, PressesKept, PTL DEF PressesSpec, pressVars

(* A release of A and a press of B act on what is shown (main.cpp:2682,    *)
(* 2733, 1874-1884).                                                       *)
THEOREM ShortPressesSeen == PressesSpec => ShortPressAnswersShown
<1> DEFINE Act == Prompted => \A event \in ButtonEvents : \A i \in DOMAIN Replies(event) : Presses(event) =>
                    (Replies(event)[i].answer # "always" => Replies(event)[i].ask = OnScreen)
<1>1. ASSUME PressesInv PROVE Act
  <2> SUFFICES ASSUME NEW event \in ButtonEvents, NEW i \in DOMAIN Replies(event),
                      Replies(event)[i].answer # "always"
               PROVE  Replies(event)[i].ask = OnScreen
    OBVIOUS
  <2>1. event \in Events /\ DeviceTypeOK
    BY <1>1, DeviceAssumption DEF PressesInv
  <2>2. QED
    BY <2>1, RepliesAre DEF OnScreen
<1>2. PressesInv /\ [PressesNext]_pressVars => [Act]_pressVars
  BY <1>1
<1>3. [Act]_pressVars => [Prompted => \A event \in ButtonEvents : \A i \in DOMAIN Replies(event) : Presses(event) =>
                    (Replies(event)[i].answer # "always" => Replies(event)[i].ask = OnScreen)]_pressVars
  BY DEF pressVars
<1> HIDE DEF Act
<1>4. QED
  BY <1>2, <1>3, PressesStart, PressesKept, PTL DEF PressesSpec, ShortPressAnswersShown, pressVars

(* Two answers of one iteration differ.                                    *)
LEMMA RepliesDiffer ==
  ASSUME DeviceTypeOK, "reject" \notin Offered, NEW event \in Events,
         NEW i \in DOMAIN Replies(event), NEW j \in DOMAIN Replies(event),
         Replies(event)[i] = Replies(event)[j]
  PROVE  i = j
<1>1. Options[Cursor] # "reject"
  BY NewTyped, BaseAssumption DEF Offered
<1>2. NewPrompt # None /\ NewQuestion # None => NewPrompt # NewQuestion
  BY NewTyped, BaseAssumption
<1>3. ~(Always(event) # <<>> /\ Released(event) # <<>>)
  BY RepliesNeedPrompt DEF LongA, ReleaseA, Position
<1> DEFINE first == 1
           second == Len(Always(event)) + 1
           third == Len(Always(event)) + Len(Reject(event)) + 1
           fourth == Len(Always(event)) + Len(Reject(event)) + Len(Released(event)) + 1
           Is(k) == \/ k = first /\ NewPrompt # None /\ Always(event) # <<>>
                       /\ Replies(event)[k] = [ask |-> NewPrompt, answer |-> "always"]
                    \/ k = second /\ Replies(event)[k] = [ask |-> NewQuestion, answer |-> "reject"]
                    \/ k = third /\ NewQuestion # None /\ Released(event) # <<>>
                       /\ Replies(event)[k] = [ask |-> NewQuestion, answer |-> Options[Cursor]]
                    \/ k = third /\ NewQuestion = None
                       /\ Replies(event)[k] = [ask |-> NewPrompt, answer |-> "once"]
                    \/ k = fourth /\ NewQuestion = None
                       /\ Replies(event)[k] = [ask |-> NewPrompt, answer |-> "deny"]
<1>4. \A k \in DOMAIN Replies(event) : Is(k)
  BY RepliesAre
<1>5. Is(i) /\ Is(j)
  BY <1>4
<1> HIDE DEF first, second, third, fourth
<1>6. QED
  BY <1>1, <1>2, <1>3, <1>5

(* While the prompt and the question stay, an ask gets one answer          *)
(* (main.cpp:2485-2489, 2623, 2681).  Holding B rejects a question; were   *)
(* an option to read the same, B held and A released in the iteration that *)
(* brings the question would send it twice.                                *)
THEOREM OneAnswerWhileShown ==
  ASSUME "reject" \notin Offered
  PROVE  PressesSpec => OneAnswerPerShowing
<1> DEFINE Act == Prompted => \A event \in ButtonEvents : \A i \in DOMAIN Replies(event) : Presses(event) =>
                    /\ Changed \/ Replies(event)[i].ask \notin answered
                    /\ \A j \in DOMAIN Replies(event) : Replies(event)[i] = Replies(event)[j] => i = j
<1>1. ASSUME PressesInv PROVE Act
  <2> SUFFICES ASSUME NEW event \in ButtonEvents, NEW i \in DOMAIN Replies(event), Prompted
               PROVE  /\ Changed \/ Replies(event)[i].ask \notin answered
                      /\ \A j \in DOMAIN Replies(event) : Replies(event)[i] = Replies(event)[j] => i = j
    OBVIOUS
  <2>1. event \in Events /\ DeviceTypeOK
    BY <1>1, DeviceAssumption DEF PressesInv
  <2>2. \A j \in DOMAIN Replies(event) : Replies(event)[i] = Replies(event)[j] => i = j
    BY <2>1, RepliesDiffer
  <2>3. InPrompt
    BY <2>1, RepliesAre, RepliesNeedPrompt DEF ReleaseA
  <2>4. Changed \/ ~sent
    BY <2>3 DEF InPrompt, Answered
  <2>5. QED
    BY <1>1, <2>2, <2>4 DEF PressesInv, AnswerOfShowing
<1>2. PressesInv /\ [PressesNext]_pressVars => [Act]_pressVars
  BY <1>1
<1>3. [Act]_pressVars => [Prompted => \A event \in ButtonEvents : \A i \in DOMAIN Replies(event) : Presses(event) =>
                    /\ Changed \/ Replies(event)[i].ask \notin answered
                    /\ \A j \in DOMAIN Replies(event) : Replies(event)[i] = Replies(event)[j] => i = j
                  ]_pressVars
  BY DEF pressVars
<1> HIDE DEF Act
<1>4. QED
  BY <1>2, <1>3, PressesStart, PressesKept, PTL DEF PressesSpec, OneAnswerPerShowing, pressVars

--------------------------------------------------------------------------------
(* What is painted.                                                        *)

InputsTyped ==
  /\ page \in BOOLEAN /\ prompt \in BOOLEAN /\ ota \in BOOLEAN /\ busy \in BOOLEAN
  /\ idleClock \in BOOLEAN /\ dark \in BOOLEAN
  /\ panel \in {"none", "menu", "wifi"} /\ special \in {"none", "passkey", "transfer"}

ScreensTyped ==
  /\ InputsTyped /\ compact \in BOOLEAN /\ drawn \in BOOLEAN
  /\ pose \in [clock : Poses, run : Poses]
  /\ cache \in [clock : {NoCache, "portrait"} \cup Landscapes, face : {NoCache, "portrait"} \cup Landscapes]
  /\ sprite \subseteq Layers /\ lcd \subseteq Layers /\ wanted \subseteq Layers
  /\ before \in [clock : BOOLEAN, landClock : BOOLEAN, face : BOOLEAN, landRun : BOOLEAN, prompt : BOOLEAN]

(* The flags of the last frame are those of one frame, and of this one if  *)
(* nothing has changed since.                                              *)
FlagsAgree ==
  /\ before.clock => ~before.face /\ ~before.landRun /\ ~before.prompt
  /\ before.face => ~before.prompt
  /\ before.landClock => before.clock
  /\ drawn =>
       /\ before.clock = Clocking /\ before.face = RuntimeFace /\ before.prompt = prompt
       /\ compact = (ota /\ ~prompt)

(* A face that is believed to be in the sprite is there.                   *)
FaceInSprite ==
  /\ before.face /\ ~before.landRun /\ cache.face = "portrait" /\ RuntimeFace => "face" \in sprite
  /\ before.clock /\ ~before.landClock /\ cache.clock = "portrait" /\ Clocking => "clock" \in sprite

(* One that is believed to be on the LCD is there, and nothing else is.    *)
FaceOnLcd ==
  /\ before.face /\ before.landRun /\ cache.face \in Landscapes =>
       "face" \in lcd /\ lcd \subseteq {"face", "overlay"}
  /\ before.landClock /\ cache.clock \in Landscapes =>
       "clock" \in lcd /\ lcd \subseteq {"clock", "overlay"}

(* What the sprite still holds of what was left.                           *)
SpriteLeftovers ==
  /\ "prompt" \in sprite => before.prompt \/ before.landRun
  /\ "panel" \in sprite => ~prompt /\ (panel # "none" \/ ota \/ compact)
  /\ "page" \in sprite => ~prompt /\ (page \/ ota \/ compact)

ScreensInv ==
  /\ ScreensTyped /\ FlagsAgree
  /\ FaceInSprite /\ FaceOnLcd /\ SpriteLeftovers
  /\ PromptIsSeen

(* A step before a frame.                                                  *)
LEMMA ChangesKeep ==
  ASSUME ScreensInv, ScreensNext, ~Frame
  PROVE  ScreensInv'
<1>1. drawn = TRUE /\ drawn' = FALSE /\ wanted' = {} /\ UNCHANGED frameVars
  BY DEF ScreensNext, Change, PromptArrives, PromptEnds, OpenPanel, ClosePanel, TurnPage, ReceiveOpens,
         AutomaticOta, OtaEnds, SpecialChanges, SessionsChange, DarkChanges, ScreensInv, ScreensTyped
<1> USE <1>1 DEF ScreensInv, ScreensTyped, frameVars
<1>2. InputsTyped' /\ sprite' \subseteq Layers
  <2>1. CASE PromptArrives
    BY <2>1 DEF PromptArrives, Invalidate, InputsTyped
  <2>2. CASE PromptEnds
    BY <2>2 DEF PromptEnds, Invalidate, InputsTyped
  <2>3. CASE OpenPanel
    BY <2>3 DEF OpenPanel, Invalidate, InputsTyped
  <2>4. CASE ClosePanel
    BY <2>4 DEF ClosePanel, Invalidate, InputsTyped
  <2>5. CASE TurnPage
    BY <2>5 DEF TurnPage, Invalidate, InputsTyped
  <2>6. CASE ReceiveOpens
    BY <2>6 DEF ReceiveOpens, Invalidate, InputsTyped
  <2>7. CASE AutomaticOta
    BY <2>7 DEF AutomaticOta, Invalidate, InputsTyped
  <2>8. CASE OtaEnds
    BY <2>8 DEF OtaEnds, Invalidate, InputsTyped
  <2>9. CASE SpecialChanges
    BY <2>9 DEF SpecialChanges, Invalidate, InputsTyped
  <2>10. CASE SessionsChange
    BY <2>10 DEF SessionsChange, Invalidate, InputsTyped
  <2>11. CASE DarkChanges
    BY <2>11 DEF DarkChanges, Invalidate, InputsTyped
  <2>12. QED
    BY <2>1, <2>2, <2>3, <2>4, <2>5, <2>6, <2>7, <2>8, <2>9, <2>10, <2>11 DEF ScreensNext
<1>3. FlagsAgree'
  BY DEF FlagsAgree
<1>4. FaceInSprite'
  BY DEF FaceInSprite, FlagsAgree, RuntimeFace, Clocking, FaceSelected, ScreensNext, PromptArrives, PromptEnds,
         OpenPanel, ClosePanel, TurnPage, ReceiveOpens, Invalidate, ButtonsFree,
         AutomaticOta, OtaEnds, SpecialChanges, SessionsChange, DarkChanges
<1>5. FaceOnLcd'
  BY DEF FaceOnLcd
<1>6. SpriteLeftovers'
  <2>1. CASE PromptArrives
    BY <2>1 DEF PromptArrives, SpriteLeftovers, FlagsAgree, Invalidate, ButtonsFree
  <2>2. CASE PromptEnds
    BY <2>2 DEF PromptEnds, SpriteLeftovers, FlagsAgree, Invalidate, ButtonsFree
  <2>3. CASE OpenPanel
    BY <2>3 DEF OpenPanel, SpriteLeftovers, FlagsAgree, Invalidate, ButtonsFree
  <2>4. CASE ClosePanel
    BY <2>4 DEF ClosePanel, SpriteLeftovers, FlagsAgree, Invalidate, ButtonsFree
  <2>5. CASE TurnPage
    BY <2>5 DEF TurnPage, SpriteLeftovers, FlagsAgree, Invalidate, ButtonsFree
  <2>6. CASE ReceiveOpens
    BY <2>6 DEF ReceiveOpens, SpriteLeftovers, FlagsAgree, Invalidate, ButtonsFree
  <2>7. CASE AutomaticOta
    BY <2>7 DEF AutomaticOta, SpriteLeftovers, FlagsAgree, Invalidate, ButtonsFree
  <2>8. CASE OtaEnds
    BY <2>8 DEF OtaEnds, SpriteLeftovers, FlagsAgree, Invalidate, ButtonsFree
  <2>9. CASE SpecialChanges
    BY <2>9 DEF SpecialChanges, SpriteLeftovers, FlagsAgree, Invalidate, ButtonsFree
  <2>10. CASE SessionsChange
    BY <2>10 DEF SessionsChange, SpriteLeftovers, FlagsAgree, Invalidate, ButtonsFree
  <2>11. CASE DarkChanges
    BY <2>11 DEF DarkChanges, SpriteLeftovers, FlagsAgree, Invalidate, ButtonsFree
  <2>12. QED
    BY <2>1, <2>2, <2>3, <2>4, <2>5, <2>6, <2>7, <2>8, <2>9, <2>10, <2>11 DEF ScreensNext
<1>7. PromptIsSeen'
  BY DEF PromptIsSeen, PromptPainted, FrameComplete, PromptLeaves, PanelLeaves
<1>8. ScreensTyped'
  BY <1>1, <1>2
<1>9. QED
  BY <1>8, <1>3, <1>4, <1>5, <1>6, <1>7

LEMMA PosesStay ==
  ASSUME NEW p \in Poses, NEW active, NEW c \in PoseAfter(p, active)
  PROVE  c \in Poses
BY DEF PoseAfter

(* What a frame starts from: flags of now, and a sprite that was cleared   *)
(* or kept.                                                                *)
LEMMA FrameFlags ==
  ASSUME NEW c, NEW r, prompt \in BOOLEAN
  PROVE  /\ Flags(c, r) \in [clock : BOOLEAN, landClock : BOOLEAN, face : BOOLEAN, landRun : BOOLEAN, prompt : BOOLEAN]
         /\ Flags(c, r).clock <=> Clocking
         /\ Flags(c, r).landClock <=> Clocking /\ c \in Landscapes
         /\ Flags(c, r).face <=> RuntimeFace
         /\ Flags(c, r).landRun <=> RuntimeOrienting /\ r \in Landscapes
         /\ Flags(c, r).prompt <=> prompt
BY DEF Flags, Clocking, RuntimeFace, RuntimeOrienting

LEMMA FrameKeeps ==
  ASSUME ScreensInv, Frame
  PROVE  ScreensInv'
<1>1. PICK c \in PoseAfter(pose.clock, Clocking), r \in PoseAfter(pose.run, RuntimeOrienting) :
        /\ pose' = [clock |-> c, run |-> r]
        /\ before' = Flags(c, r)
        /\ \E screen \in {FrameScreen(before', c, r)}, s \in {FrameSprite(before', c, r)},
              k \in {CacheReset(before, before')}, o \in {OverlayAfterReset(before, before')} :
             Paint(screen, s, k, o, c, r)
        /\ compact' = (ota /\ ~prompt)
        /\ drawn' = TRUE
        /\ UNCHANGED inputVars
  BY DEF Frame
<1>2. PICK screen, s, k, o :
        /\ screen = FrameScreen(before', c, r) /\ s = FrameSprite(before', c, r)
        /\ k = CacheReset(before, before') /\ Paint(screen, s, k, o, c, r)
  BY <1>1
<1>3. c \in Poses /\ r \in Poses /\ pose' \in [clock : Poses, run : Poses]
  BY <1>1, PosesStay DEF ScreensInv, ScreensTyped
<1>4. /\ InputsTyped' /\ InputsTyped
      /\ page' = page /\ panel' = panel /\ prompt' = prompt /\ special' = special /\ ota' = ota
      /\ dark' = dark /\ busy' = busy /\ idleClock' = idleClock
  BY <1>1 DEF inputVars, InputsTyped, ScreensInv, ScreensTyped
<1>5. /\ before' \in [clock : BOOLEAN, landClock : BOOLEAN, face : BOOLEAN, landRun : BOOLEAN, prompt : BOOLEAN]
      /\ before'.clock <=> Clocking
      /\ before'.landClock <=> Clocking /\ c \in Landscapes
      /\ before'.face <=> RuntimeFace
      /\ before'.landRun <=> RuntimeOrienting /\ r \in Landscapes
      /\ before'.prompt <=> prompt
      /\ (Clocking' <=> Clocking) /\ (RuntimeFace' <=> RuntimeFace)
  BY <1>1, <1>4, FrameFlags DEF InputsTyped, Clocking, RuntimeFace, FaceSelected
<1>6. FlagsAgree'
  BY <1>1, <1>4, <1>5 DEF FlagsAgree, Clocking, RuntimeFace, RuntimeOrienting, FaceSelected, InputsTyped
<1>7. /\ k \in [clock : {NoCache, "portrait"} \cup Landscapes, face : {NoCache, "portrait"} \cup Landscapes]
      /\ k.clock # NoCache => k.clock = cache.clock /\ ~StandbyReset(before, before')
      /\ k.face # NoCache => k.face = cache.face /\ ~RuntimeReset(before, before')
  BY <1>2 DEF CacheReset, ScreensInv, ScreensTyped
<1>8. /\ s \subseteq sprite \cup {"pet"}
      /\ SpriteCleared(before, before') => s \subseteq {"pet"}
      /\ ~SpriteCleared(before, before') => sprite \subseteq s
      /\ s \subseteq Layers
  BY <1>2 DEF FrameSprite, ScreensInv, ScreensTyped, Layers
<1>9. screen = "home" => "pet" \in s
  BY <1>2, <1>4, <1>5 DEF FrameScreen, FrameSprite, PetTicks, RuntimeOrienting
<1>10. CompactLayer \subseteq {"overlay"} /\ (compact' <=> ota /\ ~prompt) /\ (compact' <=> "overlay" \in CompactLayer)
  BY <1>1 DEF CompactLayer

<1>11. /\ screen \in {"landscapePrompt", "prompt"} => prompt
       /\ screen \notin {"landscapePrompt", "prompt"} => ~prompt
       /\ screen = "landscapeFace" => before'.landRun /\ before'.face /\ r \in Landscapes
       /\ screen = "landscapeClock" => before'.landClock /\ before'.clock /\ c \in Landscapes
       /\ screen = "clock" => before'.clock /\ ~before'.landClock
       /\ screen = "face" => before'.face /\ ~before'.landRun
       /\ screen = "home" => ~before'.face /\ ~before'.clock /\ ~before'.landRun
       /\ screen \in {"landscapePrompt", "prompt", "landscapeFace", "landscapeClock", "clock", "face", "home", "nothing"}
  BY <1>2, <1>5 DEF FrameScreen, RuntimeOrienting
<1>12. cache' \in [clock : {NoCache, "portrait"} \cup Landscapes, face : {NoCache, "portrait"} \cup Landscapes]
  BY <1>2, <1>7, <1>11 DEF Paint
<1>13. /\ cache'.clock = CASE screen = "clock" -> "portrait" [] screen = "landscapeClock" -> c [] OTHER -> k.clock
       /\ cache'.face = CASE screen = "face" -> "portrait" [] screen = "landscapeFace" -> r [] OTHER -> k.face
  BY <1>2 DEF Paint
<1>14. sprite' \subseteq Layers /\ lcd' \subseteq Layers /\ wanted' \subseteq Layers
  <2> USE DEF ScreensInv, ScreensTyped, Layers
  <2>1. sprite' \subseteq Layers
    BY <1>2, <1>8, <1>10 DEF Paint, FaceOn, SpriteScreen
  <2>2. lcd' \subseteq Layers
    BY <1>2, <2>1, <1>10 DEF Paint, FaceOn, LandscapePrompt
  <2>3. wanted' \subseteq Layers
    BY <1>2, <1>10, <1>11 DEF Paint, HomeWanted
  <2>4. QED
    BY <2>1, <2>2, <2>3
<1>15. ScreensTyped'
  BY <1>1, <1>3, <1>4, <1>5, <1>12, <1>14, <1>10 DEF ScreensTyped
<1>16. FaceInSprite'
  <2>1. ASSUME before'.face, ~before'.landRun, cache'.face = "portrait"
        PROVE  "face" \in sprite'
    <3>1. CASE screen = "face" /\ k.face # "portrait"
      BY <1>2, <3>1 DEF Paint, FaceOn
    <3>2. CASE k.face = "portrait"
      <4>1. cache.face = "portrait" /\ before.face /\ ~before.landRun /\ ~OverlayLost
        BY <1>7, <2>1, <3>2 DEF RuntimeReset, NoCache
      <4>2. "face" \in sprite
        BY <1>5, <2>1, <4>1 DEF ScreensInv, FaceInSprite
      <4>3. ~SpriteCleared(before, before')
        BY <1>5, <1>6, <2>1, <4>1 DEF SpriteCleared, ClockSwitch, PromptExited, FlagsAgree, ScreensInv, ScreensTyped
      <4>4. "face" \in s
        BY <1>8, <4>2, <4>3
      <4>5. screen \in {"face", "nothing"}
        BY <1>5, <1>6, <1>11, <2>1 DEF FlagsAgree, RuntimeFace, FaceSelected
      <4>6. QED
        BY <1>2, <4>4, <4>5, <3>2 DEF Paint, FaceOn
    <3>3. QED
      BY <1>11, <1>13, <2>1, <3>1, <3>2
  <2>2. ASSUME before'.clock, ~before'.landClock, cache'.clock = "portrait"
        PROVE  "clock" \in sprite'
    <3>1. CASE screen = "clock" /\ k.clock # "portrait"
      BY <1>2, <3>1 DEF Paint, FaceOn
    <3>2. CASE k.clock = "portrait"
      <4>1. cache.clock = "portrait" /\ before.clock /\ ~before.landClock /\ ~OverlayLost
        BY <1>7, <2>2, <3>2 DEF StandbyReset, ClockSwitch, NoCache
      <4>2. "clock" \in sprite
        BY <1>5, <2>2, <4>1 DEF ScreensInv, FaceInSprite
      <4>3. ~SpriteCleared(before, before')
        BY <1>5, <1>6, <2>2, <4>1 DEF SpriteCleared, ClockSwitch, PromptExited, FlagsAgree, ScreensInv, ScreensTyped
      <4>4. "clock" \in s
        BY <1>8, <4>2, <4>3
      <4>5. screen \in {"clock", "nothing"}
        BY <1>5, <1>6, <1>11, <2>2 DEF FlagsAgree, Clocking, FaceSelected
      <4>6. QED
        BY <1>2, <4>4, <4>5, <3>2 DEF Paint, FaceOn
    <3>3. QED
      BY <1>11, <1>13, <2>2, <3>1, <3>2, ScreensAssumption
  <2>3. QED
    BY <2>1, <2>2 DEF FaceInSprite
<1>17. FaceOnLcd'
  <2>1. ASSUME before'.face, before'.landRun, cache'.face \in Landscapes
        PROVE  "face" \in lcd' /\ lcd' \subseteq {"face", "overlay"}
    <3>1. screen \in {"landscapeFace", "nothing"}
      BY <1>5, <1>6, <1>11, <2>1 DEF FlagsAgree, RuntimeFace, FaceSelected
    <3>2. CASE screen = "landscapeFace" /\ k.face # r
      BY <1>2, <1>10, <3>2 DEF Paint, FaceOn
    <3>3. CASE k.face \in Landscapes
      <4>1. cache.face \in Landscapes /\ before.face /\ before.landRun
        BY <1>7, <2>1, <3>3, ScreensAssumption DEF RuntimeReset, NoCache
      <4>2. "face" \in lcd /\ lcd \subseteq {"face", "overlay"}
        BY <4>1 DEF ScreensInv, FaceOnLcd
      <4>3. QED
        BY <1>2, <1>10, <3>1, <4>2 DEF Paint, FaceOn
    <3>4. QED
      BY <1>11, <1>13, <2>1, <3>1, <3>2, <3>3
  <2>2. ASSUME before'.landClock, cache'.clock \in Landscapes
        PROVE  "clock" \in lcd' /\ lcd' \subseteq {"clock", "overlay"}
    <3>1. screen \in {"landscapeClock", "nothing"}
      BY <1>5, <1>6, <1>11, <2>2 DEF FlagsAgree, Clocking, FaceSelected
    <3>2. CASE screen = "landscapeClock" /\ k.clock # c
      BY <1>2, <1>10, <3>2 DEF Paint, FaceOn
    <3>3. CASE k.clock \in Landscapes
      <4>1. cache.clock \in Landscapes /\ before.landClock
        BY <1>7, <2>2, <3>3, ScreensAssumption DEF StandbyReset, ClockSwitch, NoCache
      <4>2. "clock" \in lcd /\ lcd \subseteq {"clock", "overlay"}
        BY <4>1 DEF ScreensInv, FaceOnLcd
      <4>3. QED
        BY <1>2, <1>10, <3>1, <4>2 DEF Paint, FaceOn
    <3>4. QED
      BY <1>11, <1>13, <2>2, <3>1, <3>2, <3>3
  <2>3. QED
    BY <2>1, <2>2 DEF FaceOnLcd
<1>18. SpriteLeftovers'
  <2>1. "prompt" \in s /\ ~prompt => before'.landRun
    BY <1>5, <1>8 DEF ScreensInv, SpriteLeftovers, SpriteCleared, PromptExited
  <2>2. /\ "panel" \in s => ~prompt /\ (panel # "none" \/ ota)
        /\ "page" \in s => ~prompt /\ (page \/ ota)
    BY <1>8 DEF ScreensInv, SpriteLeftovers, SpriteCleared, OverlayLost
  <2>3. sprite' \subseteq s \cup {"prompt", "clock", "face", "overlay", "passkey"}
           \cup (IF page /\ ~prompt THEN {"page"} ELSE {}) \cup (IF panel # "none" /\ ~prompt THEN {"panel"} ELSE {})
    BY <1>2, <1>10, <1>11 DEF Paint, FaceOn, SpriteScreen
  <2>4. "prompt" \in sprite' => prompt \/ "prompt" \in s
    BY <1>2, <1>10, <1>11 DEF Paint, FaceOn, SpriteScreen
  <2>5. QED
    BY <1>4, <1>5, <2>1, <2>2, <2>3, <2>4 DEF SpriteLeftovers
<1>19. PromptIsSeen'
  <2>1. PromptPainted'
    BY <1>2, <1>4, <1>11 DEF PromptPainted, Paint, LandscapePrompt
  <2>3. /\ screen = "face" => "face" \in sprite' /\ lcd' = sprite'
        /\ screen = "clock" => "clock" \in sprite' /\ lcd' = sprite'
        /\ screen = "landscapeFace" => "face" \in lcd' /\ lcd' \subseteq {"face", "overlay"}
        /\ screen = "landscapeClock" => "clock" \in lcd' /\ lcd' \subseteq {"clock", "overlay"}
        /\ screen = "home" => lcd' = sprite'
    <3>1. screen \in {"face", "clock", "home"} => lcd' = sprite'
      BY <1>2 DEF Paint
    <3>2. /\ screen = "face" => "face" \in sprite'
          /\ screen = "clock" => "clock" \in sprite'
      BY <1>4, <1>5, <1>11, <1>13, <1>16 DEF FaceInSprite
    <3>3. /\ screen = "landscapeFace" => "face" \in lcd' /\ lcd' \subseteq {"face", "overlay"}
          /\ screen = "landscapeClock" => "clock" \in lcd' /\ lcd' \subseteq {"clock", "overlay"}
      BY <1>11, <1>13, <1>17 DEF FaceOnLcd
    <3>4. QED
      BY <3>1, <3>2, <3>3
  <2>4. FrameComplete'
    <3>1. CASE screen \in {"landscapePrompt", "prompt"}
      BY <1>2, <2>1, <1>1, <1>4, <1>11, <3>1 DEF Paint, PromptPainted, FrameComplete
    <3>2. CASE screen \in {"landscapeFace", "face", "landscapeClock", "clock"}
      BY <1>2, <2>3, <3>2 DEF Paint, FaceOn, FrameComplete
    <3>3. CASE screen = "home"
      BY <1>2, <1>9, <2>3, <3>3 DEF Paint, HomeWanted, SpriteScreen, FrameComplete
    <3>4. CASE screen = "nothing"
      BY <1>2, <3>4 DEF Paint, FrameComplete
    <3>5. QED
      BY <1>11, <3>1, <3>2, <3>3, <3>4
  <2>5. wanted' = {} \/ prompt \/ screen \in {"landscapeFace", "face", "landscapeClock", "clock", "home"}
    BY <1>2, <1>11 DEF Paint
  <2>6. PromptLeaves'
    BY <1>4, <1>5, <1>6, <1>11, <1>18, <2>3, <2>5 DEF PromptLeaves, SpriteLeftovers, FlagsAgree
  <2>7. PanelLeaves'
    <3>1. ASSUME ~prompt, ~ota, "panel" \in sprite'
          PROVE  panel # "none"
      BY <1>4, <1>10, <1>18, <3>1 DEF SpriteLeftovers
    <3>2. ASSUME ~prompt, ~ota, "page" \in sprite'
          PROVE  page
      BY <1>4, <1>10, <1>18, <3>2 DEF SpriteLeftovers
    <3>3. screen \in {"face", "clock"} => panel = "none" /\ ~page
      BY <1>5, <1>11 DEF RuntimeFace, Clocking, FaceSelected
    <3>4. screen = "home" => /\ wanted' = HomeWanted /\ sprite' = SpriteScreen(s)
      BY <1>2 DEF Paint
    <3>5. screen = "home" /\ ~prompt /\ ~ota => lcd' \cap {"panel", "page"} \subseteq wanted'
      BY <1>10, <2>3, <3>1, <3>2, <3>4 DEF HomeWanted, SpriteScreen
    <3>6. QED
      BY <1>4, <1>10, <2>3, <2>5, <3>1, <3>2, <3>3, <3>5 DEF PanelLeaves
  <2>8. QED
    BY <2>1, <2>4, <2>6, <2>7 DEF PromptIsSeen
<1>20. QED
  BY <1>6, <1>15, <1>16, <1>17, <1>18, <1>19 DEF ScreensInv

LEMMA ScreensStart == ScreensInit => ScreensInv
<1> SUFFICES ASSUME ScreensInit PROVE ScreensInv
  OBVIOUS
<1> USE DEF ScreensInit
<1>1. ScreensTyped
  BY DEF ScreensTyped, InputsTyped, Poses
<1>2. FlagsAgree
  BY DEF FlagsAgree, Clocking, RuntimeFace
<1>3. FaceInSprite /\ FaceOnLcd /\ SpriteLeftovers
  BY ScreensAssumption DEF FaceInSprite, FaceOnLcd, SpriteLeftovers
<1>4. PromptIsSeen
  BY DEF PromptIsSeen, PromptPainted, FrameComplete, PromptLeaves, PanelLeaves
<1>5. QED
  BY <1>1, <1>2, <1>3, <1>4 DEF ScreensInv

LEMMA ScreensStay ==
  ASSUME ScreensInv, [ScreensNext]_surfaceVars
  PROVE  ScreensInv'
<1>1. CASE UNCHANGED surfaceVars
  BY <1>1 DEF surfaceVars, inputVars, frameVars, ScreensInv, ScreensTyped, InputsTyped, FlagsAgree, Clocking,
     RuntimeFace, FaceSelected, FaceInSprite, FaceOnLcd, SpriteLeftovers, PromptIsSeen, PromptPainted,
     FrameComplete, PromptLeaves, PanelLeaves
<1>2. QED
  BY <1>1, ChangesKeep, FrameKeeps

(* Whatever was on the display, a frame with an approval shows it, and the *)
(* next frame without it shows nothing of it (loop, main.cpp 2932-3044).   *)
THEOREM PromptsSeen == ScreensSpec => []PromptIsSeen
<1>1. ScreensInv => PromptIsSeen
  BY DEF ScreensInv
<1>2. ScreensInv /\ [ScreensNext]_surfaceVars => ScreensInv'
  BY ScreensStay
<1>3. QED
  BY <1>1, <1>2, ScreensStart, PTL DEF ScreensSpec

--------------------------------------------------------------------------------
(* When the display is lit.                                                *)

SleepTyped ==
  /\ napping \in BOOLEAN /\ displayOff \in BOOLEAN /\ dimmed \in BOOLEAN /\ lit \in BOOLEAN
  /\ lying \in BOOLEAN /\ prompted \in BOOLEAN /\ putOut \in BOOLEAN
  /\ light \in {"full", "low"} /\ faceDown \in -10..20
  /\ working \in {"no", "powered", "update"} /\ idleFor \in 0..(ScreenOff + 1)

SleepInv == SleepTyped /\ PromptIsLit

(* The state a loop hands from one of its parts to the next.               *)
LoopStates ==
  [nap : BOOLEAN, off : BOOLEAN, dim : BOOLEAN, light : {"full", "low"}, lit : BOOLEAN, idle : 0..(ScreenOff + 1)]
Believed(s) == (s.lit <=> ~s.off) /\ (s.light = "low" => s.dim /\ s.nap)

LEMMA WokenIs ==
  ASSUME NEW s \in LoopStates, (s.lit <=> ~s.off), (s.light = "low" => s.dim)
  PROVE  /\ Woken(s) \in LoopStates /\ Woken(s).nap = s.nap /\ Woken(s).idle = 0
         /\ Woken(s).off = FALSE /\ Woken(s).lit = TRUE /\ Woken(s).light = "full"
<1>1. /\ Woken(s).nap = s.nap /\ Woken(s).off = FALSE /\ Woken(s).dim = FALSE /\ Woken(s).idle = 0
      /\ Woken(s).light = IF s.off \/ s.dim THEN "full" ELSE s.light
  BY DEF Woken, LoopStates
<1>2. Woken(s).lit = (s.lit \/ s.off)
  BY DEF Woken, LoopStates
<1>3. (s.lit \/ s.off) = TRUE
  BY DEF LoopStates
<1>5. Woken(s).light = "full"
  BY <1>1 DEF LoopStates
<1>6. Woken(s) \in LoopStates
  BY <1>3, <1>5, SleepAssumption DEF LoopStates, Woken
<1>7. QED
  BY <1>1, <1>2, <1>3, <1>5, <1>6

LEMMA PartsOfALoop ==
  ASSUME NEW s \in LoopStates, Believed(s), NEW count \in Int
  PROVE  /\ Roused(s) \in LoopStates /\ Believed(Roused(s)) /\ Roused(s).lit = TRUE
         /\ Woken(s) \in LoopStates /\ Believed(Woken(s)) /\ Woken(s).lit = TRUE
         /\ PowerKey(s) \in LoopStates /\ Believed(PowerKey(s))
         /\ Nap(s, count) \in LoopStates /\ Believed(Nap(s, count)) /\ (s.lit => Nap(s, count).lit)
         /\ (count <= -8 => ~Nap(s, count).nap)
         /\ TimeOut(s) \in LoopStates /\ Believed(TimeOut(s)) /\ TimeOut(s).nap = s.nap
         /\ (prompted' /\ s.lit => TimeOut(s).lit)
<1> DEFINE awake == [s EXCEPT !.nap = FALSE]
           asleep == [s EXCEPT !.nap = TRUE, !.light = "low", !.dim = TRUE]
           out == [s EXCEPT !.lit = FALSE, !.off = TRUE]
<1>1. awake \in LoopStates /\ (awake.lit <=> ~awake.off) /\ (awake.light = "low" => awake.dim) /\ awake.nap = FALSE
  BY DEF LoopStates, Believed
<1>2. asleep \in LoopStates /\ Believed(asleep) /\ asleep.lit = s.lit /\ asleep.nap = TRUE
  BY DEF LoopStates, Believed
<1>3. out \in LoopStates /\ Believed(out) /\ out.nap = s.nap
  BY DEF LoopStates, Believed
<1>4. Woken(s) \in LoopStates /\ Believed(Woken(s)) /\ Woken(s).lit = TRUE
  BY WokenIs DEF Believed
<1>5. Woken(awake) \in LoopStates /\ Believed(Woken(awake)) /\ Woken(awake).lit = TRUE /\ Woken(awake).nap = FALSE
  <2> HIDE DEF awake
  <2> QED
    BY <1>1, WokenIs DEF Believed
<1>6. Roused(s) = Woken(awake)
  BY DEF Roused
<1>7. PowerKey(s) \in {Woken(s), out}
  BY DEF PowerKey
<1>8. /\ Nap(s, count) \in {asleep, Woken(awake), s}
      /\ count <= -8 => Nap(s, count) = Woken(awake) \/ (Nap(s, count) = s /\ ~s.nap)
  BY DEF Nap
<1>9. TimeOut(s) \in {s, out} /\ (prompted' => TimeOut(s) = s)
  BY DEF TimeOut
<1> HIDE DEF awake, asleep, out
<1>10. QED
  BY <1>2, <1>3, <1>4, <1>5, <1>6, <1>7, <1>8, <1>9

LEMMA LoopKeeps ==
  ASSUME SleepInv, Loop
  PROVE  SleepInv'
<1>1. PICK new \in BOOLEAN, button \in {"none", "press", "power"} :
        /\ prompted' \in (IF new THEN {TRUE} ELSE {prompted, FALSE})
        /\ working' \in {"no", "powered", "update"}
        /\ SleepLoop(new, button)
  BY DEF Loop
<1> DEFINE arrived == IF new THEN Roused(State) ELSE State
           updated == IF working' = "update" THEN Roused(arrived) ELSE arrived
           pressed == CASE button = "power" -> PowerKey(updated)
                        [] button = "press" -> Woken(updated)
                        [] button = "none" -> updated
           rested == Nap(pressed, CountDown)
           end == TimeOut(rested)
<1>2. State \in LoopStates /\ Believed(State) /\ State.lit = lit /\ State.nap = napping
  BY DEF SleepInv, SleepTyped, State, LoopStates, Believed, PromptIsLit, LightAsBelieved
<1>3. CountDown \in -10..20 /\ CountDown \in Int
  BY DEF CountDown, SleepInv, SleepTyped
<1>4. /\ faceDown' = CountDown
      /\ napping' = end.nap /\ displayOff' = end.off /\ dimmed' = end.dim
      /\ light' = end.light /\ lit' = end.lit /\ idleFor' = end.idle
      /\ putOut' = (prompted' /\ (button = "power" \/ (putOut /\ ~new)))
      /\ UNCHANGED lying
  BY <1>1 DEF SleepLoop
<1>5. arrived \in LoopStates /\ Believed(arrived) /\ (arrived.lit \/ (~new /\ ~lit))
  BY <1>2, PartsOfALoop, <1>3
<1> HIDE DEF arrived
<1>6. updated \in LoopStates /\ Believed(updated) /\ (updated.lit \/ (~new /\ ~lit))
  BY <1>3, <1>5, PartsOfALoop
<1> HIDE DEF updated
<1>7. pressed \in LoopStates /\ Believed(pressed) /\ (pressed.lit \/ button = "power" \/ (~new /\ ~lit))
  BY <1>3, <1>6, PartsOfALoop
<1> HIDE DEF pressed
<1>8. rested \in LoopStates /\ Believed(rested) /\ (pressed.lit => rested.lit) /\ (CountDown <= -8 => ~rested.nap)
  BY <1>3, <1>7, PartsOfALoop
<1> HIDE DEF rested
<1>9. end \in LoopStates /\ Believed(end) /\ (prompted' /\ rested.lit => end.lit) /\ end.nap = rested.nap
  BY <1>3, <1>8, PartsOfALoop
<1> HIDE DEF end
<1>10. prompted' \in BOOLEAN /\ putOut' \in BOOLEAN /\ (~new /\ prompted' => prompted)
  BY <1>1, <1>4 DEF SleepInv, SleepTyped
<1>11. SleepTyped'
  BY <1>1, <1>3, <1>4, <1>9, <1>10 DEF SleepInv, SleepTyped, LoopStates
<1>12. LightAsBelieved'
  <2>1. (lit' <=> ~displayOff') /\ (light' = "low" => dimmed' /\ napping')
    BY <1>4, <1>9 DEF Believed
  <2>2. QED
    BY <2>1, <1>11 DEF LightAsBelieved, SleepTyped
<1>13. PromptLit'
  <2> SUFFICES ASSUME prompted', ~lit' PROVE putOut'
    BY DEF PromptLit
  <2>1. button = "power" \/ (~new /\ ~lit)
    BY <1>4, <1>7, <1>8, <1>9
  <2>2. ~new /\ ~lit => putOut
    BY <1>10 DEF SleepInv, PromptIsLit, PromptLit
  <2>3. QED
    BY <1>4, <2>1, <2>2
<1>14. PickedUpWakes'
  BY <1>4, <1>8, <1>9 DEF PickedUpWakes
<1>15. QED
  BY <1>11, <1>12, <1>13, <1>14 DEF SleepInv, PromptIsLit

LEMMA SleepStays ==
  ASSUME SleepInv, [SleepNext]_sleepVars
  PROVE  SleepInv'
<1> USE DEF SleepInv, SleepTyped, PromptIsLit, LightAsBelieved, PromptLit, PickedUpWakes
<1>1. CASE Turned
  <2>1. lying' \in BOOLEAN
    BY <1>1 DEF Turned
  <2>2. QED
    BY <1>1, <2>1 DEF Turned
<1>2. CASE SleepTick
  BY <1>2, SleepAssumption DEF SleepTick
<1>3. CASE UNCHANGED sleepVars
  BY <1>3 DEF sleepVars
<1>4. QED
  BY <1>1, <1>2, <1>3, LoopKeeps DEF SleepNext

LEMMA SleepHolds == SleepSpec => []SleepInv
<1>1. SleepInit => SleepInv
  <2> SUFFICES ASSUME SleepInit PROVE SleepInv
    OBVIOUS
  <2>1. SleepTyped
    <3>1. {napping, displayOff, dimmed, lit, lying, prompted, putOut} \subseteq BOOLEAN
      BY DEF SleepInit
    <3>2. light = "full" /\ faceDown = 0 /\ working = "no" /\ idleFor = 0
      BY DEF SleepInit
    <3>3. QED
      BY <3>1, <3>2, SleepAssumption DEF SleepTyped
  <2>2. PromptIsLit
    BY DEF SleepInit, PromptIsLit, LightAsBelieved, PromptLit, PickedUpWakes
  <2>3. QED
    BY <2>1, <2>2 DEF SleepInv
<1>2. SleepInv /\ [SleepNext]_sleepVars => SleepInv'
  BY SleepStays
<1>3. QED
  BY <1>1, <1>2, PTL DEF SleepSpec

(* An approval is lit unless the user put the display out under it, and no *)
(* nap leaves the display dim (loop, main.cpp 2551-2608; wake).            *)
THEOREM PromptsLit == SleepSpec => []PromptIsLit
<1>1. SleepInv => PromptIsLit
  BY DEF SleepInv
<1>2. QED
  BY <1>1, SleepHolds, PTL

--------------------------------------------------------------------------------
(* The clocks.                                                             *)

(* Differences of two readings of a counter that wraps.                    *)

LEMMA WrapIsLong == Wrap \in Nat /\ Wrap > 3 /\ MaxAge \in Nat /\ MaxAge < Wrap
<1>1. Wrap \in Nat /\ MaxAge \in Nat \ {0} /\ MaxAge + 1 < Wrap \div 2
  BY TimeAssumption
<1>2. QED
  BY <1>1

LEMMA Difference ==
  ASSUME NEW W \in Nat \ {0}, NEW m \in 0..(W - 1), NEW a \in 0..(W - 1)
  PROVE  (m - a) % W = IF m >= a THEN m - a ELSE m - a + W
<1>1. CASE m >= a
  <2>1. \A x \in 0..(W - 1) : x % W = x
    OBVIOUS
  <2>2. m - a \in 0..(W - 1)
    BY <1>1
  <2>3. QED BY <1>1, <2>1, <2>2
<1>2. CASE m < a
  <2>1. \A x \in Int : x < 0 /\ -W < x => x % W = x + W
    OBVIOUS
  <2>2. m - a \in Int /\ m - a < 0 /\ -W < m - a
    BY <1>2
  <2>3. QED BY <1>2, <2>1, <2>2
<1>3. QED
  BY <1>1, <1>2

LEMMA NextReading ==
  ASSUME NEW W \in Nat \ {0}, NEW m \in 0..(W - 1)
  PROVE  (m + 1) % W = IF m = W - 1 THEN 0 ELSE m + 1
<1>1. CASE m = W - 1
  <2>1. W % W = 0
    OBVIOUS
  <2>2. m + 1 = W
    BY <1>1
  <2>3. QED BY <1>1, <2>1, <2>2
<1>2. CASE m # W - 1
  <2>1. \A x \in 0..(W - 1) : x % W = x
    OBVIOUS
  <2>2. m + 1 \in 0..(W - 1)
    BY <1>2
  <2>3. QED BY <1>2, <2>1, <2>2
<1>3. QED
  BY <1>1, <1>2

Readings == 0..(Wrap - 1)

(* A second later the difference is one more, or 0 after a whole turn.     *)
LEMMA SecondLater ==
  ASSUME NEW m \in Readings, NEW a \in Readings
  PROVE  /\ (m - a) % Wrap \in Readings /\ (m + 1) % Wrap \in Readings
         /\ ((m - a) % Wrap = 0 <=> m = a)
         /\ (((m + 1) % Wrap) - a) % Wrap = IF (m - a) % Wrap = Wrap - 1 THEN 0 ELSE ((m - a) % Wrap) + 1
<1> DEFINE n == (m + 1) % Wrap
<1>0. Wrap \in Nat \ {0} /\ m \in 0..(Wrap - 1) /\ a \in 0..(Wrap - 1)
  BY WrapIsLong DEF Readings
<1>1. n = IF m = Wrap - 1 THEN 0 ELSE m + 1
  BY <1>0, NextReading
<1>2. n \in 0..(Wrap - 1)
  BY <1>0, <1>1
<1>3. (m - a) % Wrap = IF m >= a THEN m - a ELSE m - a + Wrap
  BY <1>0, Difference
<1> HIDE DEF n
<1>4. (n - a) % Wrap = IF n >= a THEN n - a ELSE n - a + Wrap
  BY <1>0, <1>2, Difference
<1>5. QED
  BY <1>0, <1>1, <1>2, <1>3, <1>4 DEF n, Readings

--------------------------------------------------------------------------------
(* The invariant: kinds; what the two sources last said and when; what is  *)
(* shown.                                                                  *)

TimeTyped ==
  /\ millis \in Readings /\ lastRead \in Readings
  /\ hostTime \in [valid : BOOLEAN, at : Readings, time : {Right, Wrong, Unset}]
  /\ trusted \in [source : {"none", "host", "sntp"}, at : Readings]
  /\ sntp \in [requested : BOOLEAN, next : Readings, started : BOOLEAN, completed : BOOLEAN]
  /\ heardAgo \in [host : 0..Wrap, trusted : 0..Wrap]
  /\ rtc \in {Right, Wrong, Unset} /\ shown \in {Right, Wrong, Late, Unset}
  /\ system \in {Right, Wrong, Unset} /\ rtcValid \in BOOLEAN /\ online \in BOOLEAN

HostTold == hostTime.valid /\ heardAgo.host < Wrap => Since(hostTime.at) = heardAgo.host

TrustTold ==
  /\ trusted.source # "none" => system = Right
  /\ trusted.source # "none" /\ heardAgo.trusted < Wrap => Since(trusted.at) = heardAgo.trusted
  /\ sntp.completed => system = Right

BatteryTold == ~hostTime.valid /\ rtcValid => rtc # Unset

TimeInv == TimeTyped /\ HostTold /\ TrustTold /\ BatteryTold /\ ShownAsSynced

LEMMA AgesElapse ==
  ASSUME NEW m \in Readings, NEW read \in Readings
  PROVE  (m - read) % Wrap >= 1 <=> read # m
<1>1. (m - read) % Wrap \in Nat /\ ((m - read) % Wrap = 0 <=> m = read)
  BY SecondLater, WrapIsLong DEF Readings
<1>2. QED
  BY <1>1

LEMMA TimeStarts == TimeInit => TimeInv
<1> SUFFICES ASSUME TimeInit PROVE TimeInv
  OBVIOUS
<1> USE WrapIsLong DEF TimeInit, NoHost, NoTrust, NoSntp
<1>1. TimeTyped
  <2>1. 0 \in Readings /\ 0 \in 0..Wrap
    BY DEF Readings
  <2>2. hostTime \in [valid : BOOLEAN, at : Readings, time : {Right, Wrong, Unset}]
    BY <2>1
  <2>3. trusted \in [source : {"none", "host", "sntp"}, at : Readings]
    BY <2>1
  <2>4. sntp \in [requested : BOOLEAN, next : Readings, started : BOOLEAN, completed : BOOLEAN]
    BY <2>1
  <2>5. heardAgo \in [host : 0..Wrap, trusted : 0..Wrap]
    BY <2>1
  <2>6. QED
    BY <2>1, <2>2, <2>3, <2>4, <2>5 DEF TimeTyped
<1>2. HostTold /\ TrustTold /\ BatteryTold /\ ShownAsSynced
  BY DEF HostTold, TrustTold, BatteryTold, ShownAsSynced
<1>3. QED
  BY <1>1, <1>2 DEF TimeInv

(* A host speaks: a wrong one may set the display, never what is trusted.  *)
LEMMA SyncKeeps ==
  ASSUME TimeInv, TimeSync
  PROVE  TimeInv'
<1>1. PICK authenticated \in BOOLEAN, time \in {Right, Wrong} :
        /\ authenticated => time = Right
        /\ AcceptHostUtc(authenticated, time)
        /\ hostTime' = [valid |-> TRUE, at |-> millis, time |-> time] /\ rtc' = time
  BY DEF TimeSync
<1>2. /\ rtcValid' = TRUE /\ lastRead' = 0
      /\ millis' = millis /\ shown' = shown /\ online' = online /\ sntp' = sntp
  BY DEF TimeSync
<1>3. Wrap \in Nat \ {0} /\ Wrap > 3 /\ millis \in 0..(Wrap - 1) /\ (millis - millis) % Wrap = 0
  <2>1. Wrap \in Nat \ {0} /\ Wrap > 3 /\ millis \in 0..(Wrap - 1)
    BY WrapIsLong DEF TimeInv, TimeTyped, Readings
  <2>2. QED BY <2>1, SecondLater
<1>4. \/ /\ time = Right /\ system' = Right /\ trusted' = [source |-> "host", at |-> millis]
         /\ heardAgo' = [host |-> 0, trusted |-> 0]
      \/ UNCHANGED <<system, trusted>> /\ heardAgo' = [heardAgo EXCEPT !.host = 0]
  BY <1>1 DEF AcceptHostUtc
<1>5. TimeTyped'
  BY <1>1, <1>2, <1>3, <1>4 DEF TimeInv, TimeTyped, Readings
<1>6. HostTold'
  BY <1>1, <1>2, <1>3, <1>4 DEF TimeInv, TimeTyped, HostTold, Since
<1>7. TrustTold'
  BY <1>1, <1>2, <1>3, <1>4 DEF TimeInv, TimeTyped, TrustTold, Since
<1>8. BatteryTold'
  BY <1>1 DEF BatteryTold
<1>9. ShownAsSynced'
  <2>1. ReadDue' <=> lastRead' # millis'
    BY <1>5, AgesElapse DEF ReadDue, Since, TimeTyped
  <2>2. QED BY <1>2, <1>3, <2>1 DEF ShownAsSynced
<1>10. QED
  BY <1>5, <1>6, <1>7, <1>8, <1>9 DEF TimeInv

(* The display is read again: from the host while it holds, else from the  *)
(* battery.                                                                *)
LEMMA RefreshKeeps ==
  ASSUME TimeInv, RefreshClock
  PROVE  TimeInv'
<1> USE DEF RefreshClock
<1>1. TimeTyped'
  <2>1. FromHost \in {Right, Wrong, Late, Unset}
    BY DEF TimeInv, TimeTyped, FromHost
  <2>2. shown' \in {Right, Wrong, Late, Unset} /\ rtcValid' \in BOOLEAN
    BY <2>1 DEF TimeInv, TimeTyped
  <2>3. QED BY <2>2 DEF TimeInv, TimeTyped
<1>2. HostTold' /\ TrustTold'
  BY DEF TimeInv, HostTold, TrustTold, Since
<1>3. BatteryTold'
  BY DEF TimeInv, BatteryTold
<1>4. ShownAsSynced'
  <2>1. hostTime'.valid /\ heardAgo'.host < Wrap => shown' = hostTime'.time
    BY DEF TimeInv, HostTold, FromHost
  <2>2. ~hostTime'.valid /\ rtcValid' => shown' = rtc' /\ shown' # Unset
    BY DEF TimeInv, BatteryTold
  <2>3. QED
    BY <2>1, <2>2 DEF ShownAsSynced
<1>5. QED
  BY <1>1, <1>2, <1>3, <1>4 DEF TimeInv

(* SNTP: what is trusted is what it set.                                   *)
LEMMA SntpKeeps ==
  ASSUME TimeInv, MaybeStartSntp \/ SntpAnswers \/ WifiComesOrGoes
  PROVE  TimeInv'
<1> USE DEF MaybeStartSntp, SntpAnswers, WifiComesOrGoes
<1>1. UNCHANGED <<millis, hostTime, rtc, rtcValid, shown, lastRead>> /\ heardAgo'.host = heardAgo.host
  BY DEF TimeInv, TimeTyped
<1>2. Wrap \in Nat \ {0} /\ millis \in Readings /\ (millis - millis) % Wrap = 0
      /\ (millis + Retry) % Wrap \in Readings
  <2>1. Wrap \in Nat \ {0} /\ millis \in 0..(Wrap - 1) /\ Retry \in Nat
    BY WrapIsLong, TimeAssumption DEF TimeInv, TimeTyped, Readings
  <2>2. (millis - millis) % Wrap = 0
    BY <2>1, SecondLater
  <2>3. \A x \in Nat : x % Wrap \in 0..(Wrap - 1)
    BY <2>1
  <2>4. QED BY <2>1, <2>2, <2>3 DEF Readings
<1>3. sntp' \in [requested : BOOLEAN, next : Readings, started : BOOLEAN, completed : BOOLEAN]
  BY <1>2 DEF TimeInv, TimeTyped
<1>4. trusted' \in [source : {"none", "host", "sntp"}, at : Readings]
  BY <1>2 DEF TimeInv, TimeTyped
<1>5. heardAgo' \in [host : 0..Wrap, trusted : 0..Wrap]
  BY <1>2 DEF TimeInv, TimeTyped
<1>6. online' \in BOOLEAN /\ system' \in {Right, Wrong, Unset}
  BY DEF TimeInv, TimeTyped
<1>7. TimeTyped'
  BY <1>1, <1>3, <1>4, <1>5, <1>6 DEF TimeInv, TimeTyped
<1>8. HostTold' /\ BatteryTold'
  BY <1>1 DEF TimeInv, HostTold, BatteryTold, Since
<1>9. TrustTold'
  <2>1. CASE SntpDone /\ MaybeStartSntp
    BY <1>1, <1>2, <2>1 DEF TimeInv, TimeTyped, TrustTold, Since, SntpDone
  <2>2. CASE UNCHANGED <<trusted, heardAgo, system>> /\ (sntp'.completed => sntp.completed)
    BY <1>1, <2>2 DEF TimeInv, TrustTold, Since
  <2>3. CASE SntpAnswers
    BY <1>1, <2>3 DEF TimeInv, TrustTold, Since
  <2>4. QED
    BY <2>1, <2>2, <2>3 DEF SntpWanted, TimeInv, TimeTyped
<1>10. ShownAsSynced'
  BY <1>1 DEF TimeInv, ShownAsSynced, ReadDue, Since
<1>11. QED
  BY <1>7, <1>8, <1>9, <1>10 DEF TimeInv

(* A second goes by: the counter and the true times move together until a  *)
(* whole turn has passed.                                                  *)
LEMMA SecondKeeps ==
  ASSUME TimeInv, SecondPasses
  PROVE  TimeInv'
<1> USE DEF SecondPasses
<1>1. Wrap \in Nat \ {0} /\ Wrap > 3 /\ millis \in 0..(Wrap - 1)
      /\ hostTime.at \in 0..(Wrap - 1) /\ trusted.at \in 0..(Wrap - 1)
      /\ heardAgo.host \in 0..Wrap /\ heardAgo.trusted \in 0..Wrap
  BY WrapIsLong DEF TimeInv, TimeTyped, Readings
<1>2. millis' \in Readings
  BY <1>1, SecondLater DEF Readings
<1>3. /\ heardAgo'.host = (IF hostTime.valid THEN Older(heardAgo.host) ELSE 0)
      /\ heardAgo'.trusted = (IF trusted.source # "none" THEN Older(heardAgo.trusted) ELSE 0)
      /\ heardAgo' \in [host : 0..Wrap, trusted : 0..Wrap]
  BY <1>1 DEF Older
<1>4. TimeTyped'
  BY <1>2, <1>3 DEF TimeInv, TimeTyped
<1>5. HostTold'
  <2> SUFFICES ASSUME hostTime.valid, heardAgo'.host < Wrap
               PROVE  (millis' - hostTime.at) % Wrap = heardAgo'.host
    BY DEF HostTold, Since
  <2>1. heardAgo.host < Wrap - 1 /\ heardAgo'.host = heardAgo.host + 1
    BY <1>1, <1>3 DEF Older
  <2>2. (millis - hostTime.at) % Wrap = heardAgo.host
    BY <1>1, <2>1 DEF TimeInv, HostTold, Since
  <2> HIDE DEF SecondPasses
  <2>3. (((millis + 1) % Wrap) - hostTime.at) % Wrap
        = IF (millis - hostTime.at) % Wrap = Wrap - 1 THEN 0 ELSE ((millis - hostTime.at) % Wrap) + 1
    BY SecondLater DEF TimeInv, TimeTyped
  <2>4. millis' = (millis + 1) % Wrap
    BY DEF SecondPasses
  <2>5. (millis' - hostTime.at) % Wrap
          = IF (millis - hostTime.at) % Wrap = Wrap - 1 THEN 0 ELSE ((millis - hostTime.at) % Wrap) + 1
    BY <2>3, <2>4
  <2>6. QED
    BY <1>1, <2>1, <2>2, <2>5
<1>6. TrustTold'
  <2>1. /\ trusted.source # "none" => system = Right
        /\ sntp.completed => system = Right
    BY DEF TimeInv, TrustTold
  <2>2. ASSUME trusted.source # "none", heardAgo'.trusted < Wrap
        PROVE  (millis' - trusted.at) % Wrap = heardAgo'.trusted
    <3>1. heardAgo.trusted < Wrap - 1 /\ heardAgo'.trusted = heardAgo.trusted + 1
      BY <1>1, <1>3, <2>2 DEF Older
    <3>2. (millis - trusted.at) % Wrap = heardAgo.trusted
      BY <1>1, <2>2, <3>1 DEF TimeInv, TrustTold, Since
    <3> HIDE DEF SecondPasses
    <3>3. (((millis + 1) % Wrap) - trusted.at) % Wrap
          = IF (millis - trusted.at) % Wrap = Wrap - 1 THEN 0 ELSE ((millis - trusted.at) % Wrap) + 1
      BY SecondLater DEF TimeInv, TimeTyped
    <3>4. millis' = (millis + 1) % Wrap
      BY DEF SecondPasses
    <3>5. (millis' - trusted.at) % Wrap
            = IF (millis - trusted.at) % Wrap = Wrap - 1 THEN 0 ELSE ((millis - trusted.at) % Wrap) + 1
      BY <3>3, <3>4
    <3>6. QED
      BY <1>1, <3>1, <3>2, <3>5
  <2>3. QED
    BY <2>1, <2>2 DEF TrustTold, Since
<1>7. BatteryTold'
  BY DEF TimeInv, BatteryTold
<1>8. ShownAsSynced'
  <2>1. lastRead = millis
    BY AgesElapse DEF TimeInv, TimeTyped, ReadDue, Since
  <2>2. millis' # lastRead'
    BY <1>1, <2>1, NextReading
  <2>3. ReadDue'
    BY <1>4, <2>2, AgesElapse DEF TimeTyped, ReadDue, Since
  <2>4. QED
    BY <2>3 DEF ShownAsSynced
<1>9. QED
  BY <1>4, <1>5, <1>6, <1>7, <1>8 DEF TimeInv

LEMMA TimeKept == TimeInv /\ [TimeNext]_timeVars => TimeInv'
<1> SUFFICES ASSUME TimeInv, [TimeNext]_timeVars PROVE TimeInv'
  OBVIOUS
<1>1. CASE TimeRestart
  <2>1. 0 \in Readings /\ 0 \in 0..Wrap
    BY WrapIsLong DEF Readings
  <2>2. TimeTyped'
    <3>1. hostTime' \in [valid : BOOLEAN, at : Readings, time : {Right, Wrong, Unset}]
      BY <1>1, <2>1 DEF TimeRestart, NoHost
    <3>2. trusted' \in [source : {"none", "host", "sntp"}, at : Readings]
      BY <1>1, <2>1 DEF TimeRestart, NoTrust
    <3>3. sntp' \in [requested : BOOLEAN, next : Readings, started : BOOLEAN, completed : BOOLEAN]
      BY <1>1, <2>1 DEF TimeRestart, NoSntp
    <3>4. heardAgo' \in [host : 0..Wrap, trusted : 0..Wrap]
      BY <1>1, <2>1 DEF TimeRestart
    <3>5. QED
      BY <1>1, <2>1, <3>1, <3>2, <3>3, <3>4 DEF TimeRestart, TimeInv, TimeTyped
  <2>3. HostTold' /\ TrustTold' /\ BatteryTold' /\ ShownAsSynced'
    BY <1>1, WrapIsLong
    DEF TimeRestart, NoHost, NoTrust, NoSntp, HostTold, TrustTold, BatteryTold, ShownAsSynced
  <2>4. QED
    BY <2>2, <2>3 DEF TimeInv
<1>2. CASE UNCHANGED timeVars
  BY <1>2
  DEF timeVars, TimeInv, TimeTyped, HostTold, TrustTold, BatteryTold, ShownAsSynced, Since, ReadDue
<1>3. QED
  BY <1>1, <1>2, SyncKeeps, RefreshKeeps, SntpKeeps, SecondKeeps DEF TimeNext

(* What is trusted is right and not a day old, and what is shown as the    *)
(* time is what the last host or the battery said, until the counter has   *)
(* made a whole turn (main.cpp:842-905, trusted_time_logic.h:55,           *)
(* wifi_manager.cpp:259-330).                                              *)
THEOREM HonestClocks == TimeSpec => []ClocksAreHonest
<1>1. TimeInv => ClocksAreHonest
  <2> SUFFICES ASSUME TimeInv, Fresh
               PROVE  system = Right /\ heardAgo.trusted \in (0..MaxAge) \cup {Wrap}
    BY DEF TimeInv, ClocksAreHonest, TrustIsEarned
  <2>1. trusted.source # "none" /\ Since(trusted.at) <= MaxAge
    BY DEF Fresh
  <2>2. heardAgo.trusted \in 0..Wrap /\ Wrap \in Nat /\ MaxAge \in Nat
    BY WrapIsLong DEF TimeInv, TimeTyped
  <2>3. QED
    BY <2>1, <2>2 DEF TimeInv, TrustTold
<1>2. QED
  BY <1>1, TimeStarts, TimeKept, PTL DEF TimeSpec

--------------------------------------------------------------------------------
(* The panels.                                                             *)

(* What can be open: one panel, but the reset panel lies on the settings.  *)
OpenSets == {{}, {"menu"}, {"settings"}, {"reset", "settings"}, {"wifiMenu"}, {"wifiStatus"}, {"receive"}}

ResetKinds == {"delete char", "factory reset", "back"}

MenusTyped ==
  /\ mode \in Modes /\ open \in OpenSets
  /\ sel \in 0..5 /\ settingsSel \in 0..10
  /\ asking \in {"no", "approval", "question"}
  /\ update \in {"none", "window", "confirm", "running", "committed", "automatic"}
  /\ wifi \in [provisioned : BOOLEAN, portal : BOOLEAN]
  /\ armed \in ResetKinds \cup {Unarmed} /\ armedFor \in 0..ResetWindow
  /\ wiped \in ResetKinds \cup {"none"}

(* The selection is one of the items of the panel on top.                  *)
SelOnPanel ==
  /\ "reset" \in open => sel \in 0..2
  /\ "wifiMenu" \in open => sel \in 0..3

(* An update in the foreground has its panel, or none is open.             *)
UpdatePanels ==
  /\ update = "confirm" => open = {"receive"} /\ asking = "no"
  /\ update = "automatic" => open = {} /\ asking = "no"

(* While the reset panel is open, a confirmation that waits was tapped as  *)
(* long ago as its window has passed, and nothing came after.              *)
TapArmed ==
  "reset" \in open /\ armed # Unarmed /\ armedFor > 0 /\ wiped = "none" =>
    taps = <<[item |-> armed, age |-> ResetWindow - armedFor]>>

MenusInv ==
  /\ MenusTyped /\ SelOnPanel /\ UpdatePanels /\ TapArmed
  /\ ErasedOnPurpose

(* What the panels offer.                                                  *)
LEMMA ItemsAre ==
  /\ ResetItems[1] = "delete char" /\ ResetItems[2] = "factory reset" /\ ResetItems[3] = "back"
  /\ MenuItems[1] = "settings" /\ MenuItems[2] = "turn off" /\ MenuItems[3] = "help"
  /\ MenuItems[4] = "about" /\ MenuItems[5] = "demo" /\ MenuItems[6] = "close"
  BY DEF ResetItems, MenuItems

(* A Wi-Fi whose two flags are known.                                      *)
LEMMA WifiFlags ==
  ASSUME NEW p \in BOOLEAN, NEW q \in BOOLEAN
  PROVE  [provisioned |-> p, portal |-> q] \in [provisioned : BOOLEAN, portal : BOOLEAN]
  OBVIOUS

LEMMA FirstOpen ==
  ASSUME NEW order, DOMAIN order \subseteq Nat, NEW n \in DOMAIN order, n > 0,
         IsFirstOpen(order, n), \A i \in DOMAIN order : i > 0
  PROVE  Top(order) = order[n]
<1>1. open # {}
  BY DEF IsFirstOpen
<1> DEFINE m == CHOOSE i \in DOMAIN order : IsFirstOpen(order, i)
<1>2. m \in DOMAIN order /\ IsFirstOpen(order, m)
  OBVIOUS
<1>3. m = n
  <2>1. m \in Nat /\ n \in Nat /\ m > 0 /\ n > 0
    BY <1>2
  <2>2. ~(m < n)
    BY <1>2, <2>1 DEF IsFirstOpen
  <2>3. ~(n < m)
    BY <1>2, <2>1 DEF IsFirstOpen
  <2>4. QED
    BY <2>1, <2>2, <2>3
<1>4. QED
  BY <1>1, <1>3 DEF Top

Orders == {ShortAOrder, LongAOrder, BOrder, DrawOrder}

LEMMA TopPanel ==
  ASSUME open \in OpenSets, NEW order \in Orders
  PROVE  /\ open = {} => Top(order) = "none"
         /\ "reset" \in open => Top(order) = "reset"
         /\ \A p \in Panels : open = {p} => Top(order) = p
<1>1. ASSUME open = {} PROVE Top(order) = "none"
  BY <1>1 DEF Top
<1>2. DOMAIN order = 1..6 /\ \A i \in 1..6 : order[i] \in Panels
  BY DEF Orders, ShortAOrder, LongAOrder, BOrder, DrawOrder, Panels
<1>3. ASSUME "reset" \in open PROVE Top(order) = "reset"
  <2>1. open = {"reset", "settings"}
    BY <1>3 DEF OpenSets
  <2>2. PICK n \in 1..6 : order[n] = "reset" /\ \A j \in 1..(n - 1) : order[j] # "reset" /\ order[j] # "settings"
    <3>1. CASE order = ShortAOrder
      BY <3>1 DEF ShortAOrder
    <3>2. CASE order \in {LongAOrder, BOrder, DrawOrder}
      <4>1. order[4] = "reset" /\ \A j \in 1..3 : order[j] # "reset" /\ order[j] # "settings"
        BY <3>2 DEF LongAOrder, BOrder, DrawOrder
      <4>2. QED
        BY <4>1
    <3>3. QED
      BY <3>1, <3>2 DEF Orders
  <2>3. IsFirstOpen(order, n)
    BY <2>1, <2>2 DEF IsFirstOpen
  <2>4. QED
    BY <1>2, <2>2, <2>3, FirstOpen
<1>4. ASSUME NEW p \in Panels, open = {p} PROVE Top(order) = p
  <2>1. PICK n \in 1..6 : order[n] = p /\ \A j \in 1..(n - 1) : order[j] # p
    BY DEF Orders, ShortAOrder, LongAOrder, BOrder, DrawOrder, Panels
  <2>2. IsFirstOpen(order, n)
    BY <1>4, <2>1 DEF IsFirstOpen
  <2>3. QED
    BY <1>2, <2>1, <2>2, FirstOpen
<1>5. QED
  BY <1>1, <1>3, <1>4

(* An order names the panel on top, whichever it is.                       *)
LEMMA TopsAgree ==
  ASSUME open \in OpenSets, NEW order \in Orders
  PROVE  /\ Top(order) \in Panels \cup {"none"}
         /\ Top(order) = "none" <=> open = {}
         /\ Top(order) = "reset" <=> "reset" \in open
         /\ \A p \in Panels \ {"reset"} : Top(order) = p <=> open = {p}
<1>1. open = {} \/ open = {"reset", "settings"} \/ \E p \in Panels \ {"reset"} : open = {p}
  BY DEF OpenSets, Panels
<1>2. "none" \notin Panels
  BY DEF Panels
<1>3. CASE open = {}
  BY <1>2, <1>3, TopPanel
<1>4. CASE open = {"reset", "settings"}
  <2>1. Top(order) = "reset"
    BY <1>4, TopPanel
  <2>2. QED
    BY <1>4, <2>1 DEF Panels
<1>5. CASE \E p \in Panels \ {"reset"} : open = {p}
  <2>1. PICK p \in Panels \ {"reset"} : open = {p}
    BY <1>5
  <2>2. Top(order) = p
    BY <2>1, TopPanel
  <2>3. QED
    BY <1>2, <2>1, <2>2
<1>6. QED
  BY <1>1, <1>3, <1>4, <1>5

LEMMA MenusInvHolds ==
  ASSUME MenusInv
  PROVE  PanelsObeyed
<1>1. open \in OpenSets
  BY DEF MenusInv, MenusTyped
<1>2. DrawOrder \in Orders /\ {ShortAOrder, LongAOrder, BOrder} \subseteq Orders
  BY DEF Orders
<1>3. DrawnIsHandled
  <2>1. SUFFICES ASSUME NEW order \in Orders PROVE Top(order) = Top(DrawOrder)
    BY <1>2 DEF DrawnIsHandled
  <2>2. QED
    BY <1>1, <1>2, TopsAgree
<1>4. ConfirmIsShown
  BY <1>1, <1>2, TopsAgree DEF MenusInv, UpdatePanels, ConfirmIsShown, Panels
<1>5. QED
  BY <1>3, <1>4 DEF PanelsObeyed, MenusInv

LEMMA ShortAKeeps ==
  ASSUME MenusInv, ShortA, wiped = "none"
  PROVE  MenusInv'
<1> DEFINE top == Top(ShortAOrder)
<1>1. open \in OpenSets /\ ShortAOrder \in Orders
  BY DEF MenusInv, MenusTyped, Orders
<1>2. /\ top = "reset" <=> "reset" \in open
      /\ top = "receive" <=> open = {"receive"}
      /\ top = "wifiMenu" <=> open = {"wifiMenu"}
      /\ top = "menu" <=> open = {"menu"}
      /\ top = "none" <=> open = {}
  BY <1>1, TopsAgree DEF Panels
<1> HIDE DEF top
<1>3. /\ Len(MenuItems) = 6 /\ Len(SettingsItems) = 11 /\ Len(ResetItems) = 3
      /\ Len(WifiItems) \in {2, 4}
  BY DEF MenuItems, SettingsItems, ResetItems, WifiItems
<1>4. /\ update' = IF top = "receive" /\ update = "confirm" THEN "running" ELSE update
      /\ sel' = IF top \in {"menu", "wifiMenu", "reset"} THEN (sel + 1) % Len(Items(top)) ELSE sel
      /\ settingsSel' = IF top = "settings" THEN (settingsSel + 1) % Len(SettingsItems) ELSE settingsSel
      /\ armed' = IF top = "reset" THEN Unarmed ELSE armed
      /\ mode' = IF top = "none" THEN NextMode ELSE mode
      /\ taps' = <<>>
      /\ UNCHANGED <<open, asking, wifi, armedFor, wiped>>
  BY DEF ShortA, Items, top
<1>5. sel \in 0..5 /\ settingsSel \in 0..10
  BY DEF MenusInv, MenusTyped
<1>6. sel' \in 0..5 /\ SelOnPanel'
  <2>1. CASE top = "menu"
    <3>1. sel' = (sel + 1) % 6
      BY <2>1, <1>3, <1>4 DEF Items
    <3>2. sel' \in 0..5
      BY <3>1, <1>5
    <3>3. open' = {"menu"}
      BY <2>1, <1>2, <1>4
    <3>4. QED
      BY <3>2, <3>3 DEF SelOnPanel
  <2>2. CASE top = "wifiMenu"
    <3>1. sel' = (sel + 1) % Len(WifiItems)
      BY <2>2, <1>4 DEF Items
    <3>2. sel' = (sel + 1) % 2 \/ sel' = (sel + 1) % 4
      BY <3>1, <1>3
    <3>4. sel' \in 0..3
      BY <3>2, <1>5
    <3>3. QED
      BY <3>4, <2>2, <1>2, <1>4 DEF SelOnPanel
  <2>3. CASE top = "reset"
    <3>1. sel' = (sel + 1) % 3
      BY <2>3, <1>3, <1>4 DEF Items
    <3>2. sel' \in 0..2
      BY <3>1, <1>5
    <3>3. QED
      BY <3>2 DEF SelOnPanel
  <2>4. CASE top \notin {"menu", "wifiMenu", "reset"}
    BY <2>4, <1>4, <1>5 DEF SelOnPanel, MenusInv
  <2>5. QED
    BY <2>1, <2>2, <2>3, <2>4
<1>7. MenusTyped'
  <2>1. settingsSel' \in 0..10
    BY <1>3, <1>4, <1>5
  <2>2. mode' \in Modes
    BY <1>4 DEF MenusInv, MenusTyped, Modes, NextMode
  <2>3. QED
    BY <2>1, <2>2, <1>4, <1>6 DEF MenusInv, MenusTyped
<1>8. UpdatePanels'
  BY <1>4 DEF MenusInv, UpdatePanels
<1>9. TapArmed' /\ ErasedOnPurpose'
  BY <1>2, <1>4 DEF TapArmed, ErasedOnPurpose
<1>10. QED
  BY <1>6, <1>7, <1>8, <1>9 DEF MenusInv

LEMMA HoldAKeeps ==
  ASSUME MenusInv, HoldA, wiped = "none"
  PROVE  MenusInv'
<1> DEFINE top == Top(LongAOrder)
<1>1. open \in OpenSets /\ LongAOrder \in Orders
  BY DEF MenusInv, MenusTyped, Orders
<1>2. /\ top \in Panels \cup {"none"}
      /\ top = "reset" => open = {"reset", "settings"}
      /\ top \in Panels \ {"reset"} => open = {top}
      /\ top = "none" => open = {}
      /\ "reset" \in open => top = "reset"
  BY <1>1, TopsAgree DEF OpenSets
<1> HIDE DEF top
<1>3. /\ taps' = <<>>
      /\ UNCHANGED <<mode, asking, wiped, settingsSel, armed, armedFor>>
  BY DEF HoldA, Keep
<1>5. ASSUME Compact PROVE UNCHANGED <<open, sel, update, wifi>>
  BY <1>5 DEF HoldA, Compact, CancelUpdate, Cancellable
<1>6. /\ open' \in OpenSets /\ "reset" \notin open' /\ sel' \in 0..5
      /\ update' \in {update, "none"}
      /\ wifi' \in {wifi, [wifi EXCEPT !.portal = FALSE]}
      /\ "wifiMenu" \in open' => sel' = 0 \/ (sel' = sel /\ open' = open)
      /\ update' = update => open' = open \/ update \notin {"confirm", "automatic"}
  <2>1. CASE Compact
    BY <2>1, <1>1, <1>5 DEF MenusInv, MenusTyped, UpdatePanels, Compact
  <2>2. CASE ~Compact /\ top = "receive"
    BY <2>2, <1>1, <1>2 DEF HoldA, top, LeaveReceive, CancelUpdate, Cancellable, UpdateActive, OpenSettings, MenusInv, MenusTyped, Panels, OpenSets
  <2>3. CASE ~Compact /\ top = "wifiStatus"
    BY <2>3, <1>1, <1>2 DEF HoldA, top, LeaveStatus, MenusInv, MenusTyped, Panels, OpenSets, UpdatePanels
  <2>4. CASE ~Compact /\ top = "wifiMenu"
    BY <2>4, <1>1, <1>2 DEF HoldA, top, OpenSettings, MenusInv, MenusTyped, Panels, OpenSets, UpdatePanels
  <2>5. CASE ~Compact /\ top \in {"reset", "settings"}
    <3>1. open' = open \ {top} /\ UNCHANGED <<sel, update, wifi>>
      BY <2>5 DEF HoldA, top
    <3>2. /\ top = "reset" => open = {"reset", "settings"}
          /\ top = "settings" => open = {"settings"}
      BY <1>2 DEF Panels
    <3>3. open' = {"settings"} \/ open' = {}
      BY <2>5, <3>1, <3>2
    <3>4. update \notin {"confirm", "automatic"}
      BY <2>5, <3>2 DEF MenusInv, UpdatePanels
    <3>5. sel \in 0..5
      BY DEF MenusInv, MenusTyped
    <3>6. QED
      BY <3>1, <3>3, <3>4, <3>5 DEF OpenSets
  <2>6. CASE ~Compact /\ top = "menu"
    BY <2>6, <1>1, <1>2 DEF HoldA, top, MenusInv, MenusTyped, Panels, OpenSets, UpdatePanels
  <2>7. CASE ~Compact /\ top = "none"
    BY <2>7, <1>1, <1>2 DEF HoldA, top, Compact, MenusInv, MenusTyped, Panels, OpenSets, UpdatePanels
  <2>8. QED
    BY <1>2, <2>1, <2>2, <2>3, <2>4, <2>5, <2>6, <2>7 DEF Panels
<1>7. MenusTyped'
  <2>1. wifi' \in [provisioned : BOOLEAN, portal : BOOLEAN]
    BY <1>6 DEF MenusInv, MenusTyped
  <2>2. QED
    BY <1>3, <1>6, <2>1 DEF MenusInv, MenusTyped
<1>8. SelOnPanel'
  BY <1>6 DEF MenusInv, SelOnPanel
<1>4. TapArmed' /\ ErasedOnPurpose'
  BY <1>3, <1>6 DEF TapArmed, ErasedOnPurpose
<1>9. UpdatePanels'
  BY <1>3, <1>6 DEF MenusInv, UpdatePanels
<1>10. QED
  BY <1>4, <1>7, <1>8, <1>9 DEF MenusInv

(* A press on the reset panel: the first tap arms, the second erases.      *)
LEMMA ResetKeeps ==
  ASSUME MenusInv, wiped = "none", open = {"reset", "settings"},
         ApplyReset(ResetItems[sel + 1])
  PROVE  MenusInv'
<1> DEFINE item == ResetItems[sel + 1]
<1>1. item \in ResetKinds
  <2>1. sel + 1 \in {1, 2, 3}
    BY DEF MenusInv, SelOnPanel
  <2>2. QED
    BY <2>1, ItemsAre DEF ResetKinds
<1>2. ApplyReset(item)
  OBVIOUS
<1> HIDE DEF item
<1>3. UNCHANGED <<mode, sel, settingsSel, asking, update, wifi>>
  BY <1>2 DEF ApplyReset
<1>4. CASE item = "back"
  <2>1. open' = {"settings"} /\ UNCHANGED <<armed, armedFor, wiped, taps>>
    BY <1>2, <1>4 DEF ApplyReset
  <2>2. MenusTyped'
    BY <1>3, <2>1 DEF MenusInv, MenusTyped, OpenSets
  <2>3. SelOnPanel' /\ UpdatePanels' /\ TapArmed' /\ ErasedOnPurpose'
    BY <1>3, <2>1 DEF MenusInv, SelOnPanel, UpdatePanels, TapArmed, ErasedOnPurpose
  <2>4. QED
    BY <2>2, <2>3 DEF MenusInv
<1>5. CASE item # "back" /\ ~Confirmed(item)
  <2>1. /\ armed' = item /\ armedFor' = ResetWindow
        /\ taps' = <<[item |-> item, age |-> 0]>>
        /\ UNCHANGED <<open, wiped>>
    BY <1>2, <1>5 DEF ApplyReset
  <2>2. ResetWindow \in Nat
    BY MenusAssumption
  <2>3. MenusTyped'
    BY <1>1, <1>3, <2>1, <2>2 DEF MenusInv, MenusTyped
  <2>4. taps' = <<[item |-> armed', age |-> ResetWindow - armedFor']>>
    BY <2>1, <2>2
  <2>5. SelOnPanel' /\ UpdatePanels' /\ TapArmed' /\ ErasedOnPurpose'
    BY <1>3, <2>1, <2>4 DEF MenusInv, SelOnPanel, UpdatePanels, TapArmed, ErasedOnPurpose
  <2>6. QED
    BY <2>3, <2>5 DEF MenusInv
<1>6. CASE item # "back" /\ Confirmed(item)
  <2>1. /\ wiped' = item /\ taps' = Append(taps, [item |-> item, age |-> 0])
        /\ UNCHANGED <<open, armed, armedFor>>
    BY <1>2, <1>6 DEF ApplyReset
  <2>2. armed = item /\ armedFor > 0
    BY <1>6 DEF Confirmed
  <2>3. taps = <<[item |-> item, age |-> ResetWindow - armedFor]>>
    <3>1. armed # Unarmed
      BY <1>1, <2>2 DEF ResetKinds, Unarmed
    <3>2. QED
      BY <2>2, <3>1 DEF MenusInv, TapArmed
  <2>4. /\ Len(taps') = 2
        /\ taps'[1].item = item /\ taps'[1].age = ResetWindow - armedFor
        /\ taps'[2].item = item
    <3>1. \A x, y : Len(Append(<<x>>, y)) = 2 /\ Append(<<x>>, y)[1] = x /\ Append(<<x>>, y)[2] = y
      OBVIOUS
    <3>2. QED
      BY <2>1, <2>3, <3>1
  <2>5. ResetWindow \in Nat /\ armedFor \in 0..ResetWindow
    BY MenusAssumption DEF MenusInv, MenusTyped
  <2>6. ErasedOnPurpose'
    BY <2>1, <2>2, <2>4, <2>5 DEF ErasedOnPurpose
  <2>7. MenusTyped'
    BY <1>1, <1>3, <2>1 DEF MenusInv, MenusTyped
  <2>8. wiped' # "none"
    BY <1>1, <2>1 DEF ResetKinds
  <2>9. SelOnPanel' /\ UpdatePanels' /\ TapArmed'
    BY <1>3, <2>1, <2>8 DEF MenusInv, SelOnPanel, UpdatePanels, TapArmed
  <2>10. QED
    BY <2>6, <2>7, <2>9 DEF MenusInv
<1>7. QED
  BY <1>4, <1>5, <1>6

LEMMA SettingKeeps ==
  ASSUME MenusInv, wiped = "none", open = {"settings"}, NEW item, ApplySetting(item)
  PROVE  MenusInv'
<1>1. /\ UNCHANGED <<mode, asking, wiped, settingsSel, wifi, armedFor, taps>>
      /\ armed' = IF item = "reset" THEN Unarmed ELSE armed
      /\ sel' = IF open' = open THEN sel ELSE 0
      /\ update' = IF "receive" \in open' \ open /\ update = "none" THEN "window" ELSE update
  BY DEF ApplySetting, Keep
<1>2. open' \in {{"wifiMenu"}, {"receive"}, {"reset", "settings"}, {}, {"settings"}}
  BY DEF ApplySetting
<1>3. item # "reset" => "reset" \notin open'
  BY DEF ApplySetting
<1>4. open' \in OpenSets
  BY <1>2 DEF OpenSets
<1>5. MenusTyped'
  BY <1>1, <1>4 DEF MenusInv, MenusTyped
<1>6. update' \notin {"confirm", "automatic"}
  BY <1>1 DEF MenusInv, UpdatePanels
<1>7. SelOnPanel' /\ UpdatePanels'
  BY <1>1, <1>6 DEF MenusInv, SelOnPanel, UpdatePanels
<1>8. TapArmed' /\ ErasedOnPurpose'
  BY <1>1, <1>3 DEF TapArmed, ErasedOnPurpose
<1>9. QED
  BY <1>5, <1>7, <1>8 DEF MenusInv

LEMMA ClickBKeeps ==
  ASSUME MenusInv, ClickB, wiped = "none"
  PROVE  MenusInv'
<1> DEFINE top == Top(BOrder)
<1>1. open \in OpenSets /\ BOrder \in Orders
  BY DEF MenusInv, MenusTyped, Orders
<1>2. /\ top \in Panels \cup {"none"}
      /\ top = "reset" => open = {"reset", "settings"}
      /\ top \in Panels \ {"reset"} => open = {top}
      /\ top = "none" => open = {}
  BY <1>1, TopsAgree DEF OpenSets
<1> HIDE DEF top
<1>3. CASE Compact
  <2>1. UNCHANGED menuVars
    BY <1>3 DEF ClickB, Compact, CancelUpdate, Cancellable, Keep, menuVars
  <2>2. QED
    BY <2>1 DEF menuVars, MenusInv, MenusTyped, SelOnPanel, UpdatePanels, TapArmed, ErasedOnPurpose
<1>4. CASE ~Compact /\ top = "receive"
  <2>1. LeaveReceive /\ UNCHANGED <<mode, asking, wiped, sel, settingsSel, wifi, armed, armedFor, taps>>
    BY <1>4 DEF ClickB, top, Keep
  <2>2. open = {"receive"}
    BY <1>2, <1>4 DEF Panels
  <2>3. \/ open' = open /\ update' \in {"none", "committed", "automatic"}
        \/ open' = {"settings"} /\ update' = "none"
    BY <2>1, <2>2 DEF LeaveReceive, CancelUpdate, Cancellable, UpdateActive, OpenSettings
  <2>4. update' # "automatic"
    BY <2>1, <2>2, <2>3 DEF LeaveReceive, CancelUpdate, MenusInv, UpdatePanels
  <2>5. MenusTyped'
    BY <2>1, <2>2, <2>3 DEF MenusInv, MenusTyped, OpenSets
  <2>6. SelOnPanel' /\ UpdatePanels' /\ TapArmed' /\ ErasedOnPurpose'
    BY <2>1, <2>2, <2>3, <2>4 DEF MenusInv, SelOnPanel, UpdatePanels, TapArmed, ErasedOnPurpose
  <2>7. QED
    BY <2>5, <2>6 DEF MenusInv
<1>5. CASE ~Compact /\ top = "wifiStatus"
  <2>1. LeaveStatus /\ UNCHANGED <<mode, asking, wiped, settingsSel, update, armed, armedFor, taps>>
    BY <1>5 DEF ClickB, top, Keep
  <2>2. open = {"wifiStatus"}
    BY <1>2, <1>5 DEF Panels
  <2>3. open' = {"wifiMenu"} /\ sel' = 0 /\ wifi' = [wifi EXCEPT !.portal = FALSE]
    BY <2>1, <2>2 DEF LeaveStatus
  <2>4. wifi' \in [provisioned : BOOLEAN, portal : BOOLEAN]
    BY <2>3 DEF MenusInv, MenusTyped
  <2>5. MenusTyped'
    BY <2>1, <2>3, <2>4 DEF MenusInv, MenusTyped, OpenSets
  <2>6. SelOnPanel' /\ UpdatePanels' /\ TapArmed' /\ ErasedOnPurpose'
    BY <2>1, <2>2, <2>3 DEF MenusInv, SelOnPanel, UpdatePanels, TapArmed, ErasedOnPurpose
  <2>7. QED
    BY <2>5, <2>6 DEF MenusInv
<1>6. CASE ~Compact /\ top = "wifiMenu"
  <2>1. PICK item \in {WifiItems[sel + 1]} : ApplyWifiMenu(item)
    BY <1>6 DEF ClickB, top
  <2>2. open = {"wifiMenu"}
    BY <1>2, <1>6 DEF Panels
  <2>3. /\ UNCHANGED <<mode, asking, wiped, sel, settingsSel, update, armed, armedFor, taps>>
        /\ open' = {"settings"} \/ open' = {"wifiStatus"}
    BY <2>1, <2>2 DEF ApplyWifiMenu, Keep
  <2>4. wifi' \in [provisioned : BOOLEAN, portal : BOOLEAN]
    BY <2>1 DEF ApplyWifiMenu, MenusInv, MenusTyped
  <2>5. MenusTyped'
    BY <2>3, <2>4 DEF MenusInv, MenusTyped, OpenSets
  <2>6. SelOnPanel' /\ UpdatePanels' /\ TapArmed' /\ ErasedOnPurpose'
    BY <2>2, <2>3 DEF MenusInv, SelOnPanel, UpdatePanels, TapArmed, ErasedOnPurpose
  <2>7. QED
    BY <2>5, <2>6 DEF MenusInv
<1>7. CASE ~Compact /\ top = "reset"
  BY <1>2, <1>7, ResetKeeps DEF ClickB, top
<1>8. CASE ~Compact /\ top = "settings"
  <2>1. open = {"settings"}
    BY <1>2, <1>8 DEF Panels
  <2>2. QED
    BY <1>8, <2>1, SettingKeeps DEF ClickB, top
<1>9. CASE ~Compact /\ top = "menu"
  <2>1. PICK item \in {MenuItems[sel + 1]} : MenuConfirm(item)
    BY <1>9 DEF ClickB, top
  <2>2. open = {"menu"}
    BY <1>2, <1>9 DEF Panels
  <2>3. item \in {"settings", "turn off", "help", "about", "demo", "close"}
    <3>1. sel + 1 \in {1, 2, 3, 4, 5, 6}
      BY DEF MenusInv, MenusTyped
    <3>2. QED
      BY <2>1, <3>1, ItemsAre
  <2>4. /\ UNCHANGED <<sel, asking, update, wifi, armed, armedFor, wiped, taps>>
        /\ open' \in {{"settings"}, {}, {"menu"}}
        /\ mode' \in {"info", mode} /\ settingsSel' \in {0, settingsSel}
    BY <2>1, <2>2, <2>3 DEF MenuConfirm
  <2>5. MenusTyped'
    BY <2>4 DEF MenusInv, MenusTyped, OpenSets, Modes
  <2>6. SelOnPanel' /\ UpdatePanels' /\ TapArmed' /\ ErasedOnPurpose'
    BY <2>2, <2>4 DEF MenusInv, SelOnPanel, UpdatePanels, TapArmed, ErasedOnPurpose
  <2>7. QED
    BY <2>5, <2>6 DEF MenusInv
<1>10. ~Compact => top # "none"
  BY <1>2 DEF ClickB
<1>11. QED
  BY <1>2, <1>3, <1>4, <1>5, <1>6, <1>7, <1>8, <1>9, <1>10 DEF Panels

LEMMA MeanwhileKeeps ==
  ASSUME MenusInv, wiped = "none",
         PromptComes \/ PromptGoes \/ OfferComes \/ UpdateGoesOn \/ ReceiveOver \/ WifiChanges \/ ResetTick
  PROVE  MenusInv'
<1> USE DEF MenusInv
<1>1. CASE PromptComes
  <2>1. MenusTyped'
    <3>1. open' \in OpenSets
      BY <1>1 DEF PromptComes, MenusTyped, OpenSets
    <3>2. QED
      BY <1>1, <3>1 DEF PromptComes, MenusTyped, Modes
  <2>2. SelOnPanel' /\ UpdatePanels'
    BY <1>1 DEF PromptComes, SelOnPanel, UpdatePanels
  <2>3. TapArmed' /\ ErasedOnPurpose'
    BY <1>1 DEF PromptComes, TapArmed, ErasedOnPurpose
  <2>4. QED
    BY <2>1, <2>2, <2>3
<1>2. CASE PromptGoes
  <2>1. MenusTyped'
    BY <1>2 DEF PromptGoes, MenusTyped
  <2>2. QED
    BY <1>2, <2>1 DEF PromptGoes, SelOnPanel, UpdatePanels, TapArmed, ErasedOnPurpose
<1>3. CASE OfferComes
  <2>1. MenusTyped'
    BY <1>3 DEF OfferComes, MenusTyped, Modes, OpenSets
  <2>2. SelOnPanel' /\ TapArmed' /\ ErasedOnPurpose'
    BY <1>3 DEF OfferComes, SelOnPanel, TapArmed, ErasedOnPurpose
  <2>3. UpdatePanels'
    BY <1>3 DEF OfferComes, UpdatePanels, UpdateActive
  <2>4. QED
    BY <2>1, <2>2, <2>3
<1>4. CASE UpdateGoesOn
  <2>1. MenusTyped'
    BY <1>4 DEF UpdateGoesOn, MenusTyped
  <2>2. QED
    BY <1>4, <2>1 DEF UpdateGoesOn, SelOnPanel, UpdatePanels, TapArmed, ErasedOnPurpose
<1>5. CASE ReceiveOver
  <2>1. MenusTyped'
    BY <1>5 DEF ReceiveOver, Keep, MenusTyped, OpenSets
  <2>2. QED
    BY <1>5, <2>1 DEF ReceiveOver, Keep, SelOnPanel, UpdatePanels, TapArmed, ErasedOnPurpose, MenusTyped, OpenSets
<1>6. CASE WifiChanges
  <2>1. wifi' \in [provisioned : BOOLEAN, portal : BOOLEAN]
    <3>1. wifi' = [provisioned |-> TRUE, portal |-> FALSE] \/ wifi' = [provisioned |-> FALSE, portal |-> FALSE]
      BY <1>6 DEF WifiChanges
    <3>2. QED
      BY <3>1, WifiFlags
  <2>2. MenusTyped'
    BY <1>6, <2>1 DEF WifiChanges, MenusTyped
  <2>3. QED
    BY <1>6, <2>2 DEF WifiChanges, SelOnPanel, UpdatePanels, TapArmed, ErasedOnPurpose
<1>7. CASE ResetTick
  <2>1. /\ armedFor \in 0..ResetWindow /\ ResetWindow \in Nat /\ armedFor > 0
        /\ armedFor' = armedFor - 1
        /\ taps' = [i \in DOMAIN taps |-> [taps[i] EXCEPT !.age = @ + 1]]
        /\ UNCHANGED <<mode, asking, wiped, open, sel, settingsSel, update, wifi, armed>>
    BY <1>7, MenusAssumption DEF ResetTick, Keep, MenusTyped
  <2>2. MenusTyped'
    BY <2>1 DEF MenusTyped
  <2>3. TapArmed'
    <3>1. SUFFICES ASSUME "reset" \in open, armed # Unarmed
                   PROVE  taps' = <<[item |-> armed, age |-> ResetWindow - armedFor']>>
      BY <2>1 DEF TapArmed
    <3>2. taps = <<[item |-> armed, age |-> ResetWindow - armedFor]>>
      BY <2>1, <3>1 DEF TapArmed
    <3>3. taps' = <<[taps[1] EXCEPT !.age = @ + 1]>>
      BY <2>1, <3>2
    <3>4. QED
      BY <2>1, <3>2, <3>3
  <2>4. QED
    BY <2>1, <2>2, <2>3 DEF SelOnPanel, UpdatePanels, ErasedOnPurpose
<1>8. QED
  BY <1>1, <1>2, <1>3, <1>4, <1>5, <1>6, <1>7

LEMMA RestartKeeps ==
  ASSUME MenusInv, RestartAfterReset
  PROVE  MenusInv'
<1>1. MenusTyped'
  <2>1. (wifi.provisioned /\ wiped # "factory reset") \in BOOLEAN
    OBVIOUS
  <2>2. wifi' \in [provisioned : BOOLEAN, portal : BOOLEAN]
    BY <2>1, WifiFlags DEF RestartAfterReset
  <2>3. 0 \in 0..ResetWindow
    BY MenusAssumption
  <2>4. /\ wiped' = "none" /\ mode' = "normal" /\ open' = {} /\ sel' = 0 /\ settingsSel' = 0
        /\ asking' = "no" /\ update' = "none" /\ armed' = Unarmed /\ armedFor' = 0
    BY DEF RestartAfterReset
  <2>5. QED
    BY <2>2, <2>3, <2>4 DEF MenusTyped, Modes, OpenSets
<1>2. SelOnPanel' /\ UpdatePanels' /\ TapArmed' /\ ErasedOnPurpose'
  BY DEF RestartAfterReset, SelOnPanel, UpdatePanels, TapArmed, ErasedOnPurpose
<1>3. QED
  BY <1>1, <1>2 DEF MenusInv

LEMMA MenusHold == MenusSpec => []MenusInv
<1>1. MenusInit => MenusInv
  <2>1. MenusInit => MenusTyped
    <3>1. MenusInit => wifi \in [provisioned : BOOLEAN, portal : BOOLEAN]
      BY DEF MenusInit
    <3>2. 0 \in 0..ResetWindow
      BY MenusAssumption
    <3>3. QED
      BY <3>1, <3>2 DEF MenusInit, MenusTyped, Modes, OpenSets
  <2>2. MenusInit => SelOnPanel /\ UpdatePanels /\ TapArmed /\ ErasedOnPurpose
    BY DEF MenusInit, SelOnPanel, UpdatePanels, TapArmed, ErasedOnPurpose
  <2>3. QED
    BY <2>1, <2>2 DEF MenusInv
<1>2. MenusInv /\ [MenusNext]_menuVars => MenusInv'
  <2>1. ASSUME MenusInv, MenusNext PROVE MenusInv'
    BY <2>1, ShortAKeeps, HoldAKeeps, ClickBKeeps, MeanwhileKeeps, RestartKeeps DEF MenusNext
  <2>2. ASSUME MenusInv, UNCHANGED menuVars PROVE MenusInv'
    BY <2>2 DEF menuVars, MenusInv, MenusTyped, SelOnPanel, UpdatePanels, TapArmed, ErasedOnPurpose
  <2>3. QED
    BY <2>1, <2>2
<1>3. QED
  BY <1>1, <1>2, PTL DEF MenusSpec

(* What a button does is what the screen says it does, in every combination *)
(* of panels that can be open, and nothing is erased but on purpose        *)
(* (loop, main.cpp 2613-2818; menuConfirm, applySetting, applyReset).      *)
THEOREM MenusAreObeyed == MenusSpec => []PanelsObeyed
BY MenusHold, MenusInvHolds, PTL

--------------------------------------------------------------------------------
(***************************************************************************)
(* Division, and induction up to a number.                                 *)
(***************************************************************************)
LEMMA ProductGrows ==
  ASSUME NEW m \in Nat \ {0}, NEW p \in Int, NEW q \in Int, p < q
  PROVE  m * p + m <= m * q
<1>1. q - p - 1 \in Nat
  OBVIOUS
<1>2. m * (q - p - 1) >= 0
  BY <1>1
<1>3. m * (q - p - 1) = m * q - m * p - m
  OBVIOUS
<1>4. m * p \in Int /\ m * q \in Int
  OBVIOUS
<1>5. QED
  BY <1>2, <1>3, <1>4

LEMMA Division ==
  ASSUME NEW m \in Nat \ {0}, NEW a \in Int
  PROVE  a = m * (a \div m) + (a % m) /\ (a % m) \in 0..(m - 1) /\ (a \div m) \in Int
OBVIOUS

LEMMA Remainder ==
  ASSUME NEW m \in Nat \ {0}, NEW a \in Int, NEW q \in Int, NEW r \in 0..(m - 1), a = m * q + r
  PROVE  a % m = r
<1> DEFINE p == a \div m
           s == a % m
<1>1. a = m * p + s /\ s \in 0..(m - 1) /\ p \in Int
  BY Division
<1> HIDE DEF p, s
<1>2. m * p \in Int /\ m * q \in Int
  BY <1>1
<1>3. ~(p < q)
  BY <1>1, <1>2, ProductGrows
<1>4. ~(q < p)
  BY <1>1, <1>2, ProductGrows
<1>5. p = q
  BY <1>1, <1>3, <1>4
<1>6. s = r
  BY <1>1, <1>2, <1>5
<1>7. QED
  BY <1>6 DEF s

(* A set with 0 and the successor of each of its numbers below m has all up to m. *)
LEMMA UpTo ==
  ASSUME NEW m \in Nat, NEW S, 0 \in S, \A n \in 0..(m - 1) : n \in S => n + 1 \in S
  PROVE  0..m \subseteq S
<1> DEFINE T == {n \in 0..m : n \notin S}
<1>1. SUFFICES ASSUME T # {}
               PROVE  FALSE
  OBVIOUS
<1>2. T \subseteq Nat
  OBVIOUS
<1>3. PICK x \in T : \A y \in T : ~(<<y, x>> \in OpToRel(<, Nat))
  <2> HIDE DEF T
  <2>1. QED
    BY ONLY <1>1, <1>2, NatLessThanWellFounded, WFMin
<1>4. \A y \in T : ~(y < x)
  BY <1>2, <1>3 DEF OpToRel
<1>5. x \in 0..m /\ x # 0 /\ x \notin S
  OBVIOUS
<1>6. x - 1 \in 0..(m - 1) /\ x - 1 \in 0..m /\ x - 1 < x /\ (x - 1) + 1 = x
  BY <1>5
<1>7. x - 1 \in S
  BY <1>4, <1>6
<1>8. QED
  BY <1>5, <1>6, <1>7

--------------------------------------------------------------------------------
(***************************************************************************)
(* The turning of the display.                                             *)
(***************************************************************************)

OrientTyped ==
  /\ orient \in [turn : Orientations, stable : Orientations \cup {Unsettled}, frames : Int,
                 swaps : Int, resolved : BOOLEAN]
  /\ lock \in Locks /\ eligible \in BOOLEAN /\ asked \in 0..15

(* The counter of a surface that may turn has gone no further than it was  *)
(* asked to, and not as far as would have turned it.                       *)
CounterIsEarned ==
  eligible /\ orient.resolved /\ lock = 0 =>
    IF Upright(orient) THEN orient.frames < 15 /\ orient.frames <= asked
    ELSE orient.frames > -8 /\ orient.frames >= -asked

OrientInv == OrientTyped /\ DrawnAsSettled /\ CounterIsEarned

(* An orientation before or after a sample.                                *)
OrientFine(o) ==
  /\ o \in [turn : Orientations, stable : Orientations \cup {Unsettled}, frames : -10..20,
            swaps : 0..7, resolved : BOOLEAN]
  /\ o.resolved => o.stable = o.turn

LEMMA SampleEnds ==
  ASSUME NEW s \in Samples
  PROVE  s.end \in {1, 3} /\ s.along \in {"weak", "half", "most", "across", "flat"}
BY DEF Samples

OrientKind == [turn : Orientations, stable : Orientations \cup {Unsettled}, frames : -10..20,
               swaps : 0..7, resolved : BOOLEAN]

LEMMA SettleRests ==
  ASSUME NEW o \in OrientKind
  PROVE  /\ Settle(o) \in OrientKind /\ Settle(o).frames = 0 /\ Settle(o).turn = o.turn
         /\ Settle(o).stable = o.stable /\ Settle(o).resolved = o.resolved
<1> DEFINE r == Settle(o)
<1>0. r = [o EXCEPT !.frames = 0, !.swaps = 0]
  BY DEF Settle
<1> HIDE DEF r
<1>1. r \in OrientKind
  <2> DEFINE F == -10..20
             W == 0..7
             S == Orientations \cup {Unsettled}
  <2>1. 0 \in F /\ 0 \in W /\ o \in [turn : Orientations, stable : S, frames : F, swaps : W, resolved : BOOLEAN]
    BY DEF OrientKind
  <2> HIDE DEF F, W, S
  <2>2. r \in [turn : Orientations, stable : S, frames : F, swaps : W, resolved : BOOLEAN]
    BY <1>0, <2>1
  <2>3. QED
    BY <2>2 DEF OrientKind, F, W, S
<1>2. r.frames = 0 /\ r.turn = o.turn /\ r.stable = o.stable
  BY <1>0 DEF OrientKind
<1>3. r.resolved = o.resolved
  BY <1>0 DEF OrientKind
<1>4. QED
  BY <1>2, <1>1, <1>3 DEF r

LEMMA RememberTurns ==
  ASSUME NEW o \in OrientKind, NEW t \in Orientations
  PROVE  /\ Remember(o, t) \in OrientKind /\ Remember(o, t).turn = t /\ Remember(o, t).stable = t
         /\ Remember(o, t).resolved /\ Remember(o, t).frames = o.frames
<1> DEFINE r == Remember(o, t)
<1>1. r = [o EXCEPT !.turn = t, !.stable = t, !.resolved = TRUE]
  BY DEF Remember
<1> HIDE DEF r
<1>2. r \in OrientKind /\ r.turn = t /\ r.stable = t /\ r.resolved = TRUE /\ r.frames = o.frames
  BY <1>1 DEF OrientKind
<1>3. QED
  BY <1>2 DEF r

(* A surface that is new or locked is turned at once, with its counters    *)
(* at rest, or waits for a better sample.                                  *)
LEMMA ResolveSettles ==
  ASSUME NEW o, OrientFine(o), NEW s \in Samples
  PROVE  /\ OrientFine(Resolve(o, s))
         /\ Resolve(o, s).resolved => Resolve(o, s).frames = 0
<1>1. s.end \in Orientations /\ 0 \in Orientations /\ o.turn \in Orientations /\ o \in OrientKind
  BY SampleEnds DEF Orientations, OrientFine, OrientKind
<1>2. ASSUME NEW t \in Orientations
      PROVE  /\ OrientFine(Settle(Remember(o, t))) /\ Settle(Remember(o, t)).frames = 0
  BY <1>1, <1>2, RememberTurns, SettleRests DEF OrientFine, OrientKind
<1>3. ASSUME o.stable # Unsettled
      PROVE  /\ OrientFine(Settle([o EXCEPT !.turn = o.stable, !.resolved = TRUE]))
             /\ Settle([o EXCEPT !.turn = o.stable, !.resolved = TRUE]).frames = 0
  <2> DEFINE r == [o EXCEPT !.turn = o.stable, !.resolved = TRUE]
  <2>1. o.stable \in Orientations
    BY <1>1, <1>3 DEF OrientKind
  <2>2. r \in OrientKind /\ r.turn = r.stable
    <3>1. r = [o EXCEPT !.turn = o.stable, !.resolved = TRUE]
      OBVIOUS
    <3> HIDE DEF r
    <3>2. QED
      BY <1>1, <2>1, <3>1 DEF OrientKind
  <2> HIDE DEF r
  <2>3. OrientFine(Settle(r)) /\ Settle(r).frames = 0
    BY <2>2, SettleRests DEF OrientFine, OrientKind
  <2>4. QED
    BY <2>3 DEF r
<1>4. OrientFine([o EXCEPT !.resolved = FALSE]) /\ ~[o EXCEPT !.resolved = FALSE].resolved
  BY DEF OrientFine
<1> DEFINE t2 == IF s.along \in {"half", "most"} \/ o.turn = 0 THEN s.end ELSE o.turn
<1>5. t2 \in Orientations
  BY <1>1
<1>6. \/ Resolve(o, s) = Settle(Remember(o, 0))
      \/ Resolve(o, s) = Settle(Remember(o, t2))
      \/ Resolve(o, s) = Settle(Remember(o, s.end))
      \/ o.stable # Unsettled /\ Resolve(o, s) = Settle([o EXCEPT !.turn = o.stable, !.resolved = TRUE])
      \/ Resolve(o, s) = [o EXCEPT !.resolved = FALSE]
  BY DEF Resolve
<1> HIDE DEF t2
<1>7. QED
  BY <1>1, <1>2, <1>3, <1>4, <1>5, <1>6

LEMMA BeginFine ==
  ASSUME OrientFine(orient)
  PROVE  OrientFine(BeginSurface(orient)) /\ ~BeginSurface(orient).resolved
<1> DEFINE t == IF orient.stable = Unsettled THEN orient.turn ELSE orient.stable
           r == Settle(orient)
           n == BeginSurface(orient)
<1>1. t \in Orientations /\ orient \in OrientKind
  BY DEF OrientFine, OrientKind
<1>2. r \in OrientKind
  BY <1>1, SettleRests
<1>3. n = [r EXCEPT !.resolved = FALSE, !.turn = t]
  BY DEF BeginSurface
<1> HIDE DEF t, r, n
<1>4. n \in OrientKind /\ n.resolved = FALSE
  BY <1>1, <1>2, <1>3 DEF OrientKind
<1>5. QED
  BY <1>4 DEF n, OrientFine, OrientKind

(* One that is free to turn counts the sample, and turns when it has       *)
(* counted enough.                                                         *)
LEMMA FollowCounts ==
  ASSUME NEW o, OrientFine(o), o.resolved, NEW s \in Samples
  PROVE  LET n == Follow(o, s)
             f == IF Sideways(o, s) THEN (IF o.frames < 20 THEN o.frames + 1 ELSE o.frames)
                  ELSE (IF o.frames > -10 THEN o.frames - 1 ELSE o.frames)
         IN  /\ OrientFine(n) /\ n.resolved /\ n.frames = f
             /\ Upright(o) => (Upright(n) <=> f < 15)
             /\ ~Upright(o) => (Upright(n) <=> f <= -8)
<1> DEFINE f == IF Sideways(o, s) THEN (IF o.frames < 20 THEN o.frames + 1 ELSE o.frames)
                ELSE (IF o.frames > -10 THEN o.frames - 1 ELSE o.frames)
           c == [o EXCEPT !.frames = f]
<1>1. Counted(o, s) = c
  BY DEF Counted
<1>2. f \in -10..20
  BY DEF OrientFine
<1>3. s.end \in {1, 3}
  BY SampleEnds
<1>4. Follow(o, s) = IF o.turn = 0 /\ c.frames >= 15 THEN Remember(c, s.end)
                     ELSE IF o.turn # 0 /\ c.frames <= -8 THEN Remember(c, 0)
                     ELSE IF o.turn # 0 /\ Sideways(o, s) THEN Swapped(c, s)
                     ELSE c
  BY <1>1 DEF Follow
<1> HIDE DEF f
<1>5. /\ OrientFine(c) /\ c.resolved /\ c.frames = f /\ c.turn = o.turn /\ c.swaps = o.swaps
  BY <1>2 DEF OrientFine
<1> HIDE DEF c
<1>6. ASSUME NEW t \in Orientations
      PROVE  OrientFine(Remember(c, t)) /\ Remember(c, t).resolved /\ Remember(c, t).frames = f
             /\ Remember(c, t).turn = t
  BY <1>5, <1>6, RememberTurns DEF OrientFine, OrientKind
<1>7. c.turn # 0 =>
        /\ OrientFine(Swapped(c, s)) /\ Swapped(c, s).resolved /\ Swapped(c, s).frames = f
        /\ Swapped(c, s).turn # 0
  <2>1. SUFFICES ASSUME c.turn # 0
                 PROVE  /\ OrientFine(Swapped(c, s)) /\ Swapped(c, s).resolved /\ Swapped(c, s).frames = f
                        /\ Swapped(c, s).turn # 0
    OBVIOUS
  <2>2. CASE s.end = c.turn
    BY <1>5, <2>1, <2>2 DEF Swapped, OrientFine
  <2>3. CASE s.end # c.turn /\ c.swaps + 1 >= 8
    <3> DEFINE r == Remember(c, s.end)
    <3>1. OrientFine(r) /\ r.resolved /\ r.frames = f /\ r.turn = s.end
      BY <1>3, <1>6 DEF Orientations
    <3>2. Swapped(c, s) = [r EXCEPT !.swaps = 0]
      BY <2>3 DEF Swapped
    <3> HIDE DEF r
    <3>3. QED
      BY <1>3, <3>1, <3>2 DEF OrientFine
  <2>4. CASE s.end # c.turn /\ ~(c.swaps + 1 >= 8)
    <3>1. c.swaps + 1 \in 0..7
      BY <1>5, <2>4 DEF OrientFine
    <3>2. Swapped(c, s) = [c EXCEPT !.swaps = c.swaps + 1]
      BY <2>4 DEF Swapped
    <3>3. QED
      BY <1>5, <2>1, <3>1, <3>2 DEF OrientFine
  <2>5. QED
    BY <2>2, <2>3, <2>4
<1>8. OrientFine(Follow(o, s)) /\ Follow(o, s).resolved /\ Follow(o, s).frames = f
  BY <1>3, <1>4, <1>5, <1>6, <1>7 DEF Orientations
<1>9. /\ Upright(o) => (Upright(Follow(o, s)) <=> f < 15)
      /\ ~Upright(o) => (Upright(Follow(o, s)) <=> f <= -8)
  BY <1>2, <1>3, <1>4, <1>5, <1>6, <1>7 DEF Upright, Orientations
<1>10. QED
  BY <1>8, <1>9 DEF f

LEMMA OrientIsFine == OrientInv => OrientFine(orient)
BY DEF OrientInv, OrientTyped, DrawnAsSettled, OrientFine

(* One frame.                                                              *)
LEMMA SampleKeeps ==
  ASSUME OrientInv, Sample
  PROVE  /\ OrientInv'
         /\ eligible /\ eligible' /\ orient.resolved /\ lock = 0 /\ Upright(orient') # Upright(orient)
              => asked >= (IF Upright(orient) THEN 14 ELSE 7)
<1>1. PICK on \in BOOLEAN, s \in Samples :
        LET entered == on /\ ~eligible
            o == IF entered THEN BeginSurface(orient) ELSE orient
        IN  /\ eligible' = on
            /\ orient' = IF on THEN Update(o, s) ELSE o
            /\ UNCHANGED lock
            /\ asked' = IF ~on \/ entered \/ ~orient.resolved \/ lock # 0 \/ Upright(orient') # Upright(orient)
                        THEN 0
                        ELSE IF AsksFor(orient, s) /\ asked < 15 THEN asked + 1 ELSE asked
  BY DEF Sample
<1>2. OrientFine(orient) /\ asked \in 0..15 /\ lock \in Locks
  BY OrientIsFine DEF OrientInv, OrientTyped
<1>3. asked' \in 0..15
  BY <1>1, <1>2
<1>4. SUFFICES /\ OrientFine(orient') /\ CounterIsEarned'
               /\ eligible /\ eligible' /\ orient.resolved /\ lock = 0 /\ Upright(orient') # Upright(orient)
                    => asked >= (IF Upright(orient) THEN 14 ELSE 7)
  BY <1>1, <1>2, <1>3 DEF OrientInv, OrientTyped, DrawnAsSettled, OrientFine
<1>5. CASE ~on
  BY <1>1, <1>2, <1>5 DEF CounterIsEarned
<1>6. CASE on /\ ~eligible
  <2> DEFINE o == BeginSurface(orient)
  <2>1. OrientFine(o) /\ ~o.resolved
    BY <1>2, BeginFine
  <2>2. orient' = Resolve(o, s) /\ asked' = 0
    BY <1>1, <1>6, <2>1 DEF Update
  <2> HIDE DEF o
  <2>3. OrientFine(orient') /\ (orient'.resolved => orient'.frames = 0)
    BY <2>1, <2>2, ResolveSettles
  <2>4. QED
    BY <1>6, <2>2, <2>3 DEF CounterIsEarned
<1>7. CASE on /\ eligible /\ (~orient.resolved \/ lock # 0)
  <2>1. orient' = Resolve(orient, s) /\ asked' = 0 /\ lock' = lock
    BY <1>1, <1>7 DEF Update
  <2>2. OrientFine(orient') /\ (orient'.resolved => orient'.frames = 0)
    BY <1>2, <2>1, ResolveSettles
  <2>3. QED
    BY <1>7, <2>1, <2>2 DEF CounterIsEarned
<1>8. CASE on /\ eligible /\ orient.resolved /\ lock = 0
  <2> DEFINE f == IF Sideways(orient, s) THEN (IF orient.frames < 20 THEN orient.frames + 1 ELSE orient.frames)
                  ELSE (IF orient.frames > -10 THEN orient.frames - 1 ELSE orient.frames)
  <2>0. /\ orient' = Follow(orient, s) /\ lock' = lock
        /\ asked' = IF Upright(orient') # Upright(orient) THEN 0
                    ELSE IF AsksFor(orient, s) /\ asked < 15 THEN asked + 1 ELSE asked
    BY <1>1, <1>8 DEF Update
  <2>1. /\ OrientFine(orient') /\ orient'.resolved /\ orient'.frames = f
        /\ Upright(orient) => (Upright(orient') <=> f < 15)
        /\ ~Upright(orient) => (Upright(orient') <=> f <= -8)
    BY <1>2, <1>8, <2>0, FollowCounts
  <2>2. IF Upright(orient) THEN orient.frames < 15 /\ orient.frames <= asked
        ELSE orient.frames > -8 /\ orient.frames >= -asked
    BY <1>8 DEF OrientInv, CounterIsEarned
  <2>3. orient.frames \in -10..20
    BY <1>2 DEF OrientFine
  <2>4. AsksFor(orient, s) <=> IF Upright(orient) THEN Sideways(orient, s) ELSE ~Sideways(orient, s)
    BY DEF AsksFor
  <2> DEFINE more == IF asked < 15 THEN asked + 1 ELSE asked
  <2>5. /\ Upright(orient) /\ ~Upright(orient') => asked' = 0
        /\ ~Upright(orient) /\ Upright(orient') => asked' = 0
        /\ Upright(orient) /\ Upright(orient') =>
             /\ Sideways(orient, s) => asked' = more
             /\ ~Sideways(orient, s) => asked' = asked
        /\ ~Upright(orient) /\ ~Upright(orient') =>
             /\ ~Sideways(orient, s) => asked' = more
             /\ Sideways(orient, s) => asked' = asked
    <3> HIDE DEF f
    <3>1. ASSUME Upright(orient), ~Upright(orient')
          PROVE  asked' = 0
      BY <2>0, <3>1 DEF Upright
    <3>2. ASSUME ~Upright(orient), Upright(orient')
          PROVE  asked' = 0
      BY <2>0, <3>2 DEF Upright
    <3>3. ASSUME Upright(orient), Upright(orient')
          PROVE  /\ Sideways(orient, s) => asked' = more
                 /\ ~Sideways(orient, s) => asked' = asked
      BY <2>0, <2>4, <3>3 DEF Upright
    <3>4. ASSUME ~Upright(orient), ~Upright(orient')
          PROVE  /\ ~Sideways(orient, s) => asked' = more
                 /\ Sideways(orient, s) => asked' = asked
      BY <2>0, <2>4, <3>4 DEF Upright
    <3>5. QED
      BY <3>1, <3>2, <3>3, <3>4
  <2> DEFINE n == orient.frames
  <2>6. /\ Sideways(orient, s) => f = (IF n < 20 THEN n + 1 ELSE n)
        /\ ~Sideways(orient, s) => f = (IF n > -10 THEN n - 1 ELSE n)
    OBVIOUS
  <2>7. n \in -10..20
    BY <2>3
  <2> HIDE DEF f, n
  <2>8. ASSUME Upright(orient), Upright(orient')
        PROVE  f < 15 /\ f <= asked'
    <3>1. n < 15 /\ n <= asked /\ f < 15
      BY <2>1, <2>2, <2>8 DEF n
    <3>2. CASE Sideways(orient, s)
      <4>1. f = n + 1 /\ asked' = IF asked < 15 THEN asked + 1 ELSE asked
        BY <2>5, <2>6, <2>7, <2>8, <3>1, <3>2
      <4>2. QED
        BY <1>2, <2>7, <3>1, <4>1
    <3>3. CASE ~Sideways(orient, s)
      <4>1. f = (IF n > -10 THEN n - 1 ELSE n) /\ asked' = asked
        BY <2>5, <2>6, <2>8, <3>3
      <4>2. QED
        BY <1>2, <2>7, <3>1, <4>1
    <3>4. QED
      BY <3>2, <3>3
  <2>9. ASSUME Upright(orient), ~Upright(orient')
        PROVE  f > -8 /\ f >= -asked' /\ asked >= 14
    <3>1. n < 15 /\ n <= asked /\ f >= 15 /\ asked' = 0
      <4>1. ~(f < 15)
        BY <2>1, <2>9
      <4>2. f \in Int
        BY <2>6, <2>7
      <4>3. n < 15 /\ n <= asked
        BY <2>2, <2>9 DEF n
      <4>4. QED
        BY <2>5, <2>9, <4>1, <4>2, <4>3
    <3>2. f <= n + 1
      BY <2>6, <2>7
    <3>3. f \in Int
      BY <2>6, <2>7
    <3>4. QED
      BY <1>2, <2>7, <3>1, <3>2, <3>3
  <2>10. ASSUME ~Upright(orient), ~Upright(orient')
         PROVE  f > -8 /\ f >= -asked'
    <3>0. f \in Int
      BY <2>6, <2>7
    <3>1. n > -8 /\ n >= -asked /\ ~(f <= -8)
      BY <2>1, <2>2, <2>10 DEF n
    <3>2. CASE ~Sideways(orient, s)
      <4>1. f = n - 1 /\ asked' = IF asked < 15 THEN asked + 1 ELSE asked
        BY <2>5, <2>6, <2>7, <2>10, <3>1, <3>2
      <4>2. QED
        BY <1>2, <2>7, <3>1, <4>1
    <3>3. CASE Sideways(orient, s)
      <4>1. f = (IF n < 20 THEN n + 1 ELSE n) /\ asked' = asked
        BY <2>5, <2>6, <2>10, <3>3
      <4>2. QED
        BY <1>2, <2>7, <3>0, <3>1, <4>1
    <3>4. QED
      BY <3>2, <3>3
  <2>11. ASSUME ~Upright(orient), Upright(orient')
         PROVE  f < 15 /\ f <= asked' /\ asked >= 7
    <3>1. n > -8 /\ n >= -asked
      BY <2>2, <2>11 DEF n
    <3>2. f <= -8 /\ asked' = 0
      BY <2>5, <2>0, <2>1, <2>11
    <3>3. f >= n - 1 /\ f \in Int
      BY <2>6, <2>7
    <3>4. QED
      BY <1>2, <2>7, <3>1, <3>2, <3>3
  <2>12. CounterIsEarned'
    BY <2>1, <2>8, <2>9, <2>10, <2>11 DEF CounterIsEarned
  <2>13. orient.resolved /\ Upright(orient') # Upright(orient) => asked >= (IF Upright(orient) THEN 14 ELSE 7)
    <3>1. CASE Upright(orient) /\ ~Upright(orient')
      BY <2>9, <3>1
    <3>2. CASE ~Upright(orient) /\ Upright(orient')
      BY <2>11, <3>2
    <3>3. CASE (Upright(orient) /\ Upright(orient')) \/ (~Upright(orient) /\ ~Upright(orient'))
      BY <3>3 DEF Upright
    <3>4. QED
      BY <3>1, <3>2, <3>3
  <2>14. QED
    BY <2>1, <2>12, <2>13
<1>9. QED
  BY <1>5, <1>6, <1>7, <1>8

LEMMA OrientStarts == OrientInit => OrientInv
<1> SUFFICES ASSUME OrientInit
             PROVE  OrientInv
  OBVIOUS
<1>1. /\ orient.turn = 0 /\ orient.frames = 0 /\ orient.swaps = 0 /\ orient.resolved = FALSE
      /\ orient \in [turn : Orientations, stable : Orientations \cup {Unsettled}, frames : Int,
                     swaps : Int, resolved : BOOLEAN]
      /\ lock \in Locks /\ ~eligible /\ asked = 0
  BY DEF OrientInit, Orientations
<1>2. eligible \in BOOLEAN
  BY DEF OrientInit
<1>3. OrientTyped
  BY <1>1, <1>2 DEF OrientTyped
<1>4. DrawnAsSettled /\ CounterIsEarned
  BY <1>1 DEF DrawnAsSettled, CounterIsEarned
<1>5. QED
  BY <1>3, <1>4 DEF OrientInv

LEMMA OrientStays ==
  OrientInv /\ [OrientNext]_orientVars =>
    /\ OrientInv'
    /\ eligible /\ eligible' /\ orient.resolved /\ lock = 0 /\ Upright(orient') # Upright(orient)
         => asked >= (IF Upright(orient) THEN 14 ELSE 7)
<1> SUFFICES ASSUME OrientInv, [OrientNext]_orientVars
             PROVE  /\ OrientInv'
                    /\ eligible /\ eligible' /\ orient.resolved /\ lock = 0 /\ Upright(orient') # Upright(orient)
                         => asked >= (IF Upright(orient) THEN 14 ELSE 7)
  OBVIOUS
<1>1. CASE UNCHANGED orientVars
  BY <1>1 DEF orientVars, OrientInv, OrientTyped, DrawnAsSettled, CounterIsEarned
<1>2. CASE SetLock
  BY <1>2 DEF SetLock, OrientInv, OrientTyped, DrawnAsSettled, CounterIsEarned, Locks
<1>3. QED
  BY <1>1, <1>2, SampleKeeps DEF OrientNext

--------------------------------------------------------------------------------
(***************************************************************************)
(* How the pet feels.                                                      *)
(***************************************************************************)

MoodTyped == approvals \in Nat /\ denials \in Nat /\ hours \in Nat /\ atNap \in {3, 5}

LEMMA LargerOfTwo ==
  ASSUME NEW a \in Int, NEW b \in Int
  PROVE  Max({a, b}) = IF a >= b THEN a ELSE b
<1>1. CASE a >= b
  <2>1. \A x \in {a, b} : (\A y \in {a, b} : x >= y) <=> x = a
    BY <1>1
  <2>2. QED
    BY <1>1, <2>1 DEF Max
<1>2. CASE ~(a >= b)
  <2>1. \A x \in {a, b} : (\A y \in {a, b} : x >= y) <=> x = b
    BY <1>2
  <2>2. QED
    BY <1>2, <2>1 DEF Max
<1>3. QED
  BY <1>1, <1>2

LEMMA SmallerOfTwo ==
  ASSUME NEW a \in Int, NEW b \in Int
  PROVE  Min({a, b}) = IF a <= b THEN a ELSE b
<1>1. CASE a <= b
  <2>1. \A x \in {a, b} : (\A y \in {a, b} : x <= y) <=> x = a
    BY <1>1
  <2>2. QED
    BY <1>1, <2>1 DEF Min
<1>2. CASE ~(a <= b)
  <2>1. \A x \in {a, b} : (\A y \in {a, b} : x <= y) <=> x = b
    BY <1>2
  <2>2. QED
    BY <1>2, <2>1 DEF Min
<1>3. QED
  BY <1>1, <1>2

LEMMA MoodStarts == MoodInit => MoodTyped
BY DEF MoodInit, MoodTyped

LEMMA MoodTypesStay == MoodTyped /\ [MoodNext]_moodVars => MoodTyped'
BY DEF MoodTyped, MoodNext, moodVars, Approved, Denied, HourPasses, NapEnds

(* Another denial leaves the answers that are timed as they are, and what  *)
(* is taken off for the denials is as much or more.                        *)
LEMMA DenialCosts ==
  ASSUME MoodTyped, Denied
  PROVE  MoodTier' <= MoodTier /\ EnergyTier' = EnergyTier
<1>1. /\ denials' = denials + 1
      /\ UNCHANGED <<velocity, velCount, approvals, hours, atNap>>
  BY DEF Denied
<1> DEFINE v == VelocityTier(MedianVelocity)
           p == DenialPenalty
<1>2. MedianVelocity' = MedianVelocity
  BY <1>1 DEF MedianVelocity, Sorted
<1>3. v' = v
  BY <1>2 DEF VelocityTier
<1>4. v \in Int
  BY DEF VelocityTier
<1>5. p \in Int /\ p' \in Int /\ p' >= p
  BY <1>1 DEF DenialPenalty, MoodTyped
<1>6. MoodTier = Max({v - p, 0}) /\ MoodTier' = Max({v' - p', 0})
  BY DEF MoodTier
<1> HIDE DEF v, p
<1>7. MoodTier' <= MoodTier
  BY <1>3, <1>4, <1>5, <1>6, LargerOfTwo
<1>8. EnergyTier' = EnergyTier
  BY <1>1 DEF EnergyTier, Int8
<1>9. QED
  BY <1>7, <1>8

(* For eleven days the energy is what is left after a tier every two hours. *)
LEMMA EnergyLasts == MoodTyped => EnergyDrains
<1> SUFFICES ASSUME MoodTyped, hours < 264
             PROVE  EnergyTier = Max({0, atNap - hours \div 2})
  BY DEF EnergyDrains
<1> DEFINE h == hours \div 2
           e == Int8(atNap - Int8(h))
<1>1. h \in 0..131 /\ atNap \in {3, 5}
  BY DEF MoodTyped
<1>2. EnergyTier = Max({0, Min({5, e})})
  BY DEF EnergyTier
<1>3. e \in Int /\ (h <= atNap => e = atNap - h) /\ (h > atNap => e <= 0)
  <2> HIDE DEF h
  <2>1. Int8(h) = IF h < 128 THEN h ELSE h - 256
    BY <1>1 DEF Int8
  <2>2. QED
    BY <1>1, <2>1 DEF Int8
<1> HIDE DEF h, e
<1>4. Min({5, e}) = IF 5 <= e THEN 5 ELSE e
  BY <1>3, SmallerOfTwo
<1>5. EnergyTier = IF h <= atNap THEN atNap - h ELSE 0
  BY <1>1, <1>2, <1>3, <1>4, LargerOfTwo
<1>6. Max({0, atNap - h}) = IF h <= atNap THEN atNap - h ELSE 0
  BY <1>1, LargerOfTwo
<1>7. QED
  BY <1>5, <1>6 DEF h

LEMMA DenialSteps ==
  MoodTyped /\ [MoodNext]_moodVars =>
    (denials' > denials => MoodTier' <= MoodTier /\ EnergyTier' = EnergyTier)
<1> SUFFICES ASSUME MoodTyped, [MoodNext]_moodVars, denials' > denials
             PROVE  MoodTier' <= MoodTier /\ EnergyTier' = EnergyTier
  OBVIOUS
<1>1. Denied
  BY DEF MoodTyped, MoodNext, moodVars, Approved, HourPasses, NapEnds
<1>2. QED
  BY <1>1, DenialCosts

(* The ring: the slot that holds the i-th of the last answers, oldest      *)
(* first, and that every one of them is in its slot.                       *)
Slot(i) == IF velCount < Slots THEN i - 1
           ELSE IF velIdx + i - 1 < Slots THEN velIdx + i - 1 ELSE velIdx + i - 1 - Slots
RingHolds ==
  /\ velocity \in [0..Slots - 1 -> Nat] /\ answerTimes \in Seq(Nat)
  /\ velIdx \in 0..Slots - 1
  /\ velCount = IF Len(answerTimes) < Slots THEN Len(answerTimes) ELSE Slots
  /\ velCount < Slots => velIdx = velCount
  /\ \A i \in 1..velCount : velocity[Slot(i)] = answerTimes[Len(answerTimes) - velCount + i]

LEMMA RingStarts == MoodInit => RingHolds
<1> SUFFICES ASSUME MoodInit
             PROVE  RingHolds
  OBVIOUS
<1>1. Slots \in Nat \ {0}
  BY MoodAssumption
<1>2. velocity \in [0..Slots - 1 -> Nat]
  BY DEF MoodInit
<1>3. answerTimes \in Seq(Nat) /\ Len(answerTimes) = 0
  BY DEF MoodInit
<1>4. velIdx = 0 /\ velCount = 0
  BY DEF MoodInit
<1>5. QED
  BY <1>1, <1>2, <1>3, <1>4 DEF RingHolds

LEMMA RingStays == RingHolds /\ [MoodNext]_moodVars => RingHolds'
<1> SUFFICES ASSUME RingHolds, [MoodNext]_moodVars
             PROVE  RingHolds'
  OBVIOUS
<1>0. Slots \in Nat \ {0} /\ Times \subseteq Nat
  <2>1. Slots \in Nat \ {0}
    BY MoodAssumption
  <2>2. Times \subseteq Nat
    BY MoodAssumption
  <2>3. QED
    BY <2>1, <2>2
<1>1. ASSUME NEW t \in Times,       Approved(t)
      PROVE  RingHolds'
  <2> DEFINE L == Len(answerTimes)
  <2>1. /\ t \in Nat /\ L \in Nat /\ velIdx \in 0..Slots - 1 /\ velCount \in Nat
        /\ velocity \in [0..Slots - 1 -> Nat] /\ answerTimes \in Seq(Nat)
    BY <1>0 DEF RingHolds
  <2>2. answerTimes' \in Seq(Nat) /\ Len(answerTimes') = L + 1
    BY <1>1, <2>1 DEF Approved
  <2>3. /\ \A i \in 1..L : answerTimes'[i] = answerTimes[i]
        /\ answerTimes'[L + 1] = t
    BY <1>1, <2>1 DEF Approved
  <2>4. /\ velocity' \in [0..Slots - 1 -> Nat] /\ velocity'[velIdx] = t
        /\ \A x \in 0..Slots - 1 : x # velIdx => velocity'[x] = velocity[x]
    BY <1>1, <2>1 DEF Approved
  <2>5. velIdx' = IF velIdx + 1 = Slots THEN 0 ELSE velIdx + 1
    <3>1. velIdx' = (velIdx + 1) % Slots
      BY <1>1 DEF Approved
    <3>2. (velIdx + 1) % Slots = IF velIdx = Slots - 1 THEN 0 ELSE velIdx + 1
      BY ONLY <1>0, <2>1, NextReading
    <3>3. QED
      BY <1>0, <2>1, <3>1, <3>2
  <2>6. velCount' = IF velCount + 1 <= Slots THEN velCount + 1 ELSE Slots
    <3>1. velCount' = Min({velCount + 1, Slots})
      BY <1>1 DEF Approved
    <3>2. velCount + 1 \in Int /\ Slots \in Int
      BY <1>0, <2>1
    <3>3. QED
      BY ONLY <3>1, <3>2, SmallerOfTwo
  <2>7. velCount = IF L < Slots THEN L ELSE Slots
    BY DEF RingHolds
  <2>8. velCount < Slots => velIdx = velCount
    BY DEF RingHolds
  <2>9. \A i \in 1..velCount : velocity[Slot(i)] = answerTimes[L - velCount + i]
    BY DEF RingHolds
  <2>10. velCount' = IF L + 1 < Slots THEN L + 1 ELSE Slots
    BY <1>0, <2>1, <2>6, <2>7
  <2>11. velCount' < Slots => velIdx' = velCount'
    BY <1>0, <2>1, <2>5, <2>6, <2>8
  <2>12. velIdx' \in 0..Slots - 1
    BY <1>0, <2>1, <2>5
  <2> HIDE DEF L
  <2>13. ASSUME NEW i \in 1..velCount'
         PROVE  velocity'[Slot(i)'] = answerTimes'[L + 1 - velCount' + i]
    <3>0. Slot(i)' = IF velCount' < Slots THEN i - 1
                     ELSE IF velIdx' + i - 1 < Slots THEN velIdx' + i - 1 ELSE velIdx' + i - 1 - Slots
      BY DEF Slot
    <3>1. CASE i = velCount'
      <4>1. Slot(i)' = velIdx
        BY <1>0, <2>1, <2>5, <2>6, <2>7, <2>8, <3>0, <3>1
      <4>2. L + 1 - velCount' + i = L + 1
        BY <1>0, <2>1, <2>6, <3>1
      <4>3. QED
        BY <4>1, <4>2, <2>3, <2>4
    <3>2. CASE i # velCount' /\ velCount < Slots
      <4>1. i \in 1..velCount /\ velCount' = velCount + 1 /\ L = velCount
        BY <1>0, <2>1, <2>6, <2>7, <3>2
      <4>2. Slot(i)' = i - 1 /\ Slot(i) = i - 1 /\ i - 1 # velIdx /\ i - 1 \in 0..Slots - 1
        BY <1>0, <2>1, <2>5, <2>8, <3>0, <3>2, <4>1 DEF Slot
      <4>3. L + 1 - velCount' + i = i /\ L - velCount + i = i /\ i \in 1..L
        BY <2>1, <4>1
      <4>4. QED
        BY <2>3, <2>4, <2>9, <4>1, <4>2, <4>3
    <3>3. CASE i # velCount' /\ ~(velCount < Slots)
      <4>1. velCount = Slots /\ velCount' = Slots /\ i + 1 \in 1..velCount /\ L >= Slots /\ i < Slots
        BY <1>0, <2>1, <2>6, <2>7, <3>3
      <4>2. Slot(i)' = Slot(i + 1) /\ Slot(i + 1) # velIdx /\ Slot(i + 1) \in 0..Slots - 1
        BY <1>0, <2>1, <2>5, <3>0, <4>1 DEF Slot
      <4>3. L + 1 - velCount' + i = L - velCount + (i + 1) /\ L + 1 - velCount' + i \in 1..L
        BY <1>0, <2>1, <4>1
      <4>4. QED
        BY <2>3, <2>4, <2>9, <4>1, <4>2, <4>3
    <3>4. QED
      BY <3>1, <3>2, <3>3
  <2>14. velCount' = IF Len(answerTimes') < Slots THEN Len(answerTimes') ELSE Slots
    BY <2>2, <2>10
  <2>15. \A i \in 1..velCount' : velocity'[Slot(i)'] = answerTimes'[Len(answerTimes') - velCount' + i]
    <3>1. ASSUME NEW i \in 1..velCount'
          PROVE  velocity'[Slot(i)'] = answerTimes'[Len(answerTimes') - velCount' + i]
      <4>1. velocity'[Slot(i)'] = answerTimes'[L + 1 - velCount' + i]
        BY <2>13
      <4>2. Len(answerTimes') - velCount' + i = L + 1 - velCount' + i
        BY <1>0, <2>1, <2>2, <2>10
      <4>3. QED
        BY <4>1, <4>2
    <3>2. QED
      BY <3>1
  <2>16. QED
    BY <2>2, <2>4, <2>11, <2>12, <2>14, <2>15 DEF RingHolds
<1>2. CASE UNCHANGED <<velocity, velIdx, velCount, answerTimes>>
  BY <1>2 DEF RingHolds, Slot
<1>3. QED
  BY <1>1, <1>2 DEF MoodNext, moodVars, Denied, HourPasses, NapEnds

(* What the sort has after n slots: their times in order, each at a place  *)
(* of its own.                                                             *)
InOrder(s) == \A i, j \in 1..Len(s) : i <= j => s[i] <= s[j]
PlacedAt(s, n, pos) ==
  /\ pos \in [0..n - 1 -> 1..n]
  /\ \A x, y \in 0..n - 1 : pos[x] = pos[y] => x = y
  /\ \A x \in 0..n - 1 : s[pos[x]] = velocity[x]
SortedUpTo(s, n) ==
  s \in Seq(Nat) /\ Len(s) = n /\ InOrder(s) /\ \E pos : PlacedAt(s, n, pos)

(* What an ordered sequence has up to a bound are its first elements.      *)
LEMMA FirstOnes ==
  ASSUME NEW s \in Seq(Nat), InOrder(s), NEW t \in Nat
  PROVE  \E k \in 0..Len(s) : /\ Cardinality({i \in DOMAIN s : s[i] <= t}) = k
                              /\ \A i \in 1..Len(s) : s[i] <= t <=> i <= k
<1> DEFINE n == Len(s)
           S == {m \in 0..n : \E k \in 0..m : \A i \in 1..m : s[i] <= t <=> i <= k}
<1>1. n \in Nat /\ DOMAIN s = 1..n /\ \A i \in 1..n : s[i] \in Nat
  OBVIOUS
<1>2. \A i, j \in 1..n : i <= j => s[i] <= s[j]
  BY DEF InOrder
<1> HIDE DEF n
<1>3. 0 \in S
  BY <1>1
<1>4. ASSUME NEW m \in 0..(n - 1), m \in S
      PROVE  m + 1 \in S
  <2>1. PICK k \in 0..m : \A i \in 1..m : s[i] <= t <=> i <= k
    BY <1>4
  <2>2. m + 1 \in 1..n /\ m + 1 \in 0..n /\ \A i \in 1..(m + 1) : i \in 1..n /\ (i = m + 1 \/ i \in 1..m)
    BY <1>1
  <2>3. CASE s[m + 1] <= t
    <3>1. \A i \in 1..(m + 1) : s[i] <= t /\ i <= m + 1
      BY <1>1, <1>2, <2>2, <2>3
    <3>2. m + 1 \in 0..(m + 1)
      BY <1>1
    <3>3. QED
      BY <2>2, <3>1, <3>2
  <2>4. CASE ~(s[m + 1] <= t)
    <3>1. k \in 0..(m + 1) /\ ~(m + 1 <= k)
      BY <1>1, <2>1
    <3>2. \A i \in 1..(m + 1) : s[i] <= t <=> i <= k
      BY <2>1, <2>2, <2>4, <3>1
    <3>3. QED
      BY <2>2, <3>1, <3>2
  <2>5. QED
    BY <2>3, <2>4
<1> HIDE DEF S
<1>5. 0..n \subseteq S
  BY <1>1, <1>3, <1>4, UpTo
<1>6. n \in S
  BY <1>1, <1>5
<1>7. PICK k \in 0..n : \A i \in 1..n : s[i] <= t <=> i <= k
  BY <1>6 DEF S
<1>8. {i \in DOMAIN s : s[i] <= t} = 1..k
  BY <1>1, <1>7
<1>9. k \in Nat
  BY <1>1
<1>10. Cardinality(1..k) = k
  BY <1>9, FS_Interval
<1>11. QED
  BY <1>7, <1>8, <1>10 DEF n

(* One round of the insertion sort.                                        *)
LEMMA Insertion ==
  ASSUME NEW n \in Nat, NEW s, SortedUpTo(s, n), velocity[n] \in Nat
  PROVE  SortedUpTo(Inserted(s, velocity[n]), n + 1)
<1> DEFINE t == velocity[n]
           c == Cardinality({i \in DOMAIN s : s[i] <= t})
           r == Inserted(s, t)
<1>1. s \in Seq(Nat) /\ Len(s) = n /\ InOrder(s) /\ t \in Nat
  BY DEF SortedUpTo
<1>2. PICK pos : PlacedAt(s, n, pos)
  BY DEF SortedUpTo
<1>3. PICK k \in 0..n : c = k /\ \A i \in 1..n : s[i] <= t <=> i <= k
  <2> HIDE DEF t
  <2>1. QED
    BY <1>1, FirstOnes DEF t
<1>4. r = [i \in 1..n + 1 |-> IF i <= k THEN s[i] ELSE IF i = k + 1 THEN t ELSE s[i - 1]]
  BY <1>1, <1>3 DEF Inserted
<1>5. \A i \in 1..n : s[i] \in Nat
  BY <1>1
<1>6. \A i, j \in 1..n : i <= j => s[i] <= s[j]
  BY <1>1 DEF InOrder
<1> HIDE DEF t, c, r
<1>7. r \in [1..n + 1 -> Nat]
  <2>1. \A i \in 1..n + 1 : /\ i <= k => i \in 1..n
                            /\ ~(i <= k) /\ i # k + 1 => i - 1 \in 1..n
    BY <1>3
  <2>2. QED
    BY <1>1, <1>4, <1>5, <2>1
<1>8. r \in Seq(Nat) /\ Len(r) = n + 1
  BY <1>7
<1>9. InOrder(r)
  <2> SUFFICES ASSUME NEW i \in 1..n + 1, NEW j \in 1..n + 1, i <= j
               PROVE  r[i] <= r[j]
    BY <1>8 DEF InOrder
  <2>1. /\ r[i] = IF i <= k THEN s[i] ELSE IF i = k + 1 THEN t ELSE s[i - 1]
        /\ r[j] = IF j <= k THEN s[j] ELSE IF j = k + 1 THEN t ELSE s[j - 1]
    BY <1>4
  <2>2. CASE j <= k
    BY <1>3, <1>6, <2>1, <2>2
  <2>3. CASE j = k + 1
    <3>1. i <= k => i \in 1..n /\ s[i] <= t
      BY <1>3, <2>3
    <3>2. QED
      BY <1>1, <1>3, <2>1, <2>3, <3>1
  <2>4. CASE j > k + 1
    <3>1. j - 1 \in 1..n /\ ~(j - 1 <= k)
      BY <1>3, <2>4
    <3>2. ~(s[j - 1] <= t)
      BY <1>3, <3>1
    <3>3. CASE i <= k + 1
      <4>1. i <= k => i \in 1..n /\ i <= j - 1
        BY <1>3, <2>4
      <4>2. i <= k => s[i] <= s[j - 1]
        BY <1>6, <3>1, <4>1
      <4>3. i = k + 1 => t <= s[j - 1]
        BY <1>1, <1>5, <3>1, <3>2
      <4>4. QED
        BY <1>3, <2>1, <2>4, <3>3, <4>2, <4>3
    <3>4. CASE i > k + 1
      <4>1. i - 1 \in 1..n /\ i - 1 <= j - 1
        BY <1>3, <3>4
      <4>2. s[i - 1] <= s[j - 1]
        BY <1>6, <3>1, <4>1
      <4>3. QED
        BY <1>3, <2>1, <2>4, <3>4, <4>2
    <3>5. QED
      BY <1>3, <3>3, <3>4
  <2>5. QED
    BY <1>3, <2>2, <2>3, <2>4
<1>10. \E q : PlacedAt(r, n + 1, q)
  <2> DEFINE q == [x \in 0..n |-> IF x = n THEN k + 1 ELSE IF pos[x] <= k THEN pos[x] ELSE pos[x] + 1]
  <2>1. /\ \A x \in 0..n - 1 : pos[x] \in 1..n /\ s[pos[x]] = velocity[x]
        /\ \A x, y \in 0..n - 1 : pos[x] = pos[y] => x = y
    BY <1>2 DEF PlacedAt
  <2>2. \A x \in 0..n : x = n \/ x \in 0..n - 1
    OBVIOUS
  <2>3. q \in [0..n -> 1..n + 1]
    BY <1>3, <2>1, <2>2
  <2>4. ASSUME NEW x \in 0..n, NEW y \in 0..n, q[x] = q[y]
        PROVE  x = y
    BY <1>3, <2>1, <2>2, <2>4
  <2>5. ASSUME NEW x \in 0..n
        PROVE  r[q[x]] = velocity[x]
    <3>1. CASE x = n
      BY <1>3, <1>4, <2>3, <3>1 DEF t
    <3>2. CASE x # n
      <4>1. x \in 0..n - 1 /\ pos[x] \in 1..n
        BY <2>1, <2>2, <3>2
      <4>2. q[x] = IF pos[x] <= k THEN pos[x] ELSE pos[x] + 1
        BY <3>2
      <4>3. r[q[x]] = s[pos[x]]
        <5> HIDE DEF q
        <5>1. q[x] \in 1..n + 1
          BY <2>3
        <5>2. CASE pos[x] <= k
          BY <1>4, <4>1, <4>2, <5>1, <5>2
        <5>3. CASE ~(pos[x] <= k)
          <6>1. q[x] = pos[x] + 1 /\ ~(q[x] <= k) /\ q[x] # k + 1 /\ q[x] - 1 = pos[x]
            BY <1>3, <4>1, <4>2, <5>3
          <6>2. QED
            BY <1>4, <5>1, <6>1
        <5>4. QED
          BY <5>2, <5>3
      <4>4. QED
        BY <2>1, <4>1, <4>3
    <3>3. QED
      BY <3>1, <3>2
  <2> HIDE DEF q
  <2>6. (n + 1) - 1 = n
    OBVIOUS
  <2>7. PlacedAt(r, n + 1, q)
    BY <2>3, <2>4, <2>5, <2>6 DEF PlacedAt
  <2>8. QED
    BY <2>7
<1>11. SortedUpTo(r, n + 1)
  BY <1>8, <1>9, <1>10 DEF SortedUpTo
<1>12. QED
  BY <1>11 DEF r, t

(* The rounds of the sort, one after the other, and that they exist.       *)
Rounds(g, m) ==
  /\ g \in [0..m -> Seq(Nat)]
  /\ g[0] = << >> /\ \A n \in 1..m : g[n] = Inserted(g[n - 1], velocity[n - 1])
  /\ SortedUpTo(g[m], m)

LEMMA RoundsExist ==
  ASSUME RingHolds
  PROVE  \E g : Rounds(g, velCount)
<1> DEFINE S == {n \in 0..velCount : \E g : Rounds(g, n)}
<1>0. /\ velCount \in Nat /\ \A n \in 0..velCount - 1 : velocity[n] \in Nat
  <2>1. Slots \in Nat \ {0} /\ velCount \in Nat /\ velCount <= Slots
    BY MoodAssumption DEF RingHolds
  <2>2. \A n \in 0..velCount - 1 : n \in 0..Slots - 1
    BY <2>1
  <2>3. QED
    BY <2>1, <2>2 DEF RingHolds
<1>1. 0 \in S
  <2> DEFINE g == [n \in 0..0 |-> << >>]
             none == [x \in 0..0 - 1 |-> 1]
  <2>1. g \in [0..0 -> Seq(Nat)] /\ g[0] = << >>
    OBVIOUS
  <2>2. SortedUpTo(<< >>, 0)
    <3>1. 0..0 - 1 = {}
      OBVIOUS
    <3>2. none \in [0..0 - 1 -> 1..0]
      BY <3>1
    <3>3. PlacedAt(<< >>, 0, none)
      BY <3>1, <3>2 DEF PlacedAt
    <3>4. << >> \in Seq(Nat) /\ Len(<< >>) = 0 /\ InOrder(<< >>)
      BY DEF InOrder
    <3>5. QED
      BY <3>3, <3>4 DEF SortedUpTo
  <2> HIDE DEF g
  <2>3. Rounds(g, 0)
    BY <2>1, <2>2 DEF Rounds
  <2>4. QED
    BY <1>0, <2>3
<1>2. ASSUME NEW n \in 0..(velCount - 1), n \in S
      PROVE  n + 1 \in S
  <2>1. PICK g : Rounds(g, n)
    BY <1>2
  <2>2. n \in Nat /\ velocity[n] \in Nat /\ n + 1 \in 0..velCount
    BY <1>0
  <2> DEFINE r == Inserted(g[n], velocity[n])
             h == [i \in 0..(n + 1) |-> IF i = n + 1 THEN r ELSE g[i]]
  <2>3. SortedUpTo(r, n + 1)
    BY <2>1, <2>2, Insertion DEF Rounds
  <2>4. r \in Seq(Nat)
    BY <2>3 DEF SortedUpTo
  <2>5. \A i \in 0..(n + 1) : i # n + 1 => i \in 0..n
    BY <2>2
  <2>6. h \in [0..(n + 1) -> Seq(Nat)]
    <3> HIDE DEF r
    <3>1. QED
      BY <2>1, <2>4, <2>5 DEF Rounds
  <2>7. h[0] = << >>
    BY <2>1, <2>2 DEF Rounds
  <2>8. ASSUME NEW i \in 1..(n + 1)
        PROVE  h[i] = Inserted(h[i - 1], velocity[i - 1])
    <3>1. CASE i = n + 1
      <4>1. i - 1 = n /\ n \in 0..(n + 1) /\ n # n + 1 /\ n + 1 \in 0..(n + 1)
        BY <2>2, <3>1
      <4>2. h[i - 1] = g[n]
        BY <4>1
      <4>3. QED
        BY <3>1, <4>1, <4>2
    <3>2. CASE i # n + 1
      <4>1. i \in 1..n /\ i \in 0..(n + 1) /\ i - 1 \in 0..(n + 1) /\ i - 1 # n + 1
        BY <2>2, <3>2
      <4>2. g[i] = Inserted(g[i - 1], velocity[i - 1])
        BY <2>1, <4>1 DEF Rounds
      <4>3. h[i] = g[i] /\ h[i - 1] = g[i - 1]
        BY <3>2, <4>1
      <4>4. QED
        BY <4>2, <4>3
    <3>3. QED
      BY <3>1, <3>2
  <2>9. h[n + 1] = r
    BY <2>2
  <2> HIDE DEF h, r
  <2>10. Rounds(h, n + 1)
    BY <2>3, <2>6, <2>7, <2>8, <2>9 DEF Rounds
  <2>11. QED
    BY <2>2, <2>10
<1> HIDE DEF S
<1>3. 0..velCount \subseteq S
  BY <1>0, <1>1, <1>2, UpTo
<1>4. velCount \in S
  BY <1>0, <1>3
<1>5. QED
  BY <1>4 DEF S

(* What is taken the median of has every slot's time once, in order.       *)
LEMMA SortSorts ==
  ASSUME RingHolds
  PROVE  SortedUpTo(Sorted, velCount) /\ velCount \in Nat
<1> DEFINE m == velCount
           It(g) == [n \in 0..m |-> IF n = 0 THEN << >> ELSE Inserted(g[n - 1], velocity[n - 1])]
           sort == CHOOSE g : g = It(g)
<1>0. m \in Nat
  BY MoodAssumption DEF RingHolds
<1>1. PICK g : Rounds(g, m)
  BY RoundsExist
<1>2. g = It(g)
  BY <1>0, <1>1 DEF Rounds
<1>3. sort = It(sort)
  <2> HIDE DEF It
  <2>1. QED
    BY <1>2
<1>4. Sorted = sort[m]
  BY DEF Sorted
<1>5. \A n \in 0..m : sort[n] = g[n]
  <2> DEFINE S == {n \in 0..m : sort[n] = g[n]}
  <2>1. \A n \in 0..m : sort[n] = IF n = 0 THEN << >> ELSE Inserted(sort[n - 1], velocity[n - 1])
    <3> HIDE DEF sort
    <3>1. QED
      BY <1>3
  <2> HIDE DEF sort
  <2>2. m \in Nat /\ 0 \in 0..m
    BY <1>0
  <2>3. 0 \in S
    BY <1>1, <2>1, <2>2 DEF Rounds
  <2>4. ASSUME NEW n \in 0..(m - 1), n \in S
        PROVE  n + 1 \in S
    <3>1. n + 1 \in 0..m /\ n + 1 \in 1..m /\ (n + 1) - 1 = n /\ n + 1 # 0
      BY <2>2
    <3>2. sort[n + 1] = Inserted(sort[n], velocity[n]) /\ g[n + 1] = Inserted(g[n], velocity[n])
      BY <1>1, <2>1, <3>1 DEF Rounds
    <3>3. QED
      BY <2>4, <3>1, <3>2
  <2> HIDE DEF S, m
  <2>5. 0..m \subseteq S
    BY <2>2, <2>3, <2>4, UpTo
  <2>6. QED
    BY <2>5 DEF S
<1> HIDE DEF sort
<1>6. m \in 0..m
  BY <1>0
<1>7. QED
  BY <1>0, <1>1, <1>4, <1>5, <1>6 DEF Rounds

(* The last answers have the median of the ring among them, half of them   *)
(* at most are below it and less than half above: each has its slot, and   *)
(* each slot its place in the order.                                       *)
LEMMA MedianIsLast == RingHolds => MedianOfLast
<1> SUFFICES ASSUME RingHolds
             PROVE  MedianOfLast
  OBVIOUS
<1> DEFINE L == Len(answerTimes)
           n == Min({Len(answerTimes), Slots})
           recent == SubSeq(answerTimes, Len(answerTimes) - n + 1, Len(answerTimes))
           h == velCount \div 2
           M == MedianVelocity
<1>1. Slots \in Nat \ {0} /\ L \in Nat /\ answerTimes \in Seq(Nat) /\ velIdx \in 0..Slots - 1
  BY MoodAssumption DEF RingHolds
<1>2. velCount = n /\ n \in Nat /\ n <= L /\ n <= Slots
  <2>1. Min({L, Slots}) = IF L <= Slots THEN L ELSE Slots
    BY <1>1, SmallerOfTwo
  <2>2. velCount = IF L < Slots THEN L ELSE Slots
    BY DEF RingHolds
  <2>3. QED
    BY <1>1, <2>1, <2>2
<1>3. CASE n = 0
  <2>1. MedianVelocity = 0
    BY <1>2, <1>3 DEF MedianVelocity
  <2>2. QED
    BY <1>3, <2>1 DEF MedianOfLast
<1>4. CASE n # 0
  <2>1. SortedUpTo(Sorted, n)
    BY <1>2, SortSorts
  <2>2. PICK pos : PlacedAt(Sorted, n, pos)
    BY <2>1 DEF SortedUpTo
  <2>3. M = Sorted[h + 1]
    BY <1>2, <1>4 DEF MedianVelocity
  <2>4. h \in Nat /\ h + 1 \in 1..n /\ 2 * h <= n /\ n < 2 * h + 2
    BY <1>2, <1>4
  <2>5. DOMAIN recent = 1..n /\ \A i \in 1..n : recent[i] = answerTimes[L - n + i]
    <3> DEFINE a == L - n + 1
    <3>1. a \in 1..L + 1 /\ 1 + L - a = n
      BY <1>1, <1>2
    <3> HIDE DEF n
    <3>2. recent = [i \in 1..(1 + L - a) |-> answerTimes[i + a - 1]]
      <4>1. a \in Int /\ L \in Int
        BY <1>1, <3>1
      <4>2. QED
        BY <4>1
    <3>3. \A i \in 1..n : i + a - 1 = L - n + i
      BY <1>1, <1>2
    <3>4. QED
      BY <3>1, <3>2, <3>3
  <2>6. \A i \in 1..n : Slot(i) \in 0..n - 1 /\ recent[i] = velocity[Slot(i)]
    <3>1. \A i \in 1..n : velocity[Slot(i)] = answerTimes[L - n + i]
      BY <1>2 DEF RingHolds
    <3> HIDE DEF n, recent, L
    <3>2. \A i \in 1..n : Slot(i) \in 0..n - 1
      BY <1>1, <1>2 DEF Slot
    <3>3. QED
      BY <2>5, <3>1, <3>2
  <2> HIDE DEF n, recent, h, M, L
  <2>7. \A i, j \in 1..n : Slot(i) = Slot(j) => i = j
    BY <1>1, <1>2 DEF Slot
  <2> DEFINE f == [i \in 1..n |-> pos[Slot(i)]]
  <2>8. /\ f \in [1..n -> 1..n]
        /\ \A i, j \in 1..n : f[i] = f[j] => i = j
        /\ \A i \in 1..n : Sorted[f[i]] = recent[i]
    BY <2>2, <2>6, <2>7 DEF PlacedAt
  <2>9. /\ \A i \in 1..n : Sorted[i] \in Nat
        /\ \A i, j \in 1..n : i <= j => Sorted[i] <= Sorted[j]
    <3>1. Sorted \in Seq(Nat) /\ Len(Sorted) = n /\ InOrder(Sorted)
      BY <2>1 DEF SortedUpTo
    <3>2. QED
      BY <3>1 DEF InOrder
  <2> HIDE DEF f
  <2>10. \E i \in DOMAIN recent : recent[i] = M
    <3>1. f \in Injection(1..n, 1..n)
      BY <2>8 DEF Injection, IsInjective
    <3>2. IsFiniteSet(1..n)
      BY <1>2, FS_Interval
    <3>3. f \in Surjection(1..n, 1..n)
      BY ONLY <3>1, <3>2, FS_Injection
    <3>4. PICK i \in 1..n : f[i] = h + 1
      BY <2>4, <3>3 DEF Surjection
    <3>5. QED
      BY <2>3, <2>5, <2>8, <3>4
  <2>11. 2 * Cardinality({i \in DOMAIN recent : recent[i] < M}) <= n
    <3> DEFINE B == {i \in DOMAIN recent : recent[i] < M}
               g == [i \in B |-> f[i]]
    <3>1. \A i \in B : i \in 1..n /\ f[i] \in 1..h
      <4>1. SUFFICES ASSUME NEW i \in B
                     PROVE  i \in 1..n /\ f[i] \in 1..h
        OBVIOUS
      <4>2. i \in 1..n /\ f[i] \in 1..n /\ Sorted[f[i]] < Sorted[h + 1]
        BY <2>3, <2>5, <2>8
      <4>3. ~(h + 1 <= f[i])
        BY <2>4, <2>9, <4>2
      <4>4. QED
        BY <1>2, <2>4, <4>2, <4>3
    <3>2. g \in Injection(B, 1..h)
      <4> HIDE DEF B
      <4>1. QED
        BY <2>8, <3>1 DEF Injection, IsInjective
    <3>3. IsFiniteSet(1..h) /\ Cardinality(1..h) = h
      <4>1. 1 \in Int /\ h \in Int
        BY <2>4
      <4>2. IsFiniteSet(1..h) /\ Cardinality(1..h) = IF 1 > h THEN 0 ELSE h - 1 + 1
        BY ONLY <4>1, FS_Interval
      <4>3. QED
        BY <2>4, <4>2
    <3> HIDE DEF B, g
    <3>4. IsFiniteSet(B) /\ Cardinality(B) <= h
      BY ONLY <3>2, <3>3, FS_Injection
    <3>5. Cardinality(B) \in Nat
      BY <3>4, FS_CardinalityType
    <3>6. QED
      BY <1>2, <2>4, <3>4, <3>5 DEF B
  <2>12. 2 * Cardinality({i \in DOMAIN recent : recent[i] > M}) < n
    <3> DEFINE B == {i \in DOMAIN recent : recent[i] > M}
               g == [i \in B |-> f[i]]
               k == n - h - 1
    <3>0. k \in Nat
      BY <1>2, <2>4
    <3>1. \A i \in B : i \in 1..n /\ f[i] \in (h + 2)..n
      <4>1. SUFFICES ASSUME NEW i \in B
                     PROVE  i \in 1..n /\ f[i] \in (h + 2)..n
        OBVIOUS
      <4>2. i \in 1..n /\ f[i] \in 1..n /\ Sorted[f[i]] > Sorted[h + 1]
        BY <2>3, <2>5, <2>8
      <4>3. ~(f[i] <= h + 1)
        BY <2>4, <2>9, <4>2
      <4>4. QED
        BY <1>2, <2>4, <4>2, <4>3
    <3>2. g \in Injection(B, (h + 2)..n)
      <4> HIDE DEF B
      <4>1. QED
        BY <2>8, <3>1 DEF Injection, IsInjective
    <3>3. IsFiniteSet((h + 2)..n) /\ Cardinality((h + 2)..n) = k
      <4>1. h + 2 \in Int /\ n \in Int
        BY <1>2, <2>4
      <4>2. /\ IsFiniteSet((h + 2)..n)
            /\ Cardinality((h + 2)..n) = IF h + 2 > n THEN 0 ELSE n - (h + 2) + 1
        BY ONLY <4>1, FS_Interval
      <4>3. QED
        BY <1>2, <2>4, <4>2
    <3> HIDE DEF B, g
    <3>4. IsFiniteSet(B) /\ Cardinality(B) <= k
      BY ONLY <3>2, <3>3, FS_Injection
    <3>5. Cardinality(B) \in Nat
      BY <3>4, FS_CardinalityType
    <3>6. QED
      BY <1>2, <2>4, <3>4, <3>5 DEF B
  <2>13. QED
    BY <1>4, <2>10, <2>11, <2>12 DEF MedianOfLast, n, recent, M
<1>5. QED
  BY <1>3, <1>4

--------------------------------------------------------------------------------
(***************************************************************************)
(* The heartbeat.                                                          *)
(***************************************************************************)

HeartTyped ==
  /\ nowMs \in 0..(WrapMs - 1) /\ link \in BOOLEAN /\ ready \in BOOLEAN /\ painted \in BOOLEAN
  /\ tokens \in [valid : BOOLEAN, intensities : Bars, at : 0..(WrapMs - 1)]
  /\ activity \in [has : BOOLEAN, mask : Masks, at : 0..(WrapMs - 1)]
  /\ age \in [token : 0..WrapMs, activity : 0..WrapMs]

(* Until the counter of milliseconds wraps, the time since a receipt is    *)
(* how old the picture is; without the host there is no activity.          *)
AgesAreTrue ==
  /\ ~link => ~activity.has
  /\ tokens.valid /\ age.token < WrapMs => Elapsed(tokens.at) = age.token
  /\ activity.has /\ age.activity < WrapMs => Elapsed(activity.at) = age.activity

(* What the strip shows of a picture at a token of the frame.              *)
StripOf(source, frame) ==
  CASE source = "token" -> <<"token", Shifted(tokens.intensities, frame, 0)>>
    [] source = "activity" /\ Shifted(activity.mask, frame \div Pitch, FALSE) # Silent ->
         <<"activity", Shifted(activity.mask, frame \div Pitch, FALSE), frame % Pitch>>
    [] OTHER -> <<"line">>

JustPainted == painted /\ ready => strip = Curve /\ last = Key

(* Between two frames: the strip shows what was last drawn, for as long as *)
(* the picture that came at that receipt is there; and one that comes in   *)
(* the millisecond of the old one, a turn of the counter later, finds the  *)
(* old one gone from the window and not at its start.                      *)
StripIsLast ==
  ~painted /\ ready =>
    /\ last.source = "token" /\ Source = "token" /\ last.token = tokens.at /\ last.frame = FrameToken =>
         strip = StripOf("token", last.frame)
    /\ last.source = "activity" /\ Source = "activity" /\ last.activity = activity.at /\ last.frame = FrameToken =>
         strip = StripOf("activity", last.frame)
    /\ last.source = "none" /\ last.frame = 0 => strip = <<"line">>
    /\ last.source = "token" /\ last.token = nowMs => last.frame # 0
    /\ last.source = "activity" /\ last.activity = nowMs => last.frame # 0

HeartInv == HeartTyped /\ AgesAreTrue /\ JustPainted /\ StripIsLast

LEMMA HeartConstants ==
  /\ Pitch \in Nat \ {0} /\ Seconds \in Nat \ {0} /\ Bins \in Nat \ {0}
  /\ Window \in Nat \ {0} /\ WrapMs \in Nat \ {0} /\ Window < WrapMs
  /\ Window \div Pitch = Seconds
<1>1. Pitch \in Nat \ {0} /\ Seconds \in Nat \ {0} /\ Bins \in Nat \ {0} /\ Window < WrapMs
      /\ WrapMs \in Nat \ {0}
  BY HeartbeatAssumption
<1>2. Window \in Nat \ {0} /\ Window = Pitch * Seconds
  BY <1>1 DEF Window
<1>3. Window \div Pitch = Seconds
  <2> DEFINE p == Window \div Pitch
             s == Window % Pitch
  <2>0. Pitch \in Nat \ {0} /\ Window \in Int
    BY <1>1, <1>2
  <2>1. Window = Pitch * p + s /\ s \in 0..(Pitch - 1) /\ p \in Int
    BY ONLY <2>0, Division DEF p, s
  <2> HIDE DEF p, s
  <2>2. Pitch * p \in Int /\ Pitch * Seconds \in Int
    BY <1>1, <2>1
  <2>3. ~(p < Seconds)
    BY <1>1, <1>2, <2>1, <2>2, ProductGrows
  <2>4. ~(Seconds < p)
    BY <1>1, <1>2, <2>1, <2>2, ProductGrows
  <2>5. p = Seconds
    BY <1>1, <2>1, <2>3, <2>4
  <2>6. QED
    BY <2>5 DEF p
<1>4. QED
  BY <1>1, <1>2, <1>3

LEMMA Elapses ==
  ASSUME HeartTyped, NEW at \in 0..(WrapMs - 1)
  PROVE  /\ Elapsed(at) = IF nowMs >= at THEN nowMs - at ELSE nowMs - at + WrapMs
         /\ Elapsed(at) \in 0..(WrapMs - 1)
         /\ Elapsed(at) = 0 <=> at = nowMs
<1>1. WrapMs \in Nat \ {0} /\ nowMs \in 0..(WrapMs - 1)
  BY HeartConstants DEF HeartTyped
<1>2. Elapsed(at) = IF nowMs >= at THEN nowMs - at ELSE nowMs - at + WrapMs
  BY <1>1, Difference DEF Elapsed
<1>3. QED
  BY <1>1, <1>2

(* A picture that has left the window shows nothing.                       *)
LEMMA GoneIsFlat ==
  ASSUME HeartTyped
  PROVE  /\ Shifted(tokens.intensities, Bins, 0) = Flat
         /\ Shifted(activity.mask, Window \div Pitch, FALSE) = Silent
         /\ Flat \in Bars /\ Silent \in Masks
<1>1. DOMAIN tokens.intensities = 1..Bins /\ DOMAIN activity.mask = 1..Seconds
  BY DEF HeartTyped, Bars, Masks
<1>2. Shifted(tokens.intensities, Bins, 0) = [i \in 1..Bins |-> 0]
  <2>1. \A i \in 1..Bins : i + Bins \notin 1..Bins
    BY HeartConstants
  <2>2. QED
    BY <1>1, <2>1 DEF Shifted
<1>3. Shifted(activity.mask, Seconds, FALSE) = [i \in 1..Seconds |-> FALSE]
  <2>1. \A i \in 1..Seconds : i + Seconds \notin 1..Seconds
    BY HeartConstants
  <2>2. QED
    BY <1>1, <2>1 DEF Shifted
<1>4. Flat \in Bars /\ Silent \in Masks
  BY DEF Flat, Silent, Bars, Masks
<1>5. QED
  BY ONLY <1>2, <1>3, <1>4, HeartConstants DEF Flat, Silent

(* The curve is that of the picture at the token of the frame.             *)
LEMMA CurveIsStrip ==
  ASSUME HeartTyped
  PROVE  Curve = StripOf(Source, FrameToken)
<1>1. CASE Source = "token"
  <2>1. tokens.valid
    BY <1>1 DEF Source
  <2>2. AgedIntensities = Shifted(tokens.intensities, FrameToken, 0)
    <3>1. CASE Elapsed(tokens.at) >= Window
      BY <1>1, <2>1, <3>1, GoneIsFlat DEF AgedIntensities, FrameToken
    <3>2. CASE ~(Elapsed(tokens.at) >= Window)
      BY <1>1, <2>1, <3>2 DEF AgedIntensities, FrameToken
    <3>3. QED
      BY <3>1, <3>2
  <2>3. QED
    BY <1>1, <2>2 DEF Curve, StripOf
<1>2. CASE Source = "activity"
  <2>1. ActivityMaskAt = Shifted(activity.mask, FrameToken \div Pitch, FALSE)
    <3>1. CASE Elapsed(activity.at) >= Window
      BY <1>2, <3>1, GoneIsFlat DEF ActivityMaskAt, FrameToken
    <3>2. CASE ~(Elapsed(activity.at) >= Window)
      BY <1>2, <3>2 DEF ActivityMaskAt, FrameToken
    <3>3. QED
      BY <3>1, <3>2
  <2>2. QED
    BY <1>2, <2>1 DEF Curve, StripOf
<1>3. CASE Source = "none"
  BY <1>3 DEF Curve, StripOf
<1>4. QED
  BY <1>1, <1>2, <1>3 DEF Source

LEMMA NothingPassed ==
  (0 * Bins) \div Window = 0 /\ ~(0 >= Window)
<1>1. 0 * Bins = 0
  BY HeartConstants
<1>2. \A w \in Nat \ {0} : 0 \div w = 0
  OBVIOUS
<1>3. QED
  BY <1>1, <1>2, HeartConstants

(* The token of a frame in the millisecond of the receipt, and in the last *)
(* one before the counter is there again.                                  *)
LEMMA FrameTokens ==
  ASSUME HeartTyped
  PROVE  /\ Source = "token" /\ tokens.at = nowMs => FrameToken = 0
         /\ Source = "activity" /\ activity.at = nowMs => FrameToken = 0
         /\ Source = "none" => FrameToken = 0
         /\ Source = "token" /\ Elapsed(tokens.at) >= Window => FrameToken # 0
         /\ Source = "activity" /\ Elapsed(activity.at) >= Window => FrameToken # 0
<1>1. tokens.at \in 0..(WrapMs - 1) /\ activity.at \in 0..(WrapMs - 1)
  BY DEF HeartTyped
<1>3. ASSUME Source = "token", tokens.at = nowMs PROVE FrameToken = 0
  <2>1. Elapsed(tokens.at) = 0
    BY <1>1, <1>3, Elapses
  <2>2. QED
    BY <1>3, <2>1, NothingPassed DEF FrameToken
<1>4. ASSUME Source = "activity", activity.at = nowMs PROVE FrameToken = 0
  <2>1. Elapsed(activity.at) = 0
    BY <1>1, <1>4, Elapses
  <2>2. QED
    BY <1>4, <2>1, NothingPassed DEF FrameToken
<1>5. QED
  BY <1>3, <1>4, HeartConstants DEF FrameToken

LEMMA DrawKeeps ==
  ASSUME HeartInv, DrawHeartbeat
  PROVE  HeartInv'
<1>1. HeartTyped' /\ AgesAreTrue'
  <2>1. painted' = TRUE /\ UNCHANGED <<nowMs, tokens, activity, link, age, ready>>
    BY DEF DrawHeartbeat
  <2>2. QED
    BY <2>1 DEF HeartInv, HeartTyped, AgesAreTrue, Elapsed
<1>2. Curve' = Curve /\ Key' = Key
  <2>1. UNCHANGED <<nowMs, tokens, activity>>
    BY DEF DrawHeartbeat
  <2>2. QED
    BY <2>1 DEF Curve, Key, Source, FrameToken, AgedIntensities, ActivityMaskAt, Elapsed
<1>3. ASSUME ready PROVE strip' = Curve /\ last' = Key
  <2>1. PICK force \in BOOLEAN :
          \/ Beat(force)
          \/ /\ ~ready \/ (~force /\ Key = last)
             /\ strip' = (IF force THEN <<"blank">> ELSE strip) /\ UNCHANGED last
    BY DEF DrawHeartbeat
  <2>2. CASE Beat(force)
    BY <2>2 DEF Beat
  <2>3. CASE ~force /\ Key = last /\ strip' = strip /\ UNCHANGED last
    <3>1. ~painted
      BY DEF DrawHeartbeat
    <3>2. last.source = Source /\ last.token = tokens.at /\ last.activity = activity.at /\ last.frame = FrameToken
      BY <2>3 DEF Key
    <3>3. strip = StripOf(Source, FrameToken)
      <4>1. Source = "none" => FrameToken = 0
        BY FrameTokens DEF HeartInv
      <4>2. StripOf("none", 0) = <<"line">>
        BY DEF StripOf
      <4>3. Source \in {"token", "activity", "none"}
        BY DEF Source
      <4>4. QED
        BY <1>3, <3>1, <3>2, <4>1, <4>2, <4>3 DEF HeartInv, StripIsLast
    <3>4. QED
      BY <2>3, <3>3, CurveIsStrip DEF HeartInv
  <2>4. QED
    BY <1>3, <2>1, <2>2, <2>3
<1>4. JustPainted' /\ StripIsLast'
  <2>1. painted' = TRUE /\ ready' = ready
    BY DEF DrawHeartbeat
  <2>2. QED
    BY <1>2, <1>3, <2>1 DEF JustPainted, StripIsLast
<1>5. QED
  BY <1>1, <1>4 DEF HeartInv

LEMMA PollKeeps ==
  ASSUME HeartInv, PollStarts
  PROVE  HeartInv'
<1>1. /\ painted /\ painted' = FALSE /\ nowMs' = (nowMs + 1) % WrapMs
      /\ UNCHANGED <<tokens, link, ready, last, strip>>
      /\ age' = [token |-> IF tokens.valid THEN Aged(age.token) ELSE 0,
                 activity |-> IF activity.has THEN Aged(age.activity) ELSE 0]
      /\ activity' = IF link THEN activity ELSE [activity EXCEPT !.at = nowMs']
  BY DEF PollStarts
<1>2. HeartTyped /\ AgesAreTrue /\ WrapMs \in Nat \ {0} /\ nowMs \in 0..(WrapMs - 1)
  BY HeartConstants DEF HeartInv, HeartTyped
<1>3. nowMs' = IF nowMs = WrapMs - 1 THEN 0 ELSE nowMs + 1
  BY <1>1, <1>2, NextReading
<1>4. HeartTyped'
  <2>1. nowMs' \in 0..(WrapMs - 1)
    BY <1>2, <1>3
  <2>2. age' \in [token : 0..WrapMs, activity : 0..WrapMs]
    <3>1. \A n \in 0..WrapMs : Aged(n) \in 0..WrapMs
      BY <1>2 DEF Aged
    <3>2. 0 \in 0..WrapMs /\ age.token \in 0..WrapMs /\ age.activity \in 0..WrapMs
      BY <1>2 DEF HeartTyped
    <3>3. QED
      BY <1>1, <3>1, <3>2
  <2>3. activity' \in [has : BOOLEAN, mask : Masks, at : 0..(WrapMs - 1)]
    BY <1>1, <1>2, <2>1 DEF HeartTyped
  <2>4. QED
    BY <1>1, <1>2, <2>1, <2>2, <2>3 DEF HeartTyped
<1>5. ASSUME NEW at \in 0..(WrapMs - 1), NEW n \in 0..WrapMs, Aged(n) < WrapMs, Elapsed(at) = n
      PROVE  Elapsed(at)' = Aged(n)
  <2>1. n + 1 < WrapMs /\ Aged(n) = n + 1
    BY <1>2, <1>5 DEF Aged
  <2>2. Elapsed(at) = IF nowMs >= at THEN nowMs - at ELSE nowMs - at + WrapMs
    BY <1>2, Elapses
  <2>3. nowMs' \in 0..(WrapMs - 1)
    BY <1>4 DEF HeartTyped
  <2>4. Elapsed(at)' = IF nowMs' >= at THEN nowMs' - at ELSE nowMs' - at + WrapMs
    <3>1. (nowMs' - at) % WrapMs = IF nowMs' >= at THEN nowMs' - at ELSE nowMs' - at + WrapMs
      BY <1>2, <2>3, Difference
    <3>2. QED
      BY <3>1 DEF Elapsed
  <2>5. QED
    BY <1>2, <1>3, <1>5, <2>1, <2>2, <2>4
<1>6. AgesAreTrue'
  <2>0. age.token \in 0..WrapMs /\ age.activity \in 0..WrapMs /\ tokens.at \in 0..(WrapMs - 1)
        /\ activity.at \in 0..(WrapMs - 1) /\ activity.has \in BOOLEAN
    BY <1>2 DEF HeartTyped
  <2>1. \A n \in 0..WrapMs : Aged(n) < WrapMs => n < WrapMs
    BY <1>2 DEF Aged
  <2>2. ASSUME tokens'.valid, age'.token < WrapMs PROVE Elapsed(tokens.at)' = age'.token
    <3>1. tokens.valid /\ age'.token = Aged(age.token)
      BY <1>1, <2>2
    <3>2. Elapsed(tokens.at) = age.token
      BY <1>2, <2>1, <2>0, <2>2, <3>1 DEF AgesAreTrue
    <3>3. tokens' = tokens
      BY <1>1
    <3>4. QED
      BY <1>5, <2>0, <2>2, <3>1, <3>2, <3>3 DEF Elapsed
  <2>3. ASSUME activity'.has, age'.activity < WrapMs PROVE Elapsed(activity.at)' = age'.activity
    <3>1. link
      BY <1>1, <1>2, <2>3 DEF AgesAreTrue, HeartTyped
    <3>2. activity' = activity
      BY <1>1, <3>1
    <3>3. age'.activity = Aged(age.activity)
      BY <1>1, <2>3, <3>2
    <3>4. Elapsed(activity.at) = age.activity
      BY <1>2, <2>1, <2>0, <2>3, <3>2, <3>3 DEF AgesAreTrue
    <3>5. QED
      BY <1>5, <2>0, <2>3, <3>2, <3>3, <3>4 DEF Elapsed
  <2>4. ~link' => ~activity'.has
    BY <1>1, <1>2 DEF AgesAreTrue, HeartTyped
  <2>5. QED
    BY <2>2, <2>3, <2>4 DEF AgesAreTrue
<1>7. JustPainted'
  BY <1>1 DEF JustPainted
<1>8. StripIsLast'
  <2> SUFFICES ASSUME ready
               PROVE  StripIsLast'
    BY <1>1 DEF StripIsLast
  <2>1. strip = StripOf(Source, FrameToken) /\ last = Key
    BY <1>1, <1>2, CurveIsStrip DEF HeartInv, JustPainted
  <2>2. last.source = Source /\ last.token = tokens.at /\ last.activity = activity.at /\ last.frame = FrameToken
    BY <2>1 DEF Key
  <2>3. ASSUME last.source = "token" PROVE strip = StripOf("token", last.frame)'
    <3>1. strip = <<"token", Shifted(tokens.intensities, last.frame, 0)>>
      BY <2>1, <2>2, <2>3 DEF StripOf
    <3>2. tokens' = tokens /\ last' = last
      BY <1>1
    <3>3. QED
      BY <3>1, <3>2 DEF StripOf, Shifted
  <2>4. ASSUME last.source = "activity" PROVE strip = StripOf("activity", last.frame)'
    <3>1. link
      BY <1>2, <2>2, <2>4 DEF AgesAreTrue, Source
    <3>2. activity' = activity /\ last' = last
      BY <1>1, <3>1
    <3>3. strip = StripOf("activity", last.frame)
      BY <2>1, <2>2, <2>4
    <3>4. QED
      BY <3>2, <3>3 DEF StripOf, Shifted
  <2>5. ASSUME last.source = "none" PROVE strip = <<"line">>
    BY <2>1, <2>2, <2>5 DEF StripOf
  <2>6. ASSUME NEW at \in 0..(WrapMs - 1), at = nowMs' PROVE Elapsed(at) >= Window
    <3>1. Elapsed(at) = IF nowMs >= at THEN nowMs - at ELSE nowMs - at + WrapMs
      BY <1>2, Elapses
    <3>2. QED
      BY <1>2, <1>3, <2>6, <3>1, HeartConstants
  <2>7. last.source = "token" /\ last.token = nowMs' => last.frame # 0
    <3>1. tokens.at \in 0..(WrapMs - 1)
      BY <1>2 DEF HeartTyped
    <3>2. QED
      BY <1>2, <2>2, <2>6, <3>1, FrameTokens
  <2>8. last.source = "activity" /\ last.activity = nowMs' => last.frame # 0
    <3>1. activity.at \in 0..(WrapMs - 1)
      BY <1>2 DEF HeartTyped
    <3>2. QED
      BY <1>2, <2>2, <2>6, <3>1, FrameTokens
  <2>9. last' = last /\ strip' = strip
    BY <1>1
  <2>10. QED
    BY <2>3, <2>4, <2>5, <2>7, <2>8, <2>9 DEF StripIsLast
<1>9. QED
  BY <1>4, <1>6, <1>7, <1>8 DEF HeartInv


LEMMA TokensKeep ==
  ASSUME HeartInv, TokensArrive
  PROVE  HeartInv'
<1>1. PICK s \in Bars : tokens' = [valid |-> TRUE, intensities |-> s, at |-> nowMs]
  BY DEF TokensArrive
<1>2. /\ ~painted /\ painted' = painted /\ link' = TRUE /\ age' = [age EXCEPT !.token = 0]
      /\ UNCHANGED <<nowMs, activity, ready, last, strip>>
  BY DEF TokensArrive
<1>3. HeartTyped /\ AgesAreTrue /\ WrapMs \in Nat \ {0} /\ nowMs \in 0..(WrapMs - 1)
  BY HeartConstants DEF HeartInv, HeartTyped
<1>4. HeartTyped'
  <2>1. 0 \in 0..WrapMs
    BY <1>3
  <2>2. age' \in [token : 0..WrapMs, activity : 0..WrapMs]
    BY <1>2, <1>3, <2>1 DEF HeartTyped
  <2>3. tokens' \in [valid : BOOLEAN, intensities : Bars, at : 0..(WrapMs - 1)]
    BY <1>1, <1>3
  <2>4. QED
    BY <1>2, <1>3, <2>2, <2>3 DEF HeartTyped
<1>5. AgesAreTrue'
  <2>1. Elapsed(nowMs) = 0
    BY <1>3, Elapses
  <2>2. tokens'.at = nowMs /\ age'.token = 0 /\ age'.activity = age.activity
    BY <1>1, <1>2, <1>3 DEF HeartTyped
  <2>3. QED
    BY <1>2, <1>3, <2>1, <2>2 DEF AgesAreTrue, Elapsed
<1>6. JustPainted'
  BY <1>2 DEF JustPainted
<1>7. StripIsLast'
  <2> SUFFICES ASSUME ready
               PROVE  StripIsLast'
    BY <1>2 DEF StripIsLast
  <2>1. Source' = "token"
    BY <1>1 DEF Source
  <2>2. tokens'.at = nowMs /\ FrameToken' = 0
    <3>1. tokens'.at = nowMs'
      BY <1>1, <1>2
    <3>2. Elapsed(tokens.at)' = 0
      BY <1>2, <1>3, <3>1, Elapses DEF Elapsed
    <3>3. QED
      BY <1>2, <2>1, <3>1, <3>2, NothingPassed DEF FrameToken
  <2>3. QED
    BY <1>2, <2>1, <2>2 DEF HeartInv, StripIsLast
<1>8. QED
  BY <1>4, <1>5, <1>6, <1>7 DEF HeartInv

LEMMA ActivityKeeps ==
  ASSUME HeartInv, ActivityArrives
  PROVE  HeartInv'
<1>1. PICK m \in Masks : activity' = [has |-> TRUE, mask |-> m, at |-> nowMs]
  BY DEF ActivityArrives
<1>2. /\ ~painted /\ painted' = painted /\ link' = TRUE /\ age' = [age EXCEPT !.activity = 0]
      /\ UNCHANGED <<nowMs, tokens, ready, last, strip>>
  BY DEF ActivityArrives
<1>3. HeartTyped /\ AgesAreTrue /\ WrapMs \in Nat \ {0} /\ nowMs \in 0..(WrapMs - 1)
  BY HeartConstants DEF HeartInv, HeartTyped
<1>4. HeartTyped'
  <2>1. 0 \in 0..WrapMs
    BY <1>3
  <2>2. age' \in [token : 0..WrapMs, activity : 0..WrapMs]
    BY <1>2, <1>3, <2>1 DEF HeartTyped
  <2>3. activity' \in [has : BOOLEAN, mask : Masks, at : 0..(WrapMs - 1)]
    BY <1>1, <1>3
  <2>4. QED
    BY <1>2, <1>3, <2>2, <2>3 DEF HeartTyped
<1>5. AgesAreTrue'
  <2>1. Elapsed(nowMs) = 0
    BY <1>3, Elapses
  <2>2. activity'.at = nowMs /\ age'.activity = 0 /\ age'.token = age.token
    BY <1>1, <1>2, <1>3 DEF HeartTyped
  <2>3. QED
    BY <1>2, <1>3, <2>1, <2>2 DEF AgesAreTrue, Elapsed
<1>6. JustPainted'
  BY <1>2 DEF JustPainted
<1>7. StripIsLast'
  <2> SUFFICES ASSUME ready
               PROVE  StripIsLast'
    BY <1>2 DEF StripIsLast
  <2>1. CASE tokens.valid
    <3>1. Source = "token" /\ Source' = "token"
      BY <1>2, <2>1 DEF Source
    <3>2. FrameToken' = FrameToken
      BY <1>2, <3>1 DEF FrameToken, Elapsed
    <3>3. StripOf("token", last.frame)' = StripOf("token", last.frame)
      BY <1>2 DEF StripOf, Shifted
    <3>4. QED
      BY <1>2, <3>1, <3>2, <3>3 DEF HeartInv, StripIsLast
  <2>2. CASE ~tokens.valid
    <3>1. Source' = "activity"
      BY <1>1, <1>2, <2>2 DEF Source
    <3>2. activity'.at = nowMs /\ FrameToken' = 0
      <4>1. activity'.at = nowMs'
        BY <1>1, <1>2
      <4>2. Elapsed(activity.at)' = 0
        BY <1>2, <1>3, <4>1, Elapses DEF Elapsed
      <4>3. QED
        BY <1>2, <3>1, <4>1, <4>2, NothingPassed DEF FrameToken
    <3>3. QED
      BY <1>2, <3>1, <3>2 DEF HeartInv, StripIsLast
  <2>3. QED
    BY <2>1, <2>2
<1>8. QED
  BY <1>4, <1>5, <1>6, <1>7 DEF HeartInv

LEMMA SilenceKeeps ==
  ASSUME HeartInv, HostSilent
  PROVE  HeartInv'
<1>1. /\ ~painted /\ painted' = painted /\ link' = FALSE /\ age' = [age EXCEPT !.activity = 0]
      /\ activity' = [has |-> FALSE, mask |-> Silent, at |-> nowMs]
      /\ UNCHANGED <<nowMs, tokens, ready, last, strip>>
  BY DEF HostSilent
<1>3. HeartTyped /\ AgesAreTrue /\ WrapMs \in Nat \ {0} /\ nowMs \in 0..(WrapMs - 1)
  BY HeartConstants DEF HeartInv, HeartTyped
<1>4. HeartTyped'
  <2>1. 0 \in 0..WrapMs
    BY <1>3
  <2>2. age' \in [token : 0..WrapMs, activity : 0..WrapMs]
    BY <1>1, <1>3, <2>1 DEF HeartTyped
  <2>3. activity' \in [has : BOOLEAN, mask : Masks, at : 0..(WrapMs - 1)]
    BY <1>1, <1>3, GoneIsFlat
  <2>4. link' \in BOOLEAN
    BY <1>1
  <2>5. QED
    BY <1>1, <1>3, <2>2, <2>3, <2>4 DEF HeartTyped
<1>5. AgesAreTrue'
  <2>2. ~activity'.has /\ age'.token = age.token
    BY <1>1, <1>3 DEF HeartTyped
  <2>3. QED
    BY <1>1, <1>3, <2>2 DEF AgesAreTrue, Elapsed
<1>6. JustPainted'
  BY <1>1 DEF JustPainted
<1>7. StripIsLast'
  <2> SUFFICES ASSUME ready
               PROVE  StripIsLast'
    BY <1>1 DEF StripIsLast
  <2>1. CASE tokens.valid
    <3>1. Source = "token" /\ Source' = "token"
      BY <1>1, <2>1 DEF Source
    <3>2. FrameToken' = FrameToken
      BY <1>1, <3>1 DEF FrameToken, Elapsed
    <3>3. StripOf("token", last.frame)' = StripOf("token", last.frame)
      BY <1>1 DEF StripOf, Shifted
    <3>4. QED
      BY <1>1, <3>1, <3>2, <3>3 DEF HeartInv, StripIsLast
  <2>2. CASE ~tokens.valid
    <3>1. Source' = "none"
      BY <1>1, <2>2 DEF Source
    <3>3. QED
      BY <1>1, <3>1 DEF HeartInv, StripIsLast
  <2>3. QED
    BY <2>1, <2>2
<1>8. QED
  BY <1>4, <1>5, <1>6, <1>7 DEF HeartInv

(* What a frame left on the strip is the curve of now, and a picture out   *)
(* of the window is gone.                                                  *)
LEMMA HeartShows == HeartInv => HeartbeatIsCurrent /\ PulsesFade
<1> SUFFICES ASSUME HeartInv
             PROVE  HeartbeatIsCurrent /\ PulsesFade
  OBVIOUS
<1>1. painted /\ ready => strip = Curve
  BY DEF HeartInv, JustPainted
<1>2. HeartTyped /\ AgesAreTrue
  BY DEF HeartInv
<1>3. age.token \in 0..WrapMs /\ age.activity \in 0..WrapMs
  BY <1>2 DEF HeartTyped
<1>4. ASSUME tokens.valid, age.token \in Window..(WrapMs - 1) PROVE Curve = <<"token", Flat>>
  <2>1. Elapsed(tokens.at) >= Window
    BY <1>2, <1>3, <1>4, HeartConstants DEF AgesAreTrue
  <2>2. QED
    BY <1>4, <2>1 DEF Curve, Source, AgedIntensities
<1>5. ASSUME activity.has, ~tokens.valid, age.activity \in Window..(WrapMs - 1) PROVE Curve = <<"line">>
  <2>1. Elapsed(activity.at) >= Window
    BY <1>2, <1>3, <1>5, HeartConstants DEF AgesAreTrue
  <2>2. QED
    BY <1>5, <2>1 DEF Curve, Source, ActivityMaskAt
<1>6. ~link /\ ~tokens.valid => Curve = <<"line">>
  BY <1>2 DEF Curve, Source, AgesAreTrue
<1>7. QED
  BY <1>1, <1>4, <1>5, <1>6 DEF HeartbeatIsCurrent, PulsesFade

LEMMA HeartHolds == HeartbeatSpec => []HeartInv
<1>1. HeartbeatInit => HeartInv
  <2> SUFFICES ASSUME HeartbeatInit
               PROVE  HeartInv
    OBVIOUS
  <2>1. HeartTyped
    <3>1. 0 \in 0..(WrapMs - 1) /\ 0 \in 0..WrapMs
      BY HeartConstants
    <3>2. Flat \in Bars /\ Silent \in Masks
      BY DEF Flat, Silent, Bars, Masks
    <3>3. tokens \in [valid : BOOLEAN, intensities : Bars, at : 0..(WrapMs - 1)]
      BY <3>1, <3>2 DEF HeartbeatInit
    <3>4. activity \in [has : BOOLEAN, mask : Masks, at : 0..(WrapMs - 1)]
      BY <3>1, <3>2 DEF HeartbeatInit
    <3>5. age \in [token : 0..WrapMs, activity : 0..WrapMs]
      BY <3>1 DEF HeartbeatInit
    <3>6. link \in BOOLEAN /\ ready \in BOOLEAN
      BY DEF HeartbeatInit
    <3>7. painted \in BOOLEAN
      BY DEF HeartbeatInit
    <3>8. QED
      BY <3>1, <3>3, <3>4, <3>5, <3>6, <3>7 DEF HeartbeatInit, HeartTyped
  <2>2. AgesAreTrue
    BY DEF HeartbeatInit, AgesAreTrue
  <2>3. JustPainted /\ StripIsLast
    BY DEF HeartbeatInit, JustPainted, StripIsLast
  <2>4. QED
    BY <2>1, <2>2, <2>3 DEF HeartInv
<1>2. HeartInv /\ [HeartbeatNext]_heartVars => HeartInv'
  <2>1. ASSUME HeartInv, HeartbeatNext PROVE HeartInv'
    BY <2>1, DrawKeeps, PollKeeps, TokensKeep, ActivityKeeps, SilenceKeeps DEF HeartbeatNext
  <2>2. ASSUME HeartInv, UNCHANGED heartVars PROVE HeartInv'
    <3>1. UNCHANGED <<nowMs, tokens, activity, link, age, ready, last, strip, painted>>
      BY <2>2 DEF heartVars
    <3>2. Curve' = Curve /\ Key' = Key /\ FrameToken' = FrameToken /\ Source' = Source
      BY <3>1 DEF Curve, Key, Source, FrameToken, AgedIntensities, ActivityMaskAt, Elapsed
    <3>3. \A s : StripOf(s, last.frame)' = StripOf(s, last.frame)
      BY <3>1 DEF StripOf, Shifted
    <3>4. HeartTyped' /\ AgesAreTrue'
      BY <2>2, <3>1 DEF HeartInv, HeartTyped, AgesAreTrue, Elapsed
    <3>5. JustPainted' /\ StripIsLast'
      BY <2>2, <3>1, <3>2, <3>3 DEF HeartInv, JustPainted, StripIsLast
    <3>6. QED
      BY <3>4, <3>5 DEF HeartInv
  <2>3. QED
    BY <2>1, <2>2
<1>3. QED
  BY <1>1, <1>2, PTL DEF HeartbeatSpec

(* The strip of the heartbeat shows the picture of the host at its age,    *)
(* although a frame that looks the same is left out                        *)
(* (drawLandscapeDashboardHeartbeat), for any window and any bins.         *)
THEOREM BeatsAreCurrent == HeartbeatSpec => [](HeartbeatIsCurrent /\ PulsesFade)
BY HeartHolds, HeartShows, PTL

--------------------------------------------------------------------------------
(***************************************************************************)
(* The clock face.                                                         *)
(***************************************************************************)

Percents == {Absent} \cup 0..100
Usages == [five : Percents, seven : Percents]
Moments == 0..(Steps - 1)
FullCaches ==
  [init : {TRUE}, orient : {0, 1, 3}, persona : Personas, second : Int, date : Int,
   status : [running : Nat, waiting : Nat, unread : Nat], nextPet : Moments]

FaceTyped ==
  /\ clock \in Clocks /\ faceOrient \in {0, 1, 3} /\ jumped \in BOOLEAN /\ faceDrawn \in BOOLEAN
  /\ tama \in [connected : BOOLEAN, running : Nat, waiting : Nat, unread : Nat \cup {Absent},
               five : Percents, seven : Percents]
  /\ now \in Moments /\ persona \in Personas /\ late \in Nat
  /\ faceCache = NoFaceCache \/ faceCache \in FullCaches
  /\ meter \in [five : Percents, seven : Percents, wave : {Still} \cup Moments]

(* What the cache says of the canvas is so, the time aside, which another  *)
(* minute may have overtaken.                                              *)
TimeShown ==
  faceCache.init =>
    /\ canvas.time = TimeText(clock) \/ jumped \/ faceCache.second # SecondKey(clock)
    /\ faceDrawn => faceCache.second = SecondKey(clock)
DateShown ==
  faceCache.init => \E c \in Clocks : faceCache.date = DateKey(c) /\ canvas.date = DateText(c)
LayersShown ==
  faceCache.init =>
    /\ canvas.by = faceCache.orient
    /\ Landscape => canvas.cards = faceCache.status
    /\ (faceCache.nextPet - now) % Steps \in 1..PetEvery
    /\ late + ((faceCache.nextPet - now) % Steps) <= PetEvery
    /\ faceDrawn => /\ faceCache.orient = faceOrient /\ faceCache.status = Counts(tama)
                    /\ faceCache.date = DateKey(clock)

(* The bars on the canvas are those of the render state, and after a frame *)
(* the render state is that of the usage.                                  *)
Usage == [five |-> tama.five, seven |-> tama.seven]
Windows(state) == [five |-> state.five, seven |-> state.seven]
Unknown(usage) == usage.five = Absent /\ usage.seven = Absent
BarsShown ==
  faceCache.init =>
    /\ faceCache.orient = 0 <=> ~Landscape
    /\ canvas.bars = Plan(Windows(meter)) /\ canvas.wave = meter.wave
    /\ Unknown(Usage) => meter = Hidden
    /\ faceDrawn => /\ Windows(meter) = Metered(Usage)
                    /\ meter.wave = IF Animated(Usage) THEN now ELSE Still

FaceInv == FaceTyped /\ TimeShown /\ DateShown /\ LayersShown /\ BarsShown

LEMMA CacheKeys ==
  ASSUME faceCache \in FullCaches
  PROVE  /\ \A v : CacheSays("orient", v) <=> faceCache.orient = v
         /\ \A v : CacheSays("persona", v) <=> faceCache.persona = v
         /\ \A v : CacheSays("second", v) <=> faceCache.second = v
         /\ \A v : CacheSays("date", v) <=> faceCache.date = v
         /\ \A v : CacheSays("status", v) <=> faceCache.status = v
         /\ faceCache.init
BY DEF CacheSays, FullCaches

LEMMA NoCacheKeys ==
  ASSUME faceCache = NoFaceCache
  PROVE  ~faceCache.init /\ FullRepaint
BY DEF CacheSays, FullRepaint, NoFaceCache

LEMMA FieldsAre ==
  ASSUME NEW c \in Clocks
  PROVE  c \in [trusted : BOOLEAN, hour : Int, minute : Int, second : Int, weekday : Int,
                      month : Int, date : Int]
BY FaceAssumption

LEMMA MinusOne ==
  ASSUME NEW x \in Int, x = -1
  PROVE  x % 8 = 7 /\ x % 16 = 15 /\ x % 32 = 31
<1>1. ASSUME NEW W \in {8, 16, 32} PROVE x % W = W - 1
  <2>1. \A z \in Int : z < 0 /\ -W < z => z % W = z + W
    OBVIOUS
  <2>2. QED
    BY <2>1
<1>2. QED
  BY <1>1

(* Dates with one key have one text.                                       *)
LEMMA DateKeys ==
  ASSUME NEW c \in Clocks, NEW d \in Clocks, DateKey(c) = DateKey(d)
  PROVE  DateText(c) = DateText(d)
<1> DEFINE K(w, m, a) == (w % 8) * 512 + (m % 16) * 32 + (a % 32)
<1>0. \A w \in 0..6, m \in 1..12, a \in 1..31 : K(w, m, a) = w * 512 + m * 32 + a
  OBVIOUS
<1> DEFINE x == -1
<1>1. x \in Int /\ x = -1
  OBVIOUS
<1>2. K(x, x, x) = 7 * 512 + 15 * 32 + 31
  <2>1. x % 8 = 7 /\ x % 16 = 15 /\ x % 32 = 31
    BY ONLY <1>1, MinusOne
  <2> HIDE DEF x
  <2>2. QED
    BY <2>1
<1>3. ASSUME NEW e \in Clocks, FieldsValid(e)
      PROVE  /\ DateKey(e) = e.weekday * 512 + e.month * 32 + e.date
             /\ e.weekday \in 0..6 /\ e.month \in 1..12 /\ e.date \in 1..31
  <2>1. e.weekday \in 0..6 /\ e.month \in 1..12 /\ e.date \in 1..31
    BY <1>3 DEF FieldsValid
  <2>2. DateKey(e) = K(e.weekday, e.month, e.date)
    BY <1>3 DEF DateKey
  <2> HIDE DEF K
  <2>3. QED
    BY <1>0, <2>1, <2>2
<1>4. ASSUME NEW e \in Clocks, ~FieldsValid(e) PROVE DateKey(e) = 7 * 512 + 15 * 32 + 31
  <2>1. DateKey(e) = K(x, x, x)
    BY <1>4 DEF DateKey
  <2> HIDE DEF K, x
  <2>3. QED
    BY <1>2, <2>1
<1> HIDE DEF K
<1>5. CASE FieldsValid(c) /\ FieldsValid(d)
  <2>1. c.weekday = d.weekday /\ c.month = d.month /\ c.date = d.date
    <3>1. /\ c.weekday \in 0..6 /\ c.month \in 1..12 /\ c.date \in 1..31
          /\ d.weekday \in 0..6 /\ d.month \in 1..12 /\ d.date \in 1..31
      BY <1>3, <1>5
    <3>2. c.weekday * 512 + c.month * 32 + c.date = d.weekday * 512 + d.month * 32 + d.date
      BY <1>3, <1>5
    <3> DEFINE v == c.weekday
               w == d.weekday
               m == c.month
               n == d.month
               a == c.date
               b == d.date
    <3>3. v = w /\ m = n /\ a = b
      <4>1. v \in 0..6 /\ w \in 0..6 /\ m \in 1..12 /\ n \in 1..12 /\ a \in 1..31 /\ b \in 1..31
        BY <3>1
      <4>2. v * 512 + m * 32 + a = w * 512 + n * 32 + b
        BY <3>2
      <4> HIDE DEF v, w, m, n, a, b
      <4>3. QED
        BY ONLY <4>1, <4>2
    <3>4. QED
      BY <3>3
  <2>2. QED
    BY <1>5, <2>1 DEF DateText
<1>6. CASE ~FieldsValid(c) /\ ~FieldsValid(d)
  BY <1>6 DEF DateText
<1>7. CASE FieldsValid(c) /\ ~FieldsValid(d)
  BY <1>3, <1>4, <1>7
<1>8. CASE ~FieldsValid(c) /\ FieldsValid(d)
  BY <1>3, <1>4, <1>8
<1>9. QED
  BY <1>5, <1>6, <1>7, <1>8

(* A report leaves the usage as it is or tells more than nothing.          *)
LEMMA UsageStays ==
  ASSUME NEW usage \in Usages, NEW report \in [five : Int, seven : Int]
  PROVE  /\ UsageAfter(usage, report) \in Usages
         /\ Unknown(UsageAfter(usage, report)) => Unknown(usage)
<1>1. CASE UsageAfter(usage, report) = usage
  BY <1>1
<1>2. CASE UsageAfter(usage, report) # usage
  <2>1. /\ UsageAfter(usage, report) = report /\ report # [five |-> Absent, seven |-> Absent]
        /\ {report.five, report.seven} \subseteq Percents
    BY <1>2 DEF UsageAfter, Percents
  <2>2. ~Unknown(report)
    BY <2>1 DEF Unknown
  <2>3. report \in Usages
    BY <2>1 DEF Usages
  <2>4. QED
    BY <2>1, <2>2, <2>3
<1>3. QED
  BY <1>1, <1>2

(* The rows of a plan.                                                     *)
LEMMA Sizes ==
  ASSUME faceOrient \in {0, 1, 3}
  PROVE  /\ Landscape => Width = 240 /\ Height = 135 /\ (Width - 8 + 2) \div 8 = 29
         /\ ~Landscape => Width = 135 /\ Height = 240
BY DEF Landscape, Width, Height

LEMMA Plans ==
  ASSUME faceOrient \in {0, 1, 3}, NEW usage \in Usages
  PROVE  /\ Unknown(usage) => Plan(usage) = NoBars
         /\ Landscape /\ ~Unknown(usage) =>
              /\ DOMAIN Plan(usage) = {109}
              /\ Plan(usage) = [y \in {109} |->
                   Bar(29, IF usage.seven # Absent THEN usage.seven ELSE usage.five, "bright")]
         /\ ~Landscape /\ usage.five # Absent /\ usage.seven # Absent =>
              /\ DOMAIN Plan(usage) = {224, 232}
              /\ Plan(usage) = [y \in {224, 232} |->
                   IF y = 232 THEN Bar(131, usage.seven, "dim") ELSE Bar(131, usage.five, "bright")]
         /\ ~Landscape /\ usage.five # Absent /\ usage.seven = Absent =>
              /\ DOMAIN Plan(usage) = {232}
              /\ Plan(usage) = [y \in {232} |-> Bar(131, usage.five, "bright")]
         /\ ~Landscape /\ usage.five = Absent /\ usage.seven # Absent =>
              /\ DOMAIN Plan(usage) = {232}
              /\ Plan(usage) = [y \in {232} |-> Bar(131, usage.seven, "dim")]
<1>1. CASE Landscape
  <2>1. Plan(usage) = LandscapePlan(usage)
    BY <1>1 DEF Plan
  <2>2. Height - 26 = 109 /\ (Width - 8 + 2) \div 8 = 29
    BY <1>1, Sizes
  <2>3. QED
    BY <1>1, <2>1, <2>2 DEF LandscapePlan, Unknown
<1>2. CASE ~Landscape
  <2>1. Plan(usage) = PortraitPlan(usage)
    BY <1>2 DEF Plan
  <2>2. Height - 8 = 232 /\ 232 - 8 = 224 /\ Width - 4 = 131
    BY <1>2, Sizes
  <2>3. QED
    BY <1>2, <2>1, <2>2 DEF PortraitPlan, Unknown
<1>3. QED
  BY <1>1, <1>2

MeterStates == [five : Percents, seven : Percents, wave : {Still} \cup Moments]

LEMMA PlanIsFunction ==
  ASSUME faceOrient \in {0, 1, 3}, NEW usage \in Usages
  PROVE  Plan(usage) = [y \in DOMAIN Plan(usage) |-> Plan(usage)[y]]
<1>1. CASE Unknown(usage)
  BY <1>1, Plans, ZenonT(60) DEF NoBars
<1>2. CASE Landscape /\ ~Unknown(usage)
  BY <1>2, Plans
<1>3. CASE ~Landscape /\ usage.five # Absent /\ usage.seven # Absent
  BY <1>3, Plans
<1>4. CASE ~Landscape /\ usage.five # Absent /\ usage.seven = Absent
  BY <1>4, Plans
<1>5. CASE ~Landscape /\ usage.five = Absent /\ usage.seven # Absent
  BY <1>5, Plans
<1>6. QED
  BY <1>1, <1>2, <1>3, <1>4, <1>5 DEF Unknown

(* A plan painted over one with the same rows, or over nothing, is there.  *)
LEMMA OverIt ==
  ASSUME NEW f, NEW g, f = [y \in DOMAIN f |-> f[y]], DOMAIN g = {} \/ DOMAIN g = DOMAIN f
  PROVE  Over(f, g) = f
<1>1. DOMAIN f \cup DOMAIN g = DOMAIN f
  OBVIOUS
<1>2. Over(f, g) = [y \in DOMAIN f |-> f[y]]
  BY <1>1 DEF Over
<1>3. QED
  BY <1>2

LEMMA MeteredIs ==
  ASSUME faceOrient \in {0, 1, 3}, NEW usage \in Usages
  PROVE  /\ Metered(usage) \in Usages /\ Plan(Metered(usage)) = Plan(usage)
         /\ Unknown(Metered(usage)) <=> Unknown(usage)
         /\ Metered(usage).seven = usage.seven
<1> DEFINE r == Metered(usage)
<1>1. CASE Landscape /\ usage.seven # Absent
  <2>1. r = [usage EXCEPT !.five = Absent]
    BY <1>1 DEF Metered
  <2> HIDE DEF r
  <2>2. r \in Usages /\ r.seven = usage.seven /\ r.five = Absent
    BY <2>1 DEF Usages, Percents
  <2>3. Plan(r) = Plan(usage)
    BY <1>1, <2>2, Plans DEF Unknown
  <2>4. QED
    BY <1>1, <2>2, <2>3 DEF Unknown, r
<1>2. CASE ~(Landscape /\ usage.seven # Absent)
  BY <1>2 DEF Metered
<1>3. QED
  BY <1>1, <1>2

LEMMA KnownIsVisible ==
  ASSUME faceOrient \in {0, 1, 3}, NEW usage \in Usages
  PROVE  Plan(usage) # NoBars <=> ~Unknown(usage)
<1>1. DOMAIN NoBars = {}
  BY DEF NoBars
<1>2. CASE Unknown(usage)
  BY <1>2, Plans
<1>3. CASE ~Unknown(usage)
  <2>1. DOMAIN Plan(usage) # {}
    BY <1>3, Plans DEF Unknown
  <2>2. QED
    BY <1>1, <1>3, <2>1
<1>4. QED
  BY <1>2, <1>3

(* A frame of the meter leaves the bars and the wave of the usage, on a    *)
(* canvas that shows those of the render state.                            *)
MeterDrawn(s, u, t, m, kept) ==
  /\ m.state \in MeterStates
  /\ Windows(m.state) = Metered(u)
  /\ m.state.wave = IF Animated(u) THEN t ELSE Still
  /\ (IF m.draw THEN Over(Plan(u), kept) ELSE kept) = Plan(u)
  /\ (IF m.draw THEN m.state.wave ELSE s.wave) = m.state.wave

MeterFrames(s, u, t) == {MeterFrame(s, u, t, TRUE), MeterFrame(s, u, t, FALSE)}

LEMMA MeterDraws ==
  ASSUME faceOrient \in {0, 1, 3}, NEW s \in MeterStates, NEW u \in Usages, NEW t \in Moments,
         Unknown(u) => s = Hidden, NEW m \in MeterFrames(s, u, t),
         NEW kept, kept = IF m.clear THEN NoBars ELSE Plan(Windows(s))
  PROVE  MeterDrawn(s, u, t, m, kept)
<1> DEFINE upto == IF ~(Plan(u) # NoBars) THEN Hidden
                   ELSE [five |-> Metered(u).five, seven |-> Metered(u).seven,
                         wave |-> IF Animated(u) THEN t ELSE Still]
           changed == \/ (s.five = Absent) # (upto.five = Absent)
                      \/ (s.seven = Absent) # (upto.seven = Absent)
<1>1. /\ m.state = upto
      /\ m.draw => Plan(u) # NoBars
      /\ Plan(u) # NoBars /\ upto # s => m.draw
      /\ m.clear = ((s.five # Absent \/ s.seven # Absent) /\ changed)
  <2>1. CASE m = MeterFrame(s, u, t, TRUE)
    BY <2>1 DEF MeterFrame
  <2>2. CASE m = MeterFrame(s, u, t, FALSE)
    BY <2>2 DEF MeterFrame
  <2>3. QED
    BY <2>1, <2>2 DEF MeterFrames
<1>2. Windows(s) \in Usages /\ s.wave \in {Still} \cup Moments /\ Metered(u) \in Usages
  BY MeteredIs DEF MeterStates, Windows, Usages
<1>3. s = [five |-> s.five, seven |-> s.seven, wave |-> s.wave]
  BY DEF MeterStates
<1>4. CASE Unknown(u)
  <2>1. Plan(u) = NoBars /\ upto = Hidden /\ s = Hidden
    BY <1>4, KnownIsVisible
  <2>2. ~m.draw /\ ~m.clear /\ m.state = Hidden
    BY <1>1, <2>1 DEF Hidden
  <2>3. ~Animated(u)
    BY <2>1 DEF Animated, NoBars
  <2>4. Plan(Windows(s)) = NoBars
    <3>1. Unknown(Windows(s))
      BY <2>1 DEF Unknown, Windows, Hidden
    <3>2. QED
      BY <1>2, <3>1, Plans
  <2>5. Metered(u) = u /\ u = [five |-> Absent, seven |-> Absent]
    BY <1>4 DEF Metered, Unknown, Usages
  <2>6. Windows(Hidden) = [five |-> Absent, seven |-> Absent] /\ Hidden.wave = Still
    BY DEF Windows, Hidden
  <2>7. QED
    BY <2>1, <2>2, <2>3, <2>4, <2>5, <2>6 DEF MeterDrawn
<1>5. CASE ~Unknown(u)
  <2> DEFINE w == IF Animated(u) THEN t ELSE Still
  <2>1. Plan(u) # NoBars
    BY <1>5, KnownIsVisible
  <2>2. upto = [five |-> Metered(u).five, seven |-> Metered(u).seven, wave |-> w]
    BY <2>1
  <2>3. w \in {Still} \cup Moments
    OBVIOUS
  <2> HIDE DEF w
  <2>4. upto \in MeterStates /\ upto.wave = w
    BY <1>2, <2>2, <2>3 DEF MeterStates, Usages
  <2>5. upto.five = Metered(u).five /\ upto.seven = Metered(u).seven
    BY <2>2
  <2>6. Windows(upto) = Metered(u)
    BY <1>2, <2>5 DEF Windows, Usages
  <2> HIDE DEF upto
  <2>7. CASE upto = s
    <3>1. ~m.clear
      BY <1>1, <2>7
    <3>2. kept = Plan(u)
      BY <2>6, <2>7, <3>1, MeteredIs
    <3>3. Over(Plan(u), kept) = Plan(u)
      BY <3>2, OverIt, PlanIsFunction
    <3>4. QED
      BY <1>1, <2>4, <2>6, <2>7, <3>2, <3>3 DEF w, MeterDrawn
  <2>8. CASE upto # s
    <3>1. m.draw
      BY <1>1, <2>1, <2>8
    <3>2. DOMAIN kept = {} \/ DOMAIN kept = DOMAIN Plan(u)
      <4>1. CASE m.clear
        BY <4>1 DEF NoBars
      <4>2. CASE ~m.clear /\ Unknown(Windows(s))
        BY <1>2, <4>2, Plans DEF NoBars
      <4>3. CASE ~m.clear /\ ~Unknown(Windows(s))
        <5>1. ~changed
          BY <1>1, <4>3 DEF Unknown, Windows
        <5>2. (s.five = Absent <=> Metered(u).five = Absent) /\ (s.seven = Absent <=> Metered(u).seven = Absent)
          BY <2>5, <5>1
        <5>3. DOMAIN Plan(Windows(s)) = DOMAIN Plan(Metered(u))
          <6>1. Windows(s).five = s.five /\ Windows(s).seven = s.seven
            BY DEF Windows
          <6>2. QED
            BY <1>2, <4>3, <5>2, <6>1, Plans DEF Unknown
        <5>4. QED
          BY <4>3, <5>3, MeteredIs
      <4>4. QED
        BY <4>1, <4>2, <4>3
    <3>3. Over(Plan(u), kept) = Plan(u)
      BY <3>2, OverIt, PlanIsFunction
    <3>4. QED
      BY <1>1, <2>4, <2>6, <3>1, <3>3 DEF w, MeterDrawn
  <2>9. QED
    BY <2>7, <2>8
<1>6. QED
  BY <1>4, <1>5

(* The pet is due an interval after it was painted, and until then the     *)
(* difference to that time stays on the near side of the counter.          *)
LEMMA PetArithmetic ==
  ASSUME NEW n \in Moments, NEW g \in Gaps, NEW t, t = (n + g) % Steps, NEW q \in Moments
  PROVE  /\ t \in Moments /\ g \in Nat /\ PetEvery \in Nat \ {0}
         /\ (t + PetEvery) % Steps \in Moments
         /\ (((t + PetEvery) % Steps) - t) % Steps = PetEvery
         /\ (q - n) % Steps \in Moments
         /\ (q - n) % Steps \in 1..PetEvery /\ ~PetFrameDue(t, q) =>
              (q - t) % Steps \in 1..PetEvery /\ g + ((q - t) % Steps) = (q - n) % Steps
<1>1. PetEvery \in Nat \ {0} /\ g \in Nat /\ PetEvery + g < 8
  BY FaceAssumption DEF Steps
<1>2. Moments = 0..15
  BY DEF Moments, Steps
<1>3. \A x \in 0..31 : x % 16 = IF x < 16 THEN x ELSE x - 16
  OBVIOUS
<1>4. \A x, y \in 0..15 : (x - y) % 16 = IF x >= y THEN x - y ELSE x - y + 16
  <2>1. ASSUME NEW x \in 0..(16 - 1), NEW y \in 0..(16 - 1)
        PROVE  (x - y) % 16 = IF x >= y THEN x - y ELSE x - y + 16
    BY Difference
  <2>2. QED
    BY <2>1
<1>5. t = (n + g) % 16
  BY DEF Steps
<1>6. t \in 0..15 /\ t = IF n + g < 16 THEN n + g ELSE n + g - 16
  BY <1>1, <1>2, <1>3, <1>5
<1> DEFINE p == (t + PetEvery) % 16
<1>7. p \in 0..15 /\ p = IF t + PetEvery < 16 THEN t + PetEvery ELSE t + PetEvery - 16
  BY <1>1, <1>3, <1>6
<1> HIDE DEF p
<1>8. (p - t) % 16 = PetEvery
  BY <1>1, <1>4, <1>6, <1>7
<1>9. (q - n) % 16 \in 0..15
  BY <1>2, <1>4
<1>10. ASSUME (q - n) % 16 \in 1..PetEvery, ~PetFrameDue(t, q)
       PROVE  (q - t) % 16 \in 1..PetEvery /\ g + ((q - t) % 16) = (q - n) % 16
  <2>1. ~((t - q) % 16 < 8)
    BY <1>10 DEF PetFrameDue, Steps
  <2>2. /\ (t - q) % 16 = IF t >= q THEN t - q ELSE t - q + 16
        /\ (q - t) % 16 = IF q >= t THEN q - t ELSE q - t + 16
        /\ (q - n) % 16 = IF q >= n THEN q - n ELSE q - n + 16
    BY <1>2, <1>4, <1>6
  <2> DEFINE a == (t - q) % 16
             b == (q - t) % 16
             c == (q - n) % 16
  <2> HIDE DEF a, b, c
  <2>3. /\ a = IF t >= q THEN t - q ELSE t - q + 16
        /\ b = IF q >= t THEN q - t ELSE q - t + 16
        /\ c = IF q >= n THEN q - n ELSE q - n + 16
        /\ c \in 1..PetEvery /\ ~(a < 8)
    BY <1>10, <2>1, <2>2 DEF a, b, c
  <2>4. b \in 1..PetEvery /\ g + b = c
    BY <1>1, <1>2, <1>6, <2>3
  <2>5. QED
    BY <2>4 DEF b, c
<1>11. QED
  BY <1>1, <1>2, <1>6, <1>7, <1>8, <1>9, <1>10 DEF Steps, p

(* The parts of a frame, by their names.                                   *)
FrameMeter(t) ==
  IF FullRepaint THEN MeterFrame(Hidden, Usage, t, TRUE) ELSE MeterFrame(meter, Usage, t, FALSE)
FrameUnder == IF FullRepaint THEN [Blank EXCEPT !.by = faceOrient] ELSE Beneath
DrawsTime == FullRepaint \/ ~CacheSays("second", SecondKey(clock))
DrawsDate == FullRepaint \/ ~CacheSays("date", DateKey(clock))
DrawsStatus == Landscape /\ (FullRepaint \/ ~CacheSays("status", Counts(tama)))
DrawsPet(t) == FullRepaint \/ PetFrameDue(t, faceCache.nextPet)
FrameKept(t) == IF FrameMeter(t).clear THEN NoBars ELSE FrameUnder.bars

LEMMA FrameIs ==
  ASSUME FaceFrame
  PROVE  \E gap \in Gaps, t \in {(now + g) % Steps : g \in Gaps} :
           /\ t = (now + gap) % Steps
           /\ now' = t
           /\ canvas' =
                [by |-> FrameUnder.by,
                 time |-> IF DrawsTime THEN TimeText(clock) ELSE FrameUnder.time,
                 date |-> IF DrawsDate THEN DateText(clock) ELSE FrameUnder.date,
                 cards |-> IF DrawsStatus THEN Counts(tama) ELSE FrameUnder.cards,
                 pet |-> IF DrawsPet(t) THEN PetLayer ELSE FrameUnder.pet,
                 bars |-> IF FrameMeter(t).draw THEN Over(Plan(Usage), FrameKept(t)) ELSE FrameKept(t),
                 wave |-> IF FrameMeter(t).draw THEN FrameMeter(t).state.wave ELSE FrameUnder.wave]
           /\ meter' = FrameMeter(t).state
           /\ faceCache' = [init |-> TRUE, orient |-> faceOrient, persona |-> persona,
                            second |-> SecondKey(clock), date |-> DateKey(clock),
                            status |-> Counts(tama),
                            nextPet |-> IF DrawsPet(t) THEN (t + PetEvery) % Steps ELSE faceCache.nextPet]
           /\ faceDrawn' = TRUE /\ jumped' = (jumped /\ ~DrawsTime)
           /\ late' = IF canvas'.pet = PetLayer THEN 0 ELSE late + gap
           /\ UNCHANGED <<clock, tama, persona, faceOrient>>
BY ZenonT(60) DEF FaceFrame, FrameMeter, FrameUnder, DrawsTime, DrawsDate, DrawsStatus, DrawsPet, FrameKept, Usage

LEMMA CacheHolds ==
  ASSUME FaceInv, ~FullRepaint
  PROVE  /\ faceCache \in FullCaches /\ faceCache.init
         /\ faceCache.orient = faceOrient /\ FrameUnder = canvas
<1>1. faceCache \in FullCaches
  BY NoCacheKeys DEF FaceInv, FaceTyped
<1>2. CacheSays("orient", faceOrient) /\ CacheSays("persona", persona)
  BY DEF FullRepaint
<1>3. FrameUnder = canvas
  BY <1>2 DEF FrameUnder, Beneath
<1>4. QED
  BY <1>1, <1>2, <1>3, CacheKeys

LEMMA HiddenIs == Hidden \in MeterStates /\ Plan(Windows(Hidden)) = NoBars /\ Hidden.wave = Still
<1>1. Hidden \in MeterStates /\ Hidden.wave = Still
  BY DEF Hidden, MeterStates, Percents, Absent
<1>2. Windows(Hidden).five = Absent /\ Windows(Hidden).seven = Absent
  BY DEF Hidden, Windows
<1>3. Plan(Windows(Hidden)) = NoBars
  BY <1>2 DEF Plan, LandscapePlan, PortraitPlan
<1>4. QED
  BY <1>1, <1>3

LEMMA FaceFrameKeeps ==
  ASSUME FaceInv, FaceFrame
  PROVE  FaceInv'
<1>1. PICK gap \in Gaps, t \in {(now + g) % Steps : g \in Gaps} :
           /\ t = (now + gap) % Steps
           /\ now' = t
           /\ canvas' =
                [by |-> FrameUnder.by,
                 time |-> IF DrawsTime THEN TimeText(clock) ELSE FrameUnder.time,
                 date |-> IF DrawsDate THEN DateText(clock) ELSE FrameUnder.date,
                 cards |-> IF DrawsStatus THEN Counts(tama) ELSE FrameUnder.cards,
                 pet |-> IF DrawsPet(t) THEN PetLayer ELSE FrameUnder.pet,
                 bars |-> IF FrameMeter(t).draw THEN Over(Plan(Usage), FrameKept(t)) ELSE FrameKept(t),
                 wave |-> IF FrameMeter(t).draw THEN FrameMeter(t).state.wave ELSE FrameUnder.wave]
           /\ meter' = FrameMeter(t).state
           /\ faceCache' = [init |-> TRUE, orient |-> faceOrient, persona |-> persona,
                            second |-> SecondKey(clock), date |-> DateKey(clock),
                            status |-> Counts(tama),
                            nextPet |-> IF DrawsPet(t) THEN (t + PetEvery) % Steps ELSE faceCache.nextPet]
           /\ faceDrawn' = TRUE /\ jumped' = (jumped /\ ~DrawsTime)
           /\ late' = IF canvas'.pet = PetLayer THEN 0 ELSE late + gap
           /\ UNCHANGED <<clock, tama, persona, faceOrient>>
  BY FrameIs
<1>2. FaceTyped /\ t \in Moments /\ gap \in Nat /\ PetEvery \in Nat \ {0}
      /\ faceOrient \in {0, 1, 3} /\ now \in Moments
  BY <1>1, PetArithmetic DEF FaceInv, FaceTyped
<1>3. Usage \in Usages
  BY <1>2 DEF FaceTyped, Usage, Usages
<1>4. /\ FrameMeter(t).state \in MeterStates
      /\ Windows(FrameMeter(t).state) = Metered(Usage)
      /\ FrameMeter(t).state.wave = IF Animated(Usage) THEN t ELSE Still
      /\ canvas'.bars = Plan(Usage) /\ canvas'.wave = FrameMeter(t).state.wave
  <2>1. CASE FullRepaint
    <3> DEFINE m == FrameMeter(t)
               kept == FrameKept(t)
    <3>1. m = MeterFrame(Hidden, Usage, t, TRUE)
      BY <2>1 DEF FrameMeter
    <3>2. FrameUnder.bars = NoBars /\ FrameUnder.wave = Still
      BY <2>1 DEF FrameUnder, Blank
    <3>3. kept = IF m.clear THEN NoBars ELSE Plan(Windows(Hidden))
      BY <3>2, HiddenIs DEF FrameKept
    <3>4. /\ canvas'.bars = IF m.draw THEN Over(Plan(Usage), kept) ELSE kept
          /\ canvas'.wave = IF m.draw THEN m.state.wave ELSE Hidden.wave
      BY <1>1, <3>2, HiddenIs
    <3> HIDE DEF m, kept
    <3>5. MeterDrawn(Hidden, Usage, t, m, kept)
      <4>1. Hidden \in MeterStates /\ TRUE \in BOOLEAN /\ (Unknown(Usage) => Hidden = Hidden)
        BY HiddenIs
      <4>2. faceOrient \in {0, 1, 3} /\ t \in Moments
        BY <1>2
      <4>3. m \in MeterFrames(Hidden, Usage, t)
        BY <3>1 DEF MeterFrames
      <4>4. QED
        BY ONLY <1>3, <3>3, <4>1, <4>2, <4>3, MeterDraws
    <3>6. QED
      BY <3>4, <3>5 DEF m, MeterDrawn
  <2>2. CASE ~FullRepaint
    <3> DEFINE m == FrameMeter(t)
               kept == FrameKept(t)
    <3>1. m = MeterFrame(meter, Usage, t, FALSE)
      BY <2>2 DEF FrameMeter
    <3>2. FrameUnder = canvas /\ faceCache.init
      BY <2>2, CacheHolds
    <3>3. canvas.bars = Plan(Windows(meter)) /\ canvas.wave = meter.wave /\ (Unknown(Usage) => meter = Hidden)
      BY <3>2 DEF FaceInv, BarsShown
    <3>4. kept = IF m.clear THEN NoBars ELSE Plan(Windows(meter))
      BY <3>2, <3>3 DEF FrameKept
    <3>5. /\ canvas'.bars = IF m.draw THEN Over(Plan(Usage), kept) ELSE kept
          /\ canvas'.wave = IF m.draw THEN m.state.wave ELSE meter.wave
      BY <1>1, <3>2, <3>3
    <3>6. meter \in MeterStates
      BY <1>2 DEF FaceTyped, MeterStates
    <3> HIDE DEF m, kept
    <3>7. MeterDrawn(meter, Usage, t, m, kept)
      <4>1. faceOrient \in {0, 1, 3} /\ t \in Moments /\ FALSE \in BOOLEAN
        BY <1>2
      <4>2. Unknown(Usage) => meter = Hidden
        BY <3>3
      <4>3. m \in MeterFrames(meter, Usage, t)
        BY <3>1 DEF MeterFrames
      <4>4. QED
        BY ONLY <1>3, <3>4, <3>6, <4>1, <4>2, <4>3, MeterDraws
    <3>8. QED
      BY <3>5, <3>7 DEF m, MeterDrawn
  <2>3. QED
    BY <2>1, <2>2
<1>5. /\ Usage' = Usage /\ Metered(Usage)' = Metered(Usage) /\ Plan(Usage)' = Plan(Usage)
      /\ (Animated(Usage) <=> Animated(Usage)') /\ (Landscape <=> Landscape')
      /\ (Unknown(Usage) <=> Unknown(Usage)')
  BY <1>1 DEF Usage, Metered, Plan, PortraitPlan, LandscapePlan, Animated, Landscape, Width, Height, Unknown
<1>6. /\ faceCache'.orient = faceOrient' /\ faceCache'.second = SecondKey(clock)'
      /\ faceCache'.date = DateKey(clock)' /\ faceCache'.status = Counts(tama)'
      /\ faceCache'.init
  BY <1>1 DEF SecondKey, DateKey, Counts, FieldsValid
<1>7. /\ faceCache'.nextPet \in Moments
      /\ (faceCache'.nextPet - now') % Steps \in 1..PetEvery
      /\ late' \in Nat
      /\ late' + ((faceCache'.nextPet - now') % Steps) <= PetEvery
  <2>1. CASE DrawsPet(t)
    <3>1. faceCache'.nextPet = (t + PetEvery) % Steps /\ canvas'.pet = PetLayer /\ now' = t
      BY <1>1, <2>1
    <3>2. late' = 0
      BY <1>1, <3>1
    <3>3. /\ (t + PetEvery) % Steps \in Moments
          /\ (((t + PetEvery) % Steps) - t) % Steps = PetEvery
      BY <1>1, <1>2, PetArithmetic
    <3>4. QED
      BY <1>2, <3>1, <3>2, <3>3
  <2>2. CASE ~DrawsPet(t)
    <3> DEFINE q == faceCache.nextPet
    <3>1. ~FullRepaint /\ ~PetFrameDue(t, q) /\ now' = t /\ faceCache'.nextPet = q
      BY <1>1, <2>2 DEF DrawsPet
    <3>2. faceCache \in FullCaches /\ faceCache.init
      BY <3>1, CacheHolds
    <3>3. q \in Moments
      BY <3>2 DEF FullCaches
    <3>4. /\ (q - now) % Steps \in 1..PetEvery
          /\ late + ((q - now) % Steps) <= PetEvery
      BY <3>2 DEF FaceInv, LayersShown
    <3> HIDE DEF q
    <3>5. (q - t) % Steps \in 1..PetEvery /\ gap + ((q - t) % Steps) = (q - now) % Steps
      BY <1>1, <1>2, <3>1, <3>3, <3>4, PetArithmetic
    <3>6. late \in Nat /\ late' \in {0, late + gap}
      BY <1>1, <1>2 DEF FaceTyped
    <3>7. QED
      BY <1>2, <3>1, <3>3, <3>4, <3>5, <3>6
  <2>3. QED
    BY <2>1, <2>2
<1>8. FaceTyped'
  <2>1. SecondKey(clock) \in Int /\ DateKey(clock) \in Int
    <3>1. clock \in [trusted : BOOLEAN, hour : Int, minute : Int, second : Int, weekday : Int,
                      month : Int, date : Int]
      BY <1>2, FieldsAre DEF FaceTyped
    <3>2. QED
      BY <3>1 DEF SecondKey, DateKey
  <2>2. Counts(tama) \in [running : Nat, waiting : Nat, unread : Nat]
    <3>1. \A x \in Nat \cup {Absent} : (IF x = Absent THEN 0 ELSE x) \in Nat
      BY DEF Absent
    <3>2. QED
      BY <1>2, <3>1 DEF FaceTyped, Counts
  <2>3. faceCache' \in FullCaches
    <3> DEFINE np == IF DrawsPet(t) THEN (t + PetEvery) % Steps ELSE faceCache.nextPet
    <3>1. np \in Moments
      BY <1>1, <1>7
    <3>2. faceCache' = [init |-> TRUE, orient |-> faceOrient, persona |-> persona,
                        second |-> SecondKey(clock), date |-> DateKey(clock),
                        status |-> Counts(tama), nextPet |-> np]
      BY <1>1
    <3> HIDE DEF np
    <3>3. QED
      BY <1>2, <2>1, <2>2, <3>1, <3>2 DEF FullCaches, FaceTyped
  <2>4. jumped' \in BOOLEAN /\ faceDrawn' \in BOOLEAN
    BY <1>1
  <2>5. meter' \in [five : Percents, seven : Percents, wave : {Still} \cup Moments]
    BY <1>1, <1>4 DEF MeterStates
  <2>6. QED
    BY <1>1, <1>2, <1>7, <2>3, <2>4, <2>5 DEF FaceTyped
<1>9. TimeShown'
  <2>1. TimeText(clock)' = TimeText(clock)
    BY <1>1 DEF TimeText, FieldsValid
  <2>2. CASE DrawsTime
    BY <1>1, <1>6, <2>1, <2>2 DEF TimeShown
  <2>3. CASE ~DrawsTime
    <3>1. ~FullRepaint /\ CacheSays("second", SecondKey(clock))
      BY <2>3 DEF DrawsTime
    <3>2. faceCache.init /\ faceCache.second = SecondKey(clock) /\ FrameUnder = canvas
      BY <3>1, CacheHolds, CacheKeys
    <3>3. canvas'.time = canvas.time /\ (jumped' <=> jumped)
      BY <1>1, <2>3, <3>2
    <3>4. canvas.time = TimeText(clock) \/ jumped
      BY <3>2 DEF FaceInv, TimeShown
    <3>5. QED
      BY <1>6, <2>1, <3>3, <3>4 DEF TimeShown
  <2>4. QED
    BY <2>2, <2>3
<1>10. DateShown'
  <2>1. DateText(clock)' = DateText(clock) /\ DateKey(clock)' = DateKey(clock) /\ clock' = clock
    BY <1>1 DEF DateText, FieldsValid, Landscape, DateKey
  <2>2. canvas'.date = DateText(clock)
    <3>1. CASE DrawsDate
      BY <1>1, <3>1
    <3>2. CASE ~DrawsDate
      <4>1. ~FullRepaint /\ CacheSays("date", DateKey(clock))
        BY <3>2 DEF DrawsDate
      <4>2. faceCache.init /\ faceCache.date = DateKey(clock) /\ FrameUnder = canvas
        BY <4>1, CacheHolds, CacheKeys
      <4>3. PICK c \in Clocks : faceCache.date = DateKey(c) /\ canvas.date = DateText(c)
        BY <4>2 DEF FaceInv, DateShown
      <4>4. DateText(c) = DateText(clock)
        BY <1>2, <4>2, <4>3, DateKeys DEF FaceTyped
      <4>5. QED
        BY <1>1, <3>2, <4>2, <4>3, <4>4
    <3>3. QED
      BY <3>1, <3>2
  <2>3. clock \in Clocks /\ faceCache'.date = DateKey(clock)
    BY <1>1, <1>2 DEF FaceTyped
  <2>4. DateText(clock)' = canvas'.date /\ clock' \in Clocks /\ faceCache'.date = DateKey(clock)'
    BY <2>1, <2>2, <2>3
  <2>5. QED
    BY <2>4 DEF DateShown
<1>11. LayersShown'
  <2>1. canvas'.by = faceOrient
    <3>1. canvas'.by = FrameUnder.by
      BY <1>1
    <3>2. CASE FullRepaint
      BY <3>1, <3>2 DEF FrameUnder, Blank
    <3>3. CASE ~FullRepaint
      BY <3>1, <3>3, CacheHolds DEF FaceInv, LayersShown
    <3>4. QED
      BY <3>2, <3>3
  <2>2. Landscape => canvas'.cards = Counts(tama)
    <3>1. CASE DrawsStatus
      BY <1>1, <3>1
    <3>2. CASE Landscape /\ ~DrawsStatus
      <4>1. ~FullRepaint /\ CacheSays("status", Counts(tama))
        BY <3>2 DEF DrawsStatus
      <4>2. faceCache.init /\ faceCache.status = Counts(tama) /\ FrameUnder = canvas
        BY <4>1, CacheHolds, CacheKeys
      <4>3. QED
        BY <1>1, <3>2, <4>2 DEF FaceInv, LayersShown
    <3>3. QED
      BY <3>1, <3>2
  <2>3. QED
    BY <1>1, <1>5, <1>6, <1>7, <2>1, <2>2 DEF LayersShown
<1>12. BarsShown'
  <2>1. Plan(Windows(meter))' = Plan(Usage)
    <3>1. Windows(meter)' = Metered(Usage)
      BY <1>1, <1>4 DEF Windows
    <3>2. Plan(Windows(meter))' = Plan(Metered(Usage))
      BY <1>1, <3>1 DEF Plan, PortraitPlan, LandscapePlan, Landscape, Width, Height
    <3>3. QED
      BY <1>2, <1>3, <3>2, MeteredIs
  <2>2. faceCache'.orient = 0 <=> ~Landscape'
    BY <1>5, <1>6 DEF Landscape
  <2>3. Unknown(Usage)' => meter' = Hidden
    <3>1. ASSUME Unknown(Usage)' PROVE meter' = Hidden
      <4>1. Unknown(Usage)
        BY <1>5, <3>1
      <4>2. ~(Plan(Usage) # NoBars)
        BY <1>2, <1>3, <4>1, KnownIsVisible
      <4>3. meter' = Hidden
        BY <1>1, <4>2 DEF FrameMeter, MeterFrame
      <4>4. QED
        BY <4>3
    <3>2. QED
      BY <3>1
  <2>4. Windows(meter)' = Metered(Usage)' /\ meter'.wave = (IF Animated(Usage)' THEN now' ELSE Still)
    BY <1>1, <1>4, <1>5 DEF Windows
  <2>5. Hidden' = Hidden
    BY DEF Hidden
  <2>6. canvas'.bars = Plan(Windows(meter))' /\ canvas'.wave = meter'.wave
    BY <1>1, <1>4, <2>1
  <2>7. QED
    BY <2>2, <2>3, <2>4, <2>5, <2>6 DEF BarsShown
<1>13. QED
  BY <1>8, <1>9, <1>10, <1>11, <1>12 DEF FaceInv

LEMMA SnapshotKeeps ==
  ASSUME FaceInv, SnapshotArrives
  PROVE  FaceInv'
<1>1. PICK s \in Snapshots :
        LET usage == UsageAfter([five |-> tama.five, seven |-> tama.seven],
                                [five |-> s.five, seven |-> s.seven])
        IN  tama' = [s EXCEPT !.five = usage.five, !.seven = usage.seven,
                              !.unread = IF s.unread = Absent THEN tama.unread ELSE s.unread]
  BY DEF SnapshotArrives
<1>2. /\ ~faceDrawn' /\ faceDrawn' \in BOOLEAN
      /\ UNCHANGED <<now, late, clock, persona, faceOrient, faceCache, meter, canvas, jumped>>
  BY DEF SnapshotArrives, Between
<1> DEFINE report == [five |-> s.five, seven |-> s.seven]
           usage == UsageAfter(Usage, report)
           counted == IF s.unread = Absent THEN tama.unread ELSE s.unread
<1>3. FaceTyped
  BY DEF FaceInv
<1>4. s \in [connected : BOOLEAN, running : Nat, waiting : Nat,
                         unread : Nat \cup {Absent}, five : Int, seven : Int]
  BY FaceAssumption
<1>5. usage \in Usages /\ (Unknown(usage) => Unknown(Usage))
  <2>1. Usage \in Usages
    BY <1>3 DEF FaceTyped, Usage, Usages
  <2>2. report \in [five : Int, seven : Int]
    BY <1>4
  <2> HIDE DEF report
  <2>3. QED
    BY <2>1, <2>2, UsageStays
<1>6. counted \in Nat \cup {Absent}
  BY <1>3, <1>4 DEF FaceTyped
<1>7. tama' = [s EXCEPT !.five = usage.five, !.seven = usage.seven, !.unread = counted]
  BY <1>1 DEF Usage
<1> HIDE DEF usage, counted, report
<1>8. tama' \in [connected : BOOLEAN, running : Nat, waiting : Nat, unread : Nat \cup {Absent},
                 five : Percents, seven : Percents]
      /\ tama'.five = usage.five /\ tama'.seven = usage.seven
  BY <1>4, <1>5, <1>6, <1>7 DEF Usages, Percents
<1>9. FaceTyped'
  BY <1>2, <1>3, <1>8 DEF FaceTyped
<1>10. Unknown(Usage)' => Unknown(Usage)
  BY <1>5, <1>8 DEF Unknown, Usage
<1>11. (Landscape' <=> Landscape) /\ Plan(Windows(meter))' = Plan(Windows(meter)) /\ Hidden' = Hidden
  BY <1>2 DEF Landscape, Plan, PortraitPlan, LandscapePlan, Width, Height, Windows, Hidden
<1>12. TimeShown' /\ DateShown' /\ LayersShown'
  <2>1. TimeShown'
    BY <1>2 DEF FaceInv, TimeShown, TimeText, SecondKey, FieldsValid
  <2>2. DateShown'
    BY <1>2, <1>11, ZenonT(60) DEF FaceInv, DateShown, DateText, DateKey, FieldsValid
  <2>3. LayersShown'
    BY <1>2, <1>11 DEF FaceInv, LayersShown
  <2>4. QED
    BY <2>1, <2>2, <2>3
<1>13. BarsShown'
  BY <1>2, <1>10, <1>11 DEF FaceInv, BarsShown
<1>14. QED
  BY <1>9, <1>12, <1>13 DEF FaceInv

LEMMA ClockKeeps ==
  ASSUME FaceInv, ClockRead
  PROVE  FaceInv'
<1>1. /\ faceDrawn /\ ~faceDrawn' /\ faceDrawn' \in BOOLEAN /\ clock' \in Clocks
      /\ jumped' = (jumped \/ (SecondKey(clock') = SecondKey(clock) /\ clock' # clock))
      /\ UNCHANGED <<now, late, tama, persona, faceOrient, faceCache, meter, canvas>>
  BY DEF ClockRead, Between
<1>2. FaceTyped'
  <2>1. jumped' \in BOOLEAN
    BY <1>1
  <2>2. QED
    BY <1>1, <2>1 DEF FaceInv, FaceTyped
<1>3. TimeShown'
  <2> SUFFICES ASSUME faceCache'.init
               PROVE  canvas'.time = TimeText(clock)' \/ jumped' \/ faceCache'.second # SecondKey(clock)'
    BY <1>1 DEF TimeShown
  <2>1. faceCache.init /\ faceCache.second = SecondKey(clock)
    BY <1>1 DEF FaceInv, TimeShown
  <2>2. SecondKey(clock)' = SecondKey(clock')
    OBVIOUS
  <2>3. CASE clock' = clock
    <3>1. TimeText(clock)' = TimeText(clock) /\ (jumped => jumped')
      BY <1>1, <2>3 DEF TimeText, FieldsValid
    <3>2. canvas.time = TimeText(clock) \/ jumped
      BY <2>1 DEF FaceInv, TimeShown
    <3>3. QED
      BY <1>1, <3>1, <3>2
  <2>4. CASE clock' # clock
    BY <1>1, <2>1, <2>2, <2>4
  <2>5. QED
    BY <2>3, <2>4
<1>4. (Landscape' <=> Landscape) /\ Plan(Windows(meter))' = Plan(Windows(meter)) /\ Hidden' = Hidden
      /\ Usage' = Usage
  BY <1>1 DEF Landscape, Plan, PortraitPlan, LandscapePlan, Width, Height, Windows, Hidden, Usage
<1>5. DateShown'
  BY <1>1, <1>4, ZenonT(60) DEF FaceInv, DateShown, DateText, DateKey, FieldsValid
<1>6. LayersShown'
  BY <1>1, <1>4 DEF FaceInv, LayersShown
<1>7. BarsShown'
  BY <1>1, <1>4 DEF FaceInv, BarsShown
<1>8. QED
  BY <1>2, <1>3, <1>5, <1>6, <1>7 DEF FaceInv

LEMMA PetKeeps ==
  ASSUME FaceInv, PetChanges
  PROVE  FaceInv'
<1>1. /\ ~faceDrawn' /\ faceDrawn' \in BOOLEAN /\ persona' \in Personas
      /\ UNCHANGED <<now, late, clock, tama, faceOrient, faceCache, meter, canvas, jumped>>
  BY DEF PetChanges, Between
<1>2. FaceTyped'
  BY <1>1 DEF FaceInv, FaceTyped, FullCaches
<1>3. (Landscape' <=> Landscape) /\ Plan(Windows(meter))' = Plan(Windows(meter)) /\ Hidden' = Hidden
      /\ Usage' = Usage
  BY <1>1 DEF Landscape, Plan, PortraitPlan, LandscapePlan, Width, Height, Windows, Hidden, Usage
<1>4. TimeShown'
  BY <1>1 DEF FaceInv, TimeShown, TimeText, SecondKey, FieldsValid
<1>5. DateShown'
  BY <1>1, <1>3, ZenonT(60) DEF FaceInv, DateShown, DateText, DateKey, FieldsValid
<1>6. LayersShown'
  BY <1>1, <1>3 DEF FaceInv, LayersShown
<1>7. BarsShown'
  BY <1>1, <1>3 DEF FaceInv, BarsShown
<1>8. QED
  BY <1>2, <1>4, <1>5, <1>6, <1>7 DEF FaceInv

(* A face that starts again owes nothing to what was there.                *)
LEMMA StartsAgain ==
  ASSUME faceCache' = NoFaceCache, FaceTyped'
  PROVE  FaceInv'
<1>1. ~faceCache'.init
  BY DEF NoFaceCache
<1>2. QED
  BY <1>1 DEF FaceInv, TimeShown, DateShown, LayersShown, BarsShown

LEMMA TurnKeeps ==
  ASSUME FaceInv, Turn
  PROVE  FaceInv'
<1>1. /\ ~faceDrawn' /\ faceDrawn' \in BOOLEAN /\ faceOrient' \in {0, 1, 3}
      /\ UNCHANGED <<now, late, clock, tama, persona, jumped>>
  BY DEF Turn, Between
<1>2. CASE faceOrient # 0 /\ faceOrient' # 0
  <2>1. UNCHANGED <<faceCache, meter, canvas>>
    BY <1>2 DEF Turn
  <2>2. FaceTyped'
    BY <1>1, <2>1 DEF FaceInv, FaceTyped
  <2>3. (Landscape' <=> Landscape) /\ Hidden' = Hidden /\ Usage' = Usage /\ Width' = Width /\ Height' = Height
    BY <1>1, <1>2 DEF Landscape, Hidden, Usage, Width, Height
  <2>4. Plan(Windows(meter))' = Plan(Windows(meter))
    BY <2>1, <2>3 DEF Plan, PortraitPlan, LandscapePlan, Windows
  <2>5. TimeShown'
    BY <1>1, <2>1 DEF FaceInv, TimeShown, TimeText, SecondKey, FieldsValid
  <2>6. DateShown'
    BY <1>1, <2>1, <2>3, ZenonT(60) DEF FaceInv, DateShown, DateText, DateKey, FieldsValid
  <2>7. LayersShown'
    BY <1>1, <2>1, <2>3 DEF FaceInv, LayersShown
  <2>8. BarsShown'
    BY <1>1, <2>1, <2>3, <2>4 DEF FaceInv, BarsShown
  <2>9. QED
    BY <2>2, <2>5, <2>6, <2>7, <2>8 DEF FaceInv
<1>3. CASE ~(faceOrient # 0 /\ faceOrient' # 0)
  <2>1. faceCache' = NoFaceCache /\ meter' = Hidden
    BY <1>3 DEF Turn
  <2>2. FaceTyped'
    BY <1>1, <2>1, HiddenIs DEF FaceInv, FaceTyped, MeterStates
  <2>3. QED
    BY <2>1, <2>2, StartsAgain
<1>4. QED
  BY <1>2, <1>3

LEMMA LeaveKeeps ==
  ASSUME FaceInv, Leave
  PROVE  FaceInv'
<1>1. /\ ~faceDrawn' /\ faceDrawn' \in BOOLEAN /\ faceCache' = NoFaceCache /\ meter' = Hidden
      /\ UNCHANGED <<now, late, clock, tama, persona, faceOrient, jumped>>
  BY DEF Leave, Between
<1>2. FaceTyped'
  BY <1>1, HiddenIs DEF FaceInv, FaceTyped, MeterStates
<1>3. QED
  BY <1>1, <1>2, StartsAgain

LEMMA FaceStarts == FaceInit => FaceInv
<1> SUFFICES ASSUME FaceInit
             PROVE  FaceInv
  OBVIOUS
<1>1. /\ now = 0 /\ clock \in Clocks /\ tama = QuietTama /\ persona \in Personas /\ faceOrient = 0
      /\ faceCache = NoFaceCache /\ meter = Hidden /\ ~jumped /\ late = 0
  BY DEF FaceInit
<1>2. jumped \in BOOLEAN /\ faceDrawn \in BOOLEAN
  BY DEF FaceInit
<1>3. QuietTama \in [connected : BOOLEAN, running : Nat, waiting : Nat, unread : Nat \cup {Absent},
                     five : Percents, seven : Percents]
  BY DEF QuietTama, Percents
<1>4. FaceTyped
  BY <1>1, <1>2, <1>3, HiddenIs DEF FaceTyped, MeterStates, Moments, Steps
<1>5. ~faceCache.init
  BY <1>1 DEF NoFaceCache
<1>6. QED
  BY <1>4, <1>5 DEF FaceInv, TimeShown, DateShown, LayersShown, BarsShown

LEMMA FaceStays == FaceInv /\ [FaceNext]_faceVars => FaceInv'
<1>1. ASSUME FaceInv, FaceNext PROVE FaceInv'
  BY <1>1, FaceFrameKeeps, SnapshotKeeps, ClockKeeps, PetKeeps, TurnKeeps, LeaveKeeps DEF FaceNext
<1>2. ASSUME FaceInv, UNCHANGED faceVars PROVE FaceInv'
  <2>1. UNCHANGED <<now, clock, tama, persona, faceOrient, faceCache, meter, canvas, faceDrawn, jumped, late>>
    BY <1>2 DEF faceVars
  <2>2. FaceTyped'
    BY <1>2, <2>1 DEF FaceInv, FaceTyped
  <2>3. (Landscape' <=> Landscape) /\ Hidden' = Hidden /\ Usage' = Usage /\ Counts(tama)' = Counts(tama)
        /\ Metered(Usage)' = Metered(Usage) /\ (Animated(Usage)' <=> Animated(Usage))
        /\ Plan(Windows(meter))' = Plan(Windows(meter)) /\ (Unknown(Usage)' <=> Unknown(Usage))
        /\ Windows(meter)' = Windows(meter) /\ DateKey(clock)' = DateKey(clock)
    BY <2>1 DEF Landscape, Plan, PortraitPlan, LandscapePlan, Width, Height, Windows, Hidden, Usage, Unknown,
                Metered, Animated, Counts, DateKey, FieldsValid
  <2>4. TimeShown'
    BY <1>2, <2>1 DEF FaceInv, TimeShown, TimeText, SecondKey, FieldsValid
  <2>5. DateShown'
    BY <1>2, <2>1, <2>3, ZenonT(60) DEF FaceInv, DateShown, DateText, DateKey, FieldsValid
  <2>6. LayersShown'
    BY <1>2, <2>1, <2>3 DEF FaceInv, LayersShown
  <2>7. BarsShown'
    BY <1>2, <2>1, <2>3 DEF FaceInv, BarsShown
  <2>8. QED
    BY <2>2, <2>4, <2>5, <2>6, <2>7 DEF FaceInv
<1>3. QED
  BY <1>1, <1>2

(* A bar is within a pixel of its percentage.                              *)
Close(bar, percent) == percent * bar.full - bar.fill * 100 \in 0..99

LEMMA FillIsClose ==
  ASSUME NEW full \in {29, 131}, NEW percent \in 0..100, NEW colour
  PROVE  Close(Bar(full, percent, colour), percent)
<1> DEFINE x == full * percent
           d == x \div 100
<1>1. x \in Nat /\ percent * full = x
  BY SMT
<1>2. Bar(full, percent, colour).full = full /\ Bar(full, percent, colour).fill = d
  BY DEF Bar, FillWidth
<1>3. \A y \in Nat : y - (y \div 100) * 100 \in 0..99 /\ y \div 100 \in Nat
  OBVIOUS
<1> HIDE DEF x
<1>4. x - d * 100 \in 0..99 /\ d \in Nat
  BY <1>1, <1>3
<1> HIDE DEF d
<1>5. QED
  BY <1>1, <1>2, <1>4 DEF Close

LEMMA FaceShows == FaceInv => FaceIsCurrent /\ MeterIsCurrent
<1> SUFFICES ASSUME FaceInv, Painted
             PROVE  FaceIsCurrent /\ MeterIsCurrent
  BY DEF FaceIsCurrent, MeterIsCurrent
<1>1. /\ faceDrawn /\ faceCache.init /\ faceOrient \in {0, 1, 3} /\ clock \in Clocks
      /\ late \in Nat /\ tama.five \in Percents /\ tama.seven \in Percents
  BY DEF Painted, FaceInv, FaceTyped
<1>2. FaceIsCurrent
  <2>1. canvas.time = TimeText(clock) \/ jumped
    BY <1>1 DEF FaceInv, TimeShown
  <2>2. canvas.date = DateText(clock)
    <3>1. PICK c \in Clocks : faceCache.date = DateKey(c) /\ canvas.date = DateText(c)
      BY <1>1 DEF FaceInv, DateShown
    <3>2. DateKey(c) = DateKey(clock)
      BY <1>1, <3>1 DEF FaceInv, LayersShown
    <3>3. QED
      BY <1>1, <3>1, <3>2, DateKeys
  <2>3. canvas.by = faceOrient /\ (Landscape => canvas.cards = Counts(tama))
    BY <1>1 DEF FaceInv, LayersShown
  <2>4. late < PetEvery
    <3> DEFINE k == (faceCache.nextPet - now) % Steps
    <3>1. k \in 1..PetEvery /\ late + k <= PetEvery /\ PetEvery \in Nat
      BY <1>1, FaceAssumption DEF FaceInv, LayersShown
    <3> HIDE DEF k
    <3>2. QED
      BY <1>1, <3>1
  <2>5. QED
    BY <2>1, <2>2, <2>3, <2>4 DEF FaceIsCurrent
<1>3. Usage \in Usages /\ Usage.five = tama.five /\ Usage.seven = tama.seven
  BY <1>1 DEF Usage, Usages
<1>4. canvas.bars = Plan(Usage)
  <2>1. canvas.bars = Plan(Windows(meter)) /\ Windows(meter) = Metered(Usage)
    BY <1>1 DEF FaceInv, BarsShown
  <2>2. QED
    BY <1>1, <1>3, <2>1, MeteredIs
<1> DEFINE known == {w \in {"five", "seven"} : tama[w] # Absent}
           windows == IF Landscape /\ "seven" \in known THEN {"seven"} ELSE known
           high == IF Landscape THEN 22 ELSE 6
           Wave == canvas.wave = IF tama.running > 0 /\ Landscape
                                    /\ \E y \in DOMAIN canvas.bars : canvas.bars[y].fill > 0
                                 THEN now ELSE Still
           Fits(row) == /\ \A y \in DOMAIN canvas.bars : \E w \in windows : row[w] = y
                        /\ \A w \in windows :
                             LET bar == canvas.bars[row[w]]
                             IN  /\ tama[w] * bar.full - bar.fill * 100 \in 0..99
                                 /\ row[w] + high <= Height
                        /\ windows = {"five", "seven"} => row["five"] + high < row["seven"]
<1>5. Wave
  <2>1. canvas.wave = meter.wave /\ meter.wave = IF Animated(Usage) THEN now ELSE Still
    BY <1>1 DEF FaceInv, BarsShown
  <2>2. QED
    BY <1>4, <2>1 DEF Animated
<1>6. Percents \ {Absent} = 0..100
  BY DEF Percents, Absent
<1>7. /\ known = (IF tama.five # Absent THEN {"five"} ELSE {}) \cup (IF tama.seven # Absent THEN {"seven"} ELSE {})
      /\ tama["five"] = tama.five /\ tama["seven"] = tama.seven
  OBVIOUS
<1>8. \E row \in [windows -> DOMAIN canvas.bars] : Fits(row)
  <2>1. CASE Unknown(Usage)
    <3>1. windows = {}
      BY <1>3, <1>7, <2>1 DEF Unknown
    <3>2. DOMAIN canvas.bars = {}
      BY <1>1, <1>3, <1>4, <2>1, Plans DEF NoBars
    <3> DEFINE row == [w \in windows |-> 0]
    <3>3. row \in [windows -> DOMAIN canvas.bars]
      BY <3>1
    <3>4. Fits(row)
      BY <3>1, <3>2
    <3>5. QED
      BY <3>3, <3>4
  <2>2. CASE Landscape /\ ~Unknown(Usage)
    <3> DEFINE p == IF tama.seven # Absent THEN tama.seven ELSE tama.five
               only == IF tama.seven # Absent THEN "seven" ELSE "five"
               row == [w \in {only} |-> 109]
    <3>1. DOMAIN canvas.bars = {109} /\ canvas.bars = [y \in {109} |-> Bar(29, p, "bright")]
      BY <1>1, <1>3, <1>4, <2>2, Plans
    <3>2. p \in 0..100
      BY <1>1, <1>3, <1>6, <2>2 DEF Unknown
    <3>3. windows = {only} /\ tama[only] = p /\ only \in {"five", "seven"}
      BY <1>3, <1>7, <2>2 DEF Unknown
    <3>4. high = 22 /\ Height = 135
      BY <1>1, <2>2, Sizes
    <3>5. canvas.bars[109] = Bar(29, p, "bright")
      BY <3>1
    <3> HIDE DEF p, only, windows, high, known
    <3>6. row \in [windows -> DOMAIN canvas.bars]
      BY <3>1, <3>3
    <3>7. Close(Bar(29, p, "bright"), p)
      BY <3>2, FillIsClose
    <3>8. Fits(row)
      BY <3>1, <3>3, <3>4, <3>5, <3>7 DEF Close
    <3>9. QED
      BY <3>6, <3>8
  <2>3. CASE ~Landscape /\ tama.five # Absent /\ tama.seven # Absent
    <3> DEFINE row == [w \in {"five", "seven"} |-> IF w = "five" THEN 224 ELSE 232]
    <3>1. DOMAIN canvas.bars = {224, 232} /\
          canvas.bars = [y \in {224, 232} |->
                   IF y = 232 THEN Bar(131, tama.seven, "dim") ELSE Bar(131, tama.five, "bright")]
      BY <1>1, <1>3, <1>4, <2>3, Plans
    <3>2. tama.five \in 0..100 /\ tama.seven \in 0..100
      BY <1>1, <1>6, <2>3
    <3>3. windows = {"five", "seven"}
      BY <1>7, <2>3
    <3>4. high = 6 /\ Height = 240
      BY <1>1, <2>3, Sizes
    <3>5. canvas.bars[224] = Bar(131, tama.five, "bright") /\ canvas.bars[232] = Bar(131, tama.seven, "dim")
      BY <3>1
    <3>6. row["five"] = 224 /\ row["seven"] = 232
      OBVIOUS
    <3> HIDE DEF windows, high, known
    <3>7. row \in [windows -> DOMAIN canvas.bars]
      BY <3>1, <3>3
    <3> HIDE DEF row
    <3>8. Close(Bar(131, tama.five, "bright"), tama.five) /\ Close(Bar(131, tama.seven, "dim"), tama.seven)
      BY <3>2, FillIsClose
    <3>9. \A w \in windows : Close(canvas.bars[row[w]], tama[w]) /\ row[w] + high <= Height
      BY <1>7, <3>3, <3>4, <3>5, <3>6, <3>8
    <3>10. \A y \in DOMAIN canvas.bars : \E w \in windows : row[w] = y
      BY <3>1, <3>3, <3>6
    <3>11. row["five"] + high < row["seven"]
      BY <3>4, <3>6
    <3>12. Fits(row)
      BY <3>9, <3>10, <3>11 DEF Close
    <3>13. QED
      BY <3>7, <3>12
  <2>4. CASE ~Landscape /\ tama.five # Absent /\ tama.seven = Absent
    <3> DEFINE row == [w \in {"five"} |-> 232]
    <3>1. DOMAIN canvas.bars = {232} /\ canvas.bars = [y \in {232} |-> Bar(131, tama.five, "bright")]
      BY <1>1, <1>3, <1>4, <2>4, Plans
    <3>2. tama.five \in 0..100
      BY <1>1, <1>6, <2>4
    <3>3. windows = {"five"}
      BY <1>7, <2>4
    <3>4. high = 6 /\ Height = 240
      BY <1>1, <2>4, Sizes
    <3>5. canvas.bars[232] = Bar(131, tama.five, "bright")
      BY <3>1
    <3> HIDE DEF windows, high, known
    <3>6. row \in [windows -> DOMAIN canvas.bars]
      BY <3>1, <3>3
    <3>7. Close(Bar(131, tama.five, "bright"), tama.five)
      BY <3>2, FillIsClose
    <3>8. Fits(row)
      BY <1>7, <3>1, <3>3, <3>4, <3>5, <3>7 DEF Close
    <3>9. QED
      BY <3>6, <3>8
  <2>5. CASE ~Landscape /\ tama.five = Absent /\ tama.seven # Absent
    <3> DEFINE row == [w \in {"seven"} |-> 232]
    <3>1. DOMAIN canvas.bars = {232} /\ canvas.bars = [y \in {232} |-> Bar(131, tama.seven, "dim")]
      BY <1>1, <1>3, <1>4, <2>5, Plans
    <3>2. tama.seven \in 0..100
      BY <1>1, <1>6, <2>5
    <3>3. windows = {"seven"}
      BY <1>7, <2>5
    <3>4. high = 6 /\ Height = 240
      BY <1>1, <2>5, Sizes
    <3>5. canvas.bars[232] = Bar(131, tama.seven, "dim")
      BY <3>1
    <3> HIDE DEF windows, high, known
    <3>6. row \in [windows -> DOMAIN canvas.bars]
      BY <3>1, <3>3
    <3>7. Close(Bar(131, tama.seven, "dim"), tama.seven)
      BY <3>2, FillIsClose
    <3>8. Fits(row)
      BY <1>7, <3>1, <3>3, <3>4, <3>5, <3>7 DEF Close
    <3>9. QED
      BY <3>6, <3>8
  <2>6. QED
    BY <1>3, <2>1, <2>2, <2>3, <2>4, <2>5 DEF Unknown
<1>9. MeterIsCurrent
  BY <1>5, <1>8 DEF MeterIsCurrent
<1>10. QED
  BY <1>2, <1>9

(* The dots, a quarter of the period later.                                *)
LEMMA WaveRuns == WaveIsSeamless
<1> SUFFICES ASSUME NEW row \in 0..2, NEW column \in 0..28, NEW frame \in 0..(Steps - 1)
             PROVE  Brightness(row, column + 1, (frame + Steps \div Band) % Steps) = Brightness(row, column, frame)
  BY DEF WaveIsSeamless
<1> DEFINE a == (row + column) % 4
           b == (row + (column + 1)) % 4
           f == (frame + 4) % 16
<1>1. Steps \div Band = 4 /\ Steps = 16 /\ Band = 4 /\ frame \in 0..15
  BY DEF Steps, Band
<1>2. a \in 0..3 /\ b = IF a = 3 THEN 0 ELSE a + 1
  <2>1. \A x \in Nat : x % 4 \in 0..3 /\ (x + 1) % 4 = IF x % 4 = 3 THEN 0 ELSE (x % 4) + 1
    OBVIOUS
  <2>2. row + column \in Nat /\ row + (column + 1) = (row + column) + 1
    OBVIOUS
  <2>3. QED
    BY <2>1, <2>2
<1>3. \A x \in 0..47 : x % 16 = IF x < 16 THEN x ELSE IF x < 32 THEN x - 16 ELSE x - 32
  OBVIOUS
<1>4. f \in 0..15 /\ f = IF frame + 4 < 16 THEN frame + 4 ELSE frame + 4 - 16
  BY <1>1, <1>3
<1> HIDE DEF a, b, f
<1>5. (f + 16 - b * 4) % 16 = (frame + 16 - a * 4) % 16
  <2>1. f + 16 - b * 4 \in 0..47 /\ frame + 16 - a * 4 \in 0..47
    BY <1>1, <1>2, <1>4
  <2>2. QED
    BY <1>1, <1>2, <1>3, <1>4, <2>1
<1>6. QED
  BY <1>1, <1>5 DEF Brightness, a, b, f

(* What the clock face leaves out is on the canvas already, and its meter  *)
(* is that of the windows the host reported (drawSharedClockFaceTo,        *)
(* usageMeterRenderTransition).                                            *)
THEOREM FacesAreCurrent == FaceSpec => [](FaceIsCurrent /\ MeterIsCurrent)
BY FaceStarts, FaceStays, FaceShows, PTL DEF FaceSpec

--------------------------------------------------------------------------------
(***************************************************************************)
(* What the pet has lived through.                                         *)
(***************************************************************************)

StatKinds == [appr : 0..1, deny : 0..1, lvl : 0..Levels - 1, tok : Nat]

StatsTyped ==
  /\ stats \in StatKinds /\ nvs \in StatKinds
  /\ latch \in [synced : BOOLEAN, last : 0..MaxTokens] /\ levelUp \in BOOLEAN /\ torn \in BOOLEAN
  /\ bridge \in Nat /\ produced \in 0..MaxTokens /\ bridge <= produced

(* The pet has eaten, with what it is about to be credited, no more than   *)
(* was produced, and neither has any level it may be filled in from.       *)
AteWhatWas ==
  /\ stats.tok <= produced /\ nvs.tok <= produced
  /\ stats.lvl * PerLevel <= produced /\ nvs.lvl * PerLevel <= produced
  /\ latch.synced => stats.tok + bridge - latch.last <= produced

LevelFits(tok) == tok < Levels * PerLevel

(* Levels that fit their byte are those of the tokens, and what is saved   *)
(* is of the same level.                                                   *)
LevelsAgree ==
  ~torn =>
    /\ LevelFits(nvs.tok) => nvs.lvl = nvs.tok \div PerLevel
    /\ LevelFits(stats.tok) => /\ stats.lvl = stats.tok \div PerLevel
                               /\ nvs.tok <= stats.tok
                               /\ nvs.tok \div PerLevel = stats.tok \div PerLevel

StatsInv == StatsTyped /\ AteWhatWas /\ LevelsAgree

LEMMA PerLevelIs == PerLevel \in Nat \ {0} /\ Levels \in Nat \ {0} /\ MaxTokens \in Nat
BY StatsAssumption

(* Levels of tokens.                                                       *)
LEMMA LevelParts ==
  ASSUME NEW a \in Nat
  PROVE  /\ a \div PerLevel \in Nat
         /\ PerLevel * (a \div PerLevel) \in Nat
         /\ PerLevel * (a \div PerLevel) <= a
         /\ a < PerLevel * (a \div PerLevel) + PerLevel
         /\ \A q \in Int : q * PerLevel = PerLevel * q
<1> DEFINE p == a \div PerLevel
           s == a % PerLevel
<1>0. PerLevel \in Nat \ {0} /\ a \in Int
  BY PerLevelIs
<1>1. a = PerLevel * p + s /\ s \in 0..(PerLevel - 1) /\ p \in Int
  BY ONLY <1>0, Division DEF p, s
<1> HIDE DEF p, s
<1>2. p >= 0
  <2>1. ASSUME p < 0 PROVE FALSE
    <3>1. PerLevel * p + PerLevel <= PerLevel * 0
      BY <1>0, <1>1, <2>1, ProductGrows
    <3>2. PerLevel * 0 = 0 /\ PerLevel * p \in Int
      BY <1>0, <1>1
    <3>3. QED
      BY <1>0, <1>1, <3>1, <3>2
  <2>2. QED
    BY <1>1, <2>1
<1>3. PerLevel * p \in Nat
  BY <1>0, <1>1, <1>2
<1>4. \A q \in Int : q * PerLevel = PerLevel * q
  BY <1>0
<1>5. QED
  BY <1>0, <1>1, <1>2, <1>3, <1>4 DEF p

LEMMA LevelsGrow ==
  ASSUME NEW a \in Nat, NEW b \in Nat, a <= b
  PROVE  /\ a \div PerLevel <= b \div PerLevel
         /\ a \div PerLevel = b \div PerLevel => b - a < PerLevel
<1> DEFINE p == a \div PerLevel
           q == b \div PerLevel
<1>1. p \in Nat /\ q \in Nat /\ PerLevel * p <= a /\ b < PerLevel * q + PerLevel
      /\ PerLevel * p \in Nat /\ PerLevel * q \in Nat
  BY LevelParts
<1> HIDE DEF p, q
<1>2. ~(q < p)
  <2>1. ASSUME q < p PROVE FALSE
    <3>1. PerLevel * q + PerLevel <= PerLevel * p
      BY <1>1, <2>1, PerLevelIs, ProductGrows
    <3>2. QED
      BY <1>1, <3>1, PerLevelIs
  <2>2. QED
    BY <2>1
<1>3. p = q => b - a < PerLevel
  BY <1>1, PerLevelIs
<1>4. QED
  BY <1>1, <1>2, <1>3 DEF p, q

LEMMA LevelIs ==
  ASSUME NEW a \in Nat
  PROVE  /\ LevelOf(a) \in 0..Levels - 1
         /\ LevelOf(a) * PerLevel <= a
         /\ LevelFits(a) => LevelOf(a) = a \div PerLevel
<1> DEFINE p == a \div PerLevel
           m == p % Levels
           u == p \div Levels
<1>1. p \in Nat /\ PerLevel * p <= a /\ PerLevel * p \in Nat /\ a < PerLevel * p + PerLevel
  BY LevelParts
<1>2. LevelOf(a) = m
  BY DEF LevelOf
<1> HIDE DEF p
<1>3. p = Levels * u + m /\ m \in 0..(Levels - 1) /\ u \in Int
  BY ONLY <1>1, PerLevelIs, Division DEF m, u
<1>4. p < Levels => m = p
  BY <1>1, PerLevelIs DEF m
<1> HIDE DEF m, u
<1>5. m <= p
  <2>1. u >= 0
    <3>1. ASSUME u < 0 PROVE FALSE
      <4>1. Levels * u + Levels <= Levels * 0
        BY <1>3, <3>1, PerLevelIs, ProductGrows
      <4>2. Levels * 0 = 0 /\ Levels * u \in Int
        BY <1>3, PerLevelIs
      <4>3. QED
        BY <1>1, <1>3, <4>1, <4>2, PerLevelIs
    <3>2. QED
      BY <1>3, <3>1
  <2>2. Levels * u \in Nat
    BY <1>3, <2>1, PerLevelIs
  <2>3. QED
    BY <1>1, <1>3, <2>2
<1>6. m * PerLevel <= a
  <2>1. PerLevel * m <= PerLevel * p
    <3>1. CASE m = p
      BY <1>1, <3>1
    <3>2. CASE m < p
      <4>1. PerLevel * m + PerLevel <= PerLevel * p
        BY <1>1, <1>3, <3>2, PerLevelIs, ProductGrows
      <4>2. PerLevel * m \in Int
        BY <1>3, PerLevelIs
      <4>3. QED
        BY <1>1, <4>1, <4>2, PerLevelIs
    <3>3. QED
      BY <1>1, <1>3, <1>5, <3>1, <3>2
  <2>2. m * PerLevel = PerLevel * m /\ PerLevel * m \in Int
    BY <1>3, PerLevelIs
  <2>3. QED
    BY <1>1, <2>1, <2>2
<1>7. LevelFits(a) => p < Levels
  <2>1. ASSUME LevelFits(a), ~(p < Levels) PROVE FALSE
    <3>1. a < Levels * PerLevel /\ Levels * PerLevel = PerLevel * Levels /\ PerLevel * Levels \in Nat
      BY <2>1, PerLevelIs DEF LevelFits
    <3>2. PerLevel * Levels <= PerLevel * p
      <4>1. CASE Levels = p
        BY <3>1, <4>1
      <4>2. CASE Levels < p
        <5>1. PerLevel * Levels + PerLevel <= PerLevel * p
          BY <1>1, <4>2, PerLevelIs, ProductGrows
        <5>2. QED
          BY <1>1, <3>1, <5>1, PerLevelIs
      <4>3. QED
        BY <1>1, <2>1, <4>1, <4>2, PerLevelIs
    <3>3. QED
      BY <1>1, <3>1, <3>2
  <2>2. QED
    BY <2>1
<1>8. QED
  BY <1>2, <1>3, <1>4, <1>6, <1>7 DEF p

(* What is loaded is what was saved, with tokens for a level that had none. *)
LEMMA LoadedIs ==
  ASSUME NEW s \in StatKinds
  PROVE  /\ Loaded(s) \in StatKinds /\ Loaded(s).lvl = s.lvl
         /\ Loaded(s).tok \in {s.tok, s.lvl * PerLevel} /\ s.tok <= Loaded(s).tok
         /\ (LevelFits(s.tok) => s.lvl = s.tok \div PerLevel) => Loaded(s) = s
<1> DEFINE n == s.lvl * PerLevel
           r == Loaded(s)
<1>1. s.lvl \in Nat /\ s.tok \in Nat
  BY PerLevelIs DEF StatKinds
<1>2. n \in Nat
  BY <1>1, PerLevelIs
<1>3. CASE s.tok = 0 /\ s.lvl > 0
  <2>1. r = [s EXCEPT !.tok = n]
    BY <1>3 DEF Loaded
  <2>2. LevelFits(s.tok)
    <3>1. Levels * PerLevel \in Nat /\ Levels * PerLevel > 0
      BY PerLevelIs
    <3>2. QED
      BY <1>3, <3>1 DEF LevelFits
  <2>3. s.tok \div PerLevel = 0
    <3>1. \A w \in Nat \ {0} : 0 \div w = 0
      OBVIOUS
    <3>2. QED
      BY <1>3, <3>1, PerLevelIs
  <2> HIDE DEF n, r
  <2>4. r \in StatKinds /\ r.lvl = s.lvl /\ r.tok = n
    BY <1>2, <2>1 DEF StatKinds
  <2>5. QED
    BY <1>1, <1>2, <1>3, <2>2, <2>3, <2>4 DEF n, r
<1>4. CASE ~(s.tok = 0 /\ s.lvl > 0)
  BY <1>1, <1>4 DEF Loaded
<1>5. QED
  BY <1>3, <1>4

LEMMA WrittenIs ==
  ASSUME NEW k \in 0..3, NEW new \in StatKinds, nvs \in StatKinds, NEW w, w = WrittenUpTo(k, new)
  PROVE  w \in StatKinds /\ w.tok = nvs.tok /\ w.lvl \in {new.lvl, nvs.lvl}
<1>1. DOMAIN Order = {"appr", "deny", "lvl", "tok"} /\ Order["tok"] = 4
  BY DEF Order
<1>2. w = [key \in {"appr", "deny", "lvl", "tok"} |-> IF Order[key] <= k THEN new[key] ELSE nvs[key]]
  BY <1>1 DEF WrittenUpTo
<1>3. w.tok = nvs.tok
  BY <1>1, <1>2
<1>4. w.appr \in {new.appr, nvs.appr} /\ w.deny \in {new.deny, nvs.deny} /\ w.lvl \in {new.lvl, nvs.lvl}
  BY <1>2
<1>5. w = [appr |-> w.appr, deny |-> w.deny, lvl |-> w.lvl, tok |-> w.tok]
  BY <1>2
<1>6. w \in StatKinds
  BY <1>3, <1>4, <1>5 DEF StatKinds
<1>7. QED
  BY <1>3, <1>4, <1>6

(* What is saved, or half of it and loaded again, keeps what there was.    *)
LEMMA SavedKeeps ==
  ASSUME StatsInv, NEW new \in StatKinds, NEW up \in BOOLEAN, NEW after,
         after \in [synced : BOOLEAN, last : 0..MaxTokens],
         new.tok <= produced, new.lvl * PerLevel <= produced,
         after.synced => new.tok + bridge - after.last <= produced,
         ~torn => (LevelFits(new.tok) => new.lvl = new.tok \div PerLevel),
         Saved(new, up, after), UNCHANGED <<bridge, produced>>
  PROVE  StatsInv'
<1>1. StatsTyped /\ AteWhatWas /\ LevelsAgree /\ nvs \in StatKinds /\ produced \in Nat /\ bridge \in Nat
  BY PerLevelIs DEF StatsInv, StatsTyped
<1>2. \A s \in StatKinds : s.tok \in Nat /\ s.lvl \in Nat
  BY PerLevelIs DEF StatKinds
<1>3. CASE stats' = new /\ nvs' = new /\ levelUp' = up /\ latch' = after /\ UNCHANGED <<torn, powerCuts>>
  <2>1. StatsTyped'
    BY <1>1, <1>3 DEF StatsTyped
  <2>2. AteWhatWas'
    BY <1>3 DEF AteWhatWas
  <2>3. LevelsAgree'
    BY <1>2, <1>3 DEF LevelsAgree, LevelFits
  <2>4. QED
    BY <2>1, <2>2, <2>3 DEF StatsInv
<1>4. CASE /\ powerCuts < MaxPowerCuts /\ powerCuts' = powerCuts + 1
           /\ \E k \in 0..3 : nvs' = WrittenUpTo(k, new)
           /\ torn' = (torn \/ nvs' \notin {nvs, new})
           /\ Reboot(nvs')
  <2>1. PICK k \in 0..3 : nvs' = WrittenUpTo(k, new)
    BY <1>4
  <2>2. nvs' \in StatKinds /\ nvs'.tok = nvs.tok /\ nvs'.lvl \in {new.lvl, nvs.lvl}
    <3> DEFINE w == WrittenUpTo(k, new)
    <3>1. w \in StatKinds /\ w.tok = nvs.tok /\ w.lvl \in {new.lvl, nvs.lvl}
      BY <1>1, WrittenIs
    <3>2. QED
      BY <2>1, <3>1
  <2>3. stats' = Loaded(nvs') /\ latch' = Unsynced /\ ~levelUp' /\ levelUp' \in BOOLEAN /\ torn' \in BOOLEAN
    BY <1>4 DEF Reboot
  <2>4. /\ stats' \in StatKinds /\ stats'.lvl = nvs'.lvl
        /\ stats'.tok \in {nvs'.tok, nvs'.lvl * PerLevel}
    BY <2>2, <2>3, LoadedIs
  <2>5. ~latch'.synced /\ latch' \in [synced : BOOLEAN, last : 0..MaxTokens]
    BY <2>3, PerLevelIs DEF Unsynced
  <2>6. StatsTyped'
    BY <1>1, <2>2, <2>3, <2>4, <2>5 DEF StatsTyped
  <2>7. AteWhatWas'
    <3>1. nvs'.lvl * PerLevel <= produced
      BY <1>1, <2>2 DEF AteWhatWas
    <3>2. nvs'.tok <= produced
      BY <1>1, <2>2 DEF AteWhatWas
    <3>3. stats'.tok <= produced
      BY <2>4, <3>1, <3>2
    <3>4. stats'.lvl * PerLevel <= produced
      BY <2>4, <3>1
    <3>5. QED
      BY <2>5, <3>1, <3>2, <3>3, <3>4 DEF AteWhatWas
  <2>8. LevelsAgree'
    <3> SUFFICES ASSUME ~torn'
                 PROVE  LevelsAgree'
      BY DEF LevelsAgree
    <3>1. ~torn /\ nvs' \in {nvs, new}
      BY <1>1, <1>4 DEF StatsTyped
    <3>2. LevelFits(nvs'.tok) => nvs'.lvl = nvs'.tok \div PerLevel
      BY <1>1, <3>1 DEF LevelsAgree
    <3>3. stats' = nvs'
      BY <2>2, <2>3, <3>2, LoadedIs
    <3>4. QED
      BY <1>2, <2>2, <3>2, <3>3 DEF LevelsAgree, LevelFits
  <2>9. QED
    BY <2>6, <2>7, <2>8 DEF StatsInv
<1>5. QED
  BY <1>3, <1>4 DEF Saved

LEMMA AnswerKeeps ==
  ASSUME StatsInv, NEW key \in {"appr", "deny"}, Answer(key)
  PROVE  StatsInv'
<1> DEFINE new == [stats EXCEPT ![key] = @ + 1]
<1>1. stats \in StatKinds /\ levelUp \in BOOLEAN /\ latch \in [synced : BOOLEAN, last : 0..MaxTokens]
  BY DEF StatsInv, StatsTyped
<1>2. new \in StatKinds /\ new.tok = stats.tok /\ new.lvl = stats.lvl
  <2>1. stats[key] + 1 \in 0..1
    <3>1. stats[key] < 1 /\ stats[key] \in 0..1
      BY <1>1 DEF Answer, StatKinds
    <3>2. QED
      BY <3>1
  <2>2. CASE key = "appr"
    BY <1>1, <2>1, <2>2 DEF StatKinds
  <2>3. CASE key = "deny"
    BY <1>1, <2>1, <2>3 DEF StatKinds
  <2>4. QED
    BY <2>2, <2>3
<1>3. Saved(new, levelUp, latch) /\ UNCHANGED <<bridge, produced>>
  BY DEF Answer
<1> HIDE DEF new
<1>4. /\ new.tok <= produced /\ new.lvl * PerLevel <= produced
      /\ latch.synced => new.tok + bridge - latch.last <= produced
      /\ ~torn => (LevelFits(new.tok) => new.lvl = new.tok \div PerLevel)
  BY <1>2 DEF StatsInv, AteWhatWas, LevelsAgree
<1>5. QED
  BY <1>1, <1>2, <1>3, <1>4, SavedKeeps

LEMMA CreditKeeps ==
  ASSUME StatsInv, Credit
  PROVE  StatsInv'
<1> DEFINE n == stats.tok + (bridge - latch.last)
           after == [latch EXCEPT !.last = bridge]
           fed == [stats EXCEPT !.tok = n]
           new == [fed EXCEPT !.lvl = LevelOf(n)]
<1>1. /\ stats \in StatKinds /\ latch \in [synced : BOOLEAN, last : 0..MaxTokens]
      /\ bridge \in Nat /\ produced \in 0..MaxTokens /\ bridge <= produced /\ stats.tok \in Nat
      /\ latch.synced /\ bridge > latch.last /\ levelUp \in BOOLEAN /\ torn \in BOOLEAN
  BY DEF StatsInv, StatsTyped, StatKinds, Credit
<1>2. n \in Nat /\ n > stats.tok /\ n <= produced
  <2>1. latch.last \in Nat /\ produced \in Nat
    BY <1>1, PerLevelIs
  <2>2. stats.tok + bridge - latch.last <= produced
    BY <1>1 DEF StatsInv, AteWhatWas
  <2>3. QED
    BY <1>1, <2>1, <2>2
<1>3. after \in [synced : BOOLEAN, last : 0..MaxTokens] /\ after.last = bridge /\ (after.synced <=> latch.synced)
  BY <1>1, PerLevelIs
<1>4. \/ LevelOf(n) > LevelOf(stats.tok) /\ Saved(new, TRUE, after)
      \/ /\ ~(LevelOf(n) > LevelOf(stats.tok)) /\ stats' = fed /\ latch' = after
         /\ UNCHANGED <<nvs, levelUp, torn, powerCuts>>
  BY DEF Credit
<1>5. UNCHANGED <<bridge, produced>>
  BY DEF Credit
<1>6. LevelOf(n) \in 0..Levels - 1 /\ LevelOf(n) * PerLevel <= n /\ (LevelFits(n) => LevelOf(n) = n \div PerLevel)
  BY <1>2, LevelIs
<1> HIDE DEF n
<1>7. fed \in StatKinds /\ fed.tok = n /\ fed.lvl = stats.lvl
  BY <1>1, <1>2 DEF StatKinds
<1> HIDE DEF fed
<1>8. new \in StatKinds /\ new.tok = n /\ new.lvl = LevelOf(n)
  BY <1>6, <1>7 DEF StatKinds
<1> HIDE DEF after, new
<1>9. produced \in Nat
  BY <1>1, PerLevelIs
<1>10. CASE Saved(new, TRUE, after)
  <2>1. new.lvl * PerLevel <= produced
    <3>1. LevelOf(n) * PerLevel \in Int
      BY <1>6, PerLevelIs
    <3>2. QED
      BY <1>2, <1>6, <1>8, <1>9, <3>1
  <2>2. after.synced => new.tok + bridge - after.last <= produced
    BY <1>1, <1>2, <1>3, <1>8, <1>9
  <2>3. LevelFits(new.tok) => new.lvl = new.tok \div PerLevel
    BY <1>6, <1>8
  <2>4. new.tok <= produced
    BY <1>2, <1>8
  <2>5. QED
    BY <1>3, <1>5, <1>8, <1>10, <2>1, <2>2, <2>3, <2>4, SavedKeeps
<1>11. CASE /\ ~(LevelOf(n) > LevelOf(stats.tok)) /\ stats' = fed /\ latch' = after
            /\ UNCHANGED <<nvs, levelUp, torn, powerCuts>>
  <2>1. StatsTyped'
    BY <1>3, <1>5, <1>7, <1>11 DEF StatsInv, StatsTyped
  <2>2. AteWhatWas'
    BY <1>1, <1>2, <1>3, <1>5, <1>7, <1>9, <1>11 DEF StatsInv, AteWhatWas
  <2>3. LevelsAgree'
    <3> SUFFICES ASSUME ~torn
                 PROVE  LevelsAgree'
      BY <1>11 DEF LevelsAgree
    <3>1. LevelFits(nvs.tok) => nvs.lvl = nvs.tok \div PerLevel
      BY DEF StatsInv, LevelsAgree
    <3>2. ASSUME LevelFits(n)
          PROVE  fed.lvl = n \div PerLevel /\ nvs.tok <= n /\ nvs.tok \div PerLevel = n \div PerLevel
      <4>1. LevelFits(stats.tok)
        <5>1. Levels * PerLevel \in Nat
          BY PerLevelIs
        <5>2. QED
          BY <1>1, <1>2, <3>2, <5>1 DEF LevelFits
      <4>2. /\ stats.lvl = stats.tok \div PerLevel /\ nvs.tok <= stats.tok
            /\ nvs.tok \div PerLevel = stats.tok \div PerLevel
        BY <4>1 DEF StatsInv, LevelsAgree
      <4>3. LevelOf(n) = n \div PerLevel /\ LevelOf(stats.tok) = stats.tok \div PerLevel
        BY <1>1, <1>2, <3>2, <4>1, LevelIs
      <4>4. n \div PerLevel \in Nat /\ stats.tok \div PerLevel \in Nat /\ stats.tok \div PerLevel <= n \div PerLevel
        BY <1>1, <1>2, LevelParts, LevelsGrow
      <4>5. n \div PerLevel = stats.tok \div PerLevel
        BY <1>11, <4>3, <4>4
      <4>6. nvs.tok \in Nat
        BY DEF StatsInv, StatsTyped, StatKinds
      <4>7. QED
        BY <1>1, <1>2, <1>7, <4>2, <4>5, <4>6
    <3>3. QED
      BY <1>7, <1>11, <3>1, <3>2 DEF LevelsAgree, LevelFits
  <2>4. QED
    BY <2>1, <2>2, <2>3 DEF StatsInv
<1>12. QED
  BY <1>4, <1>10, <1>11

LEMMA StatsStart == StatsInit => StatsInv
<1> SUFFICES ASSUME StatsInit
             PROVE  StatsInv
  OBVIOUS
<1>1. /\ stats = FreshStats /\ nvs = FreshStats /\ latch = Unsynced /\ ~levelUp /\ levelUp \in BOOLEAN
      /\ bridge = 0 /\ produced = 0 /\ ~torn /\ torn \in BOOLEAN
  BY DEF StatsInit
<1>2. FreshStats \in StatKinds /\ FreshStats.tok = 0 /\ FreshStats.lvl = 0
  BY PerLevelIs DEF FreshStats, StatKinds
<1>3. Unsynced \in [synced : BOOLEAN, last : 0..MaxTokens] /\ ~Unsynced.synced
  BY PerLevelIs DEF Unsynced
<1>4. 0 * PerLevel = 0 /\ 0 \div PerLevel = 0
  <2>1. \A w \in Nat \ {0} : 0 \div w = 0 /\ 0 * w = 0
    OBVIOUS
  <2>2. QED
    BY <2>1, PerLevelIs
<1>5. StatsTyped
  BY <1>1, <1>2, <1>3, PerLevelIs DEF StatsTyped
<1>6. AteWhatWas
  BY <1>1, <1>2, <1>3, <1>4 DEF AteWhatWas
<1>7. LevelsAgree
  BY <1>1, <1>2, <1>4 DEF LevelsAgree
<1>8. QED
  BY <1>5, <1>6, <1>7 DEF StatsInv

LEMMA StatsStay == StatsInv /\ [StatsNext]_statsVars => StatsInv'
<1> SUFFICES ASSUME StatsInv, [StatsNext]_statsVars
             PROVE  StatsInv'
  OBVIOUS
<1>1. /\ stats \in StatKinds /\ nvs \in StatKinds /\ produced \in Nat /\ bridge \in Nat
      /\ stats.tok \in Nat /\ nvs.tok \in Nat
      /\ latch \in [synced : BOOLEAN, last : 0..MaxTokens] /\ latch.last \in Nat /\ bridge <= produced
      /\ stats.lvl * PerLevel \in Int /\ nvs.lvl * PerLevel \in Int
  BY PerLevelIs DEF StatsInv, StatsTyped, StatKinds
<1>2. ASSUME NEW n \in 1..PerLevel + 1, BridgeCounts(n) PROVE StatsInv'
  <2>1. /\ produced + n <= MaxTokens /\ bridge' = bridge + n /\ produced' = produced + n
        /\ UNCHANGED <<stats, nvs, latch, levelUp, torn, powerCuts>>
    BY <1>2 DEF BridgeCounts
  <2>2. n \in Nat
    BY PerLevelIs
  <2>3. StatsTyped'
    BY <1>1, <2>1, <2>2, PerLevelIs DEF StatsInv, StatsTyped
  <2>4. AteWhatWas'
    BY <1>1, <2>1, <2>2 DEF StatsInv, AteWhatWas
  <2>5. LevelsAgree'
    BY <2>1 DEF StatsInv, LevelsAgree
  <2>6. QED
    BY <2>3, <2>4, <2>5 DEF StatsInv
<1>3. ASSUME Resync PROVE StatsInv'
  <2>1. /\ latch' = [synced |-> TRUE, last |-> bridge]
        /\ UNCHANGED <<stats, nvs, levelUp, bridge, produced, torn, powerCuts>>
    BY <1>3 DEF Resync
  <2>2. latch' \in [synced : BOOLEAN, last : 0..MaxTokens]
    <3>1. bridge \in 0..MaxTokens
      BY <1>1, PerLevelIs DEF StatsInv, StatsTyped
    <3>2. QED
      BY <2>1, <3>1
  <2>3. StatsTyped'
    BY <2>1, <2>2 DEF StatsInv, StatsTyped
  <2>4. AteWhatWas'
    BY <1>1, <2>1 DEF StatsInv, AteWhatWas
  <2>5. LevelsAgree'
    BY <2>1 DEF StatsInv, LevelsAgree
  <2>6. QED
    BY <2>3, <2>4, <2>5 DEF StatsInv
<1>4. ASSUME Celebrate PROVE StatsInv'
  BY <1>4 DEF Celebrate, StatsInv, StatsTyped, AteWhatWas, LevelsAgree
<1>5. ASSUME PowerFails PROVE StatsInv'
  <2>1. /\ stats' = Loaded(nvs) /\ latch' = Unsynced /\ ~levelUp' /\ levelUp' \in BOOLEAN
        /\ UNCHANGED <<nvs, bridge, produced, torn>>
    BY <1>5 DEF PowerFails, Reboot
  <2>2. /\ stats' \in StatKinds /\ stats'.lvl = nvs.lvl
        /\ stats'.tok \in {nvs.tok, nvs.lvl * PerLevel}
        /\ (LevelFits(nvs.tok) => nvs.lvl = nvs.tok \div PerLevel) => stats' = nvs
    BY <1>1, <2>1, LoadedIs
  <2>3. ~latch'.synced /\ latch' \in [synced : BOOLEAN, last : 0..MaxTokens]
    BY <2>1, PerLevelIs DEF Unsynced
  <2>4. StatsTyped'
    BY <1>1, <2>1, <2>2, <2>3 DEF StatsInv, StatsTyped
  <2>5. AteWhatWas'
    BY <1>1, <2>1, <2>2, <2>3 DEF StatsInv, AteWhatWas
  <2>6. LevelsAgree'
    BY <1>1, <2>1, <2>2 DEF StatsInv, LevelsAgree
  <2>7. QED
    BY <2>4, <2>5, <2>6 DEF StatsInv
<1>6. ASSUME BridgeRestarts PROVE StatsInv'
  <2>1. bridge' = 0 /\ UNCHANGED <<stats, nvs, latch, levelUp, produced, torn>>
    BY <1>6 DEF BridgeRestarts
  <2>2. StatsTyped'
    BY <1>1, <2>1 DEF StatsInv, StatsTyped
  <2>3. AteWhatWas'
    BY <1>1, <2>1 DEF StatsInv, AteWhatWas
  <2>4. LevelsAgree'
    BY <2>1 DEF StatsInv, LevelsAgree
  <2>5. QED
    BY <2>2, <2>3, <2>4 DEF StatsInv
<1>7. ASSUME UNCHANGED statsVars PROVE StatsInv'
  BY <1>7 DEF statsVars, StatsInv, StatsTyped, AteWhatWas, LevelsAgree
<1>8. QED
  BY <1>2, <1>3, <1>4, <1>5, <1>6, <1>7, AnswerKeeps, CreditKeeps DEF StatsNext

LEMMA StatsHold == StatsInv => StatsTypeOK /\ NothingCreditedTwice /\ AtMostALevelLost /\ LevelFollowsTokens
<1> SUFFICES ASSUME StatsInv
             PROVE  StatsTypeOK /\ NothingCreditedTwice /\ AtMostALevelLost /\ LevelFollowsTokens
  OBVIOUS
<1>1. stats \in StatKinds /\ nvs \in StatKinds /\ stats.tok \in Nat /\ nvs.tok \in Nat
  BY DEF StatsInv, StatsTyped, StatKinds
<1>2. NothingCreditedTwice
  BY DEF StatsInv, AteWhatWas, NothingCreditedTwice
<1>3. LevelFollowsTokens
  BY <1>1, LevelIs DEF StatsInv, LevelsAgree, LevelFollowsTokens, LevelFits
<1>4. AtMostALevelLost
  <2> SUFFICES ASSUME ~torn, LevelFits(stats.tok)
               PROVE  stats.tok - Loaded(nvs).tok < PerLevel
    BY DEF AtMostALevelLost, LevelFits
  <2>1. stats.tok - nvs.tok < PerLevel
    BY <1>1, LevelsGrow DEF StatsInv, LevelsAgree
  <2>2. Loaded(nvs) = nvs
    BY <1>1, LoadedIs DEF StatsInv, LevelsAgree
  <2>3. QED
    BY <2>1, <2>2
<1>5. StatsTypeOK
  <2>1. \A s \in {stats, nvs} : /\ {s.appr, s.deny} \subseteq 0..1
                                /\ s.lvl \in 0..Levels - 1 /\ s.tok \in Nat
    BY <1>1 DEF StatKinds
  <2>2. bridge \in 0..MaxTokens /\ produced \in 0..MaxTokens
    BY PerLevelIs DEF StatsInv, StatsTyped
  <2>3. latch.synced \in BOOLEAN /\ latch.last \in 0..MaxTokens /\ levelUp \in BOOLEAN /\ torn \in BOOLEAN
    BY DEF StatsInv, StatsTyped
  <2>4. QED
    BY <2>1, <2>2, <2>3 DEF StatsTypeOK
<1>6. QED
  BY <1>2, <1>3, <1>4, <1>5

--------------------------------------------------------------------------------
(***************************************************************************)
(* Lines and the bytes they are made of.                                   *)
(***************************************************************************)

(* The order in which bytes are sent.                                      *)
Before(b, c) == b[1] < c[1] \/ (b[1] = c[1] /\ b[2] < c[2])

(* The ring, as the bytes that wait in it, the oldest first.               *)
Waiting == IF rxHead >= rxTail THEN rxHead - rxTail ELSE rxHead - rxTail + RX_CAP
RingAt(i) == rxBuf[IF rxTail + i < RX_CAP THEN rxTail + i ELSE rxTail + i - RX_CAP]

OnTheWay == {RingAt(i) : i \in 0..(Waiting - 1)} \cup {piece[i] : i \in DOMAIN piece}
Went == {b \in Byte : Passed(b)}

LinesTyped ==
  /\ next \in (1..(MaxLines + 1)) \X (1..(Length + 1)) /\ piece \in Seq(Byte)
  /\ rxHead \in 0..(RX_CAP - 1) /\ rxTail \in 0..(RX_CAP - 1) /\ rxBuf \in [0..(RX_CAP - 1) -> Byte]
  /\ btLine \in Seq(Byte) /\ Len(btLine) <= LineCap /\ heard \in Seq(Seq(Byte))
  /\ unsent \subseteq Byte /\ dropped \subseteq Byte /\ cuts \in 0..MaxCuts

(* Bytes are on their way in the order in which they were sent; what is    *)
(* lost is lost to its line from some byte on, or found the ring full.     *)
WayInOrder ==
  /\ \A i, j \in 0..(Waiting - 1) : i < j => Before(RingAt(i), RingAt(j))
  /\ \A i \in 0..(Waiting - 1), j \in 1..Len(piece) : Before(RingAt(i), piece[j])
  /\ \A i, j \in 1..Len(piece) : i < j => Before(piece[i], piece[j])
  /\ \A b \in OnTheWay : Before(b, next) /\ b \notin Lost
  /\ \A b \in Lost : Before(b, next)
  /\ \A b \in unsent : \A j \in b[2]..(Length + 1) : <<b[1], j>> \in unsent
  /\ \A b \in Went, c \in OnTheWay : Before(b, c)

(* The buffer has what went since the last end of a line, in order and up  *)
(* to its capacity.                                                        *)
BufferIsLine ==
  /\ \A i, j \in 1..Len(btLine) : i < j => Before(btLine[i], btLine[j])
  /\ \A i \in 1..Len(btLine) : btLine[i] \in Went /\ ~EndsLine(btLine[i])
  /\ \A e \in Went : EndsLine(e) => \A i \in 1..Len(btLine) : Before(e, btLine[i])
  /\ \A b \in Went :
       \/ \E e \in Went : EndsLine(e) /\ ~Before(e, b)
       \/ \E i \in 1..Len(btLine) : btLine[i] = b
       \/ Len(btLine) = LineCap /\ Before(btLine[LineCap], b)

(* What was parsed: the lines that went whole, and others that have lost a *)
(* byte, each from bytes after those of the one before.                    *)
LineWent(line) ==
  /\ \A i \in 1..(Length + 1) : <<line, i>> \in Went
  /\ line > 1 => <<line - 1, Length + 1>> \in Went
LastOf(text) == text[Len(text)]
HeardInOrder ==
  /\ Length <= LineCap => \A line \in Lines : LineWent(line) => \E k \in 1..Len(heard) : heard[k] = WholeLine(line)
  /\ \A k \in 1..Len(heard) :
       /\ Len(heard[k]) > 0
       /\ \/ \E line \in Lines : heard[k] = WholeLine(line)
          \/ \E byte \in dropped : byte[1] \in heard[k][1][1]..LastOf(heard[k])[1]
       /\ \E e \in Went : EndsLine(e) /\ LastOf(heard[k])[1] <= e[1]
  /\ \A j, k \in 1..Len(heard) : j < k => LastOf(heard[j])[1] < heard[k][1][1]

LinesInv == LinesTyped /\ WayInOrder /\ BufferIsLine /\ HeardInOrder

LEMMA LengthsAre ==
  /\ Length \in Nat /\ Length > 1 /\ RX_CAP \in Nat /\ RX_CAP > 1 /\ LineCap \in Nat \ {0}
  /\ MaxLines \in Nat \ {0} /\ Piece \in Nat \ {0} /\ MaxCuts \in Nat
BY LinesAssumption

LEMMA BytesAre ==
  /\ \A b \in Byte : b[1] \in 1..MaxLines /\ b[2] \in 1..(Length + 1) /\ b = <<b[1], b[2]>>
  /\ \A l \in 1..MaxLines, i \in 1..(Length + 1) : <<l, i>> \in Byte
BY DEF Byte, Lines

Spots == Nat \X Nat

LEMMA BytesAreSpots ==
  /\ Byte \subseteq Spots
  /\ LinesTyped => next \in Spots
<1>1. Byte \subseteq Spots
  <2>1. 1..MaxLines \subseteq Nat /\ 1..(Length + 1) \subseteq Nat
    BY LengthsAre
  <2>2. QED
    BY <2>1 DEF Byte, Lines, Spots
<1>2. ASSUME LinesTyped
      PROVE  next \in Spots
  <2>1. next \in (1..(MaxLines + 1)) \X (1..(Length + 1))
    BY <1>2 DEF LinesTyped
  <2>2. 1..(MaxLines + 1) \subseteq Nat /\ 1..(Length + 1) \subseteq Nat
    BY LengthsAre
  <2>3. QED
    BY <2>1, <2>2 DEF Spots
<1>3. QED
  BY <1>1, <1>2

LEMMA BeforeOrders ==
  /\ \A b \in Spots : ~Before(b, b)
  /\ \A b, c \in Spots : Before(b, c) \/ Before(c, b) \/ b = c
  /\ \A b, c, d \in Spots : Before(b, c) /\ Before(c, d) => Before(b, d)
  /\ \A b, c \in Spots : Before(b, c) => ~Before(c, b) /\ b # c
<1>1. \A b \in Spots : b[1] \in Nat /\ b[2] \in Nat /\ b = <<b[1], b[2]>>
  BY DEF Spots
<1>2. \A b \in Spots : ~Before(b, b)
  BY <1>1 DEF Before
<1>3. ASSUME NEW b \in Spots, NEW c \in Spots
      PROVE  Before(b, c) \/ Before(c, b) \/ b = c
  <2>1. b[1] \in Nat /\ b[2] \in Nat /\ c[1] \in Nat /\ c[2] \in Nat
    BY <1>1
  <2>2. b[1] = c[1] /\ b[2] = c[2] => b = c
    BY <1>1
  <2>3. QED
    BY <2>1, <2>2 DEF Before
<1>4. ASSUME NEW b \in Spots, NEW c \in Spots, NEW d \in Spots, Before(b, c), Before(c, d)
      PROVE  Before(b, d)
  BY <1>1, <1>4 DEF Before
<1>5. QED
  BY <1>2, <1>3, <1>4

LEMMA WrapsOnce ==
  ASSUME NEW m \in Nat \ {0}, NEW x \in 0..(2 * m - 1)
  PROVE  x % m = IF x < m THEN x ELSE x - m
<1>1. CASE x < m
  <2>1. x \in Int /\ x = m * 0 + x /\ x \in 0..(m - 1)
    BY <1>1
  <2>2. QED
    BY <1>1, <2>1, Remainder
<1>2. CASE ~(x < m)
  <2>1. x \in Int /\ x = m * 1 + (x - m) /\ x - m \in 0..(m - 1)
    BY <1>2
  <2>2. QED
    BY <1>2, <2>1, Remainder
<1>3. QED
  BY <1>1, <1>2

(* The ring of the code, which counts modulo its size.                     *)
LEMMA RingIs ==
  ASSUME LinesTyped
  PROVE  /\ Available = Waiting /\ Waiting \in 0..(RX_CAP - 1)
         /\ InRing = {RingAt(i) : i \in 0..(Waiting - 1)}
         /\ \A i \in 0..(Waiting - 1) : RingAt(i) \in Byte
<1>1. RX_CAP \in Nat \ {0} /\ rxHead \in 0..(RX_CAP - 1) /\ rxTail \in 0..(RX_CAP - 1)
  BY LengthsAre DEF LinesTyped
<1>2. Waiting \in 0..(RX_CAP - 1)
  BY <1>1 DEF Waiting
<1>3. Available = Waiting
  <2> DEFINE x == rxHead + RX_CAP - rxTail
  <2>1. x \in 0..(2 * RX_CAP - 1)
    BY <1>1
  <2>2. x % RX_CAP = IF x < RX_CAP THEN x ELSE x - RX_CAP
    <3> HIDE DEF x
    <3>1. QED
      BY <1>1, <2>1, WrapsOnce
  <2>3. QED
    BY <1>1, <2>2 DEF Available, Waiting
<1>4. \A i \in 0..(Waiting - 1) : rxBuf[(rxTail + i) % RX_CAP] = RingAt(i)
  <2> SUFFICES ASSUME NEW i \in 0..(Waiting - 1)
               PROVE  rxBuf[(rxTail + i) % RX_CAP] = RingAt(i)
    OBVIOUS
  <2> DEFINE x == rxTail + i
  <2>1. x \in 0..(2 * RX_CAP - 1)
    BY <1>1, <1>2
  <2>2. x % RX_CAP = IF x < RX_CAP THEN x ELSE x - RX_CAP
    <3> HIDE DEF x
    <3>1. QED
      BY <1>1, <2>1, WrapsOnce
  <2>3. (rxTail + i) % RX_CAP = IF rxTail + i < RX_CAP THEN rxTail + i ELSE rxTail + i - RX_CAP
    BY <1>1, <1>2, <2>1, <2>2
  <2> DEFINE y == (rxTail + i) % RX_CAP
  <2>4. RingAt(i) = rxBuf[y]
    BY <2>3 DEF RingAt
  <2>5. QED
    BY <2>4
<1>5. \A i \in 0..(Waiting - 1) : RingAt(i) \in Byte
  <2>1. \A i \in 0..(Waiting - 1) :
          (IF rxTail + i < RX_CAP THEN rxTail + i ELSE rxTail + i - RX_CAP) \in 0..(RX_CAP - 1)
    BY <1>1, <1>2
  <2>2. rxBuf \in [0..(RX_CAP - 1) -> Byte]
    BY DEF LinesTyped
  <2>3. QED
    BY <2>1, <2>2 DEF RingAt
<1>6. QED
  BY <1>2, <1>3, <1>4, <1>5 DEF InRing

(* What went is what was sent and neither waits nor was lost.              *)
WentOnly == \A b : b \in Went <=> b \in Byte /\ b \notin Lost /\ b \notin OnTheWay /\ Before(b, next)

LEMMA WentIs == LinesTyped => WentOnly
<1> SUFFICES ASSUME LinesTyped
             PROVE  WentOnly
  OBVIOUS
<1>1. InRing \cup {piece[i] : i \in DOMAIN piece} = OnTheWay
  BY RingIs DEF OnTheWay
<1>2. \A b : Passed(b) <=> b \notin Lost /\ b \notin OnTheWay /\ Before(b, next)
  BY <1>1 DEF Passed, Before
<1>3. QED
  BY <1>2 DEF Went, WentOnly

LEMMA WentIsNext == LinesTyped' => WentOnly'
BY WentIs, PTL

LEMMA WayIsBytes ==
  ASSUME LinesTyped
  PROVE  OnTheWay \subseteq Byte /\ \A i \in 1..Len(piece) : piece[i] \in Byte
BY RingIs DEF OnTheWay, LinesTyped

(* What stays as it is when nothing is taken out of the ring.              *)
LEMMA QuietKeeps ==
  ASSUME LinesInv, Went' = Went, UNCHANGED <<btLine, heard>>, dropped \subseteq dropped'
  PROVE  BufferIsLine' /\ HeardInOrder'
<1>1. BufferIsLine'
  BY DEF LinesInv, BufferIsLine
<1>2. \A line : LineWent(line)' <=> LineWent(line)
  BY DEF LineWent
<1>3. HeardInOrder'
  <2>1. \A k \in 1..Len(heard') : \E e \in Went' : EndsLine(e) /\ LastOf(heard'[k])[1] <= e[1]
    BY DEF LinesInv, HeardInOrder
  <2>2. \A k \in 1..Len(heard') :
          \/ \E line \in Lines : heard'[k] = WholeLine(line)
          \/ \E byte \in dropped' : byte[1] \in heard'[k][1][1]..LastOf(heard'[k])[1]
    BY DEF LinesInv, HeardInOrder
  <2>3. QED
    BY <1>2, <2>1, <2>2 DEF LinesInv, HeardInOrder
<1>4. QED
  BY <1>1, <1>3

LEMMA WriteKeeps ==
  ASSUME LinesInv, Write
  PROVE  LinesTyped' /\ WayInOrder' /\ Went' = Went
<1> DEFINE l == next[1]
           s == next[2]
<1>1. /\ piece = << >> /\ l \in 1..MaxLines /\ s \in 1..(Length + 1) /\ next = <<l, s>>
      /\ UNCHANGED <<rxBuf, rxHead, rxTail, btLine, heard, unsent, dropped, cuts>>
  BY DEF Write, LinesInv, LinesTyped, Lines
<1>2. PICK n \in 1..Piece :
        /\ s + n - 1 <= Length + 1
        /\ piece' = [i \in 1..n |-> <<l, s + i - 1>>]
        /\ next' = After(<<l, s + n - 1>>)
  BY DEF Write
<1> HIDE DEF l, s
<1>3. n \in Nat /\ n > 0 /\ s \in Nat /\ l \in Nat /\ Length \in Nat
  BY <1>1, <1>2, LengthsAre
<1>4. next' = IF s + n - 1 = Length + 1 THEN <<l + 1, 1>> ELSE <<l, s + n>>
  <2>1. next' = IF s + n - 1 = Length + 1 THEN <<l + 1, 1>> ELSE <<l, s + n - 1 + 1>>
    BY <1>2 DEF After, EndsLine
  <2>2. s + n - 1 + 1 = s + n
    BY <1>3
  <2>3. QED
    BY <2>1, <2>2
<1>5. /\ piece' \in Seq(Byte) /\ Len(piece') = n
      /\ \A i \in 1..n : piece'[i] = <<l, s + i - 1>> /\ piece'[i] \in Byte
  <2>1. \A i \in 1..n : s + i - 1 \in 1..(Length + 1)
    BY <1>1, <1>2, <1>3
  <2>2. \A i \in 1..n : <<l, s + i - 1>> \in Byte
    BY <1>1, <2>1, BytesAre
  <2>3. piece' \in [1..n -> Byte]
    BY <1>2, <2>2
  <2>4. piece' \in Seq(Byte) /\ Len(piece') = n
    BY <1>3, <2>3
  <2>5. \A i \in 1..n : piece'[i] = <<l, s + i - 1>>
    BY <1>2
  <2>6. QED
    BY <2>2, <2>4, <2>5
<1>6. next' \in (1..(MaxLines + 1)) \X (1..(Length + 1))
  BY <1>1, <1>2, <1>3, <1>4, LengthsAre
<1>7. LinesTyped'
  BY <1>1, <1>5, <1>6 DEF LinesInv, LinesTyped
<1>8. \A b \in Spots : Before(b, next) =>
        Before(b, next') /\ \A i \in 1..n : Before(b, piece'[i])
  <2> SUFFICES ASSUME NEW b \in Spots, Before(b, next)
               PROVE  Before(b, next') /\ \A i \in 1..n : Before(b, piece'[i])
    OBVIOUS
  <2>1. b[1] \in Nat /\ b[2] \in Nat
    BY DEF Spots
  <2>2. b[1] < l \/ (b[1] = l /\ b[2] < s)
    BY <1>1 DEF Before
  <2>3. ASSUME NEW i \in 1..n
        PROVE  Before(b, piece'[i])
    <3>1. piece'[i][1] = l /\ piece'[i][2] = s + i - 1
      BY <1>5
    <3>2. QED
      BY <1>3, <2>1, <2>2, <3>1 DEF Before
  <2>4. CASE s + n - 1 = Length + 1
    <3>1. next'[1] = l + 1 /\ next'[2] = 1
      BY <1>4, <2>4
    <3>2. QED
      BY <1>3, <2>1, <2>2, <2>3, <3>1 DEF Before
  <2>5. CASE s + n - 1 # Length + 1
    <3>1. next'[1] = l /\ next'[2] = s + n
      BY <1>4, <2>5
    <3>2. QED
      BY <1>3, <2>1, <2>2, <2>3, <3>1 DEF Before
  <2>6. QED
    BY <2>4, <2>5
<1>9. \A i \in 1..n : ~Before(piece'[i], next) /\ Before(piece'[i], next')
  <2> SUFFICES ASSUME NEW i \in 1..n
               PROVE  ~Before(piece'[i], next) /\ Before(piece'[i], next')
    OBVIOUS
  <2>1. piece'[i][1] = l /\ piece'[i][2] = s + i - 1 /\ next[1] = l /\ next[2] = s
    BY <1>1, <1>5
  <2>2. next'[1] = IF s + n - 1 = Length + 1 THEN l + 1 ELSE l
    BY <1>4
  <2>3. s + n - 1 # Length + 1 => next'[2] = s + n
    BY <1>4
  <2>4. QED
    BY <1>3, <2>1, <2>2, <2>3 DEF Before
<1>10. \A b \in Byte : Before(b, next') /\ ~Before(b, next) => \E i \in 1..n : b = piece'[i]
  <2> SUFFICES ASSUME NEW b \in Byte, Before(b, next'), ~Before(b, next)
               PROVE  \E i \in 1..n : b = piece'[i]
    OBVIOUS
  <2>1. b[1] \in Nat /\ b[2] \in 1..(Length + 1) /\ b = <<b[1], b[2]>>
    BY BytesAre
  <2>2. ~(b[1] < l \/ (b[1] = l /\ b[2] < s))
    BY <1>1 DEF Before
  <2>3. b[1] = l /\ b[2] <= s + n - 1
    <3>1. CASE s + n - 1 = Length + 1
      <4>1. next'[1] = l + 1 /\ next'[2] = 1
        BY <1>4, <3>1
      <4>2. QED
        BY <1>3, <2>1, <2>2, <3>1, <4>1 DEF Before
    <3>2. CASE s + n - 1 # Length + 1
      <4>1. next'[1] = l /\ next'[2] = s + n
        BY <1>4, <3>2
      <4>2. QED
        BY <1>3, <2>1, <2>2, <4>1 DEF Before
    <3>3. QED
      BY <3>1, <3>2
  <2> DEFINE i == b[2] - s + 1
  <2>4. i \in 1..n /\ s + i - 1 = b[2]
    BY <1>3, <2>1, <2>2, <2>3
  <2> HIDE DEF i
  <2>5. b = piece'[i]
    BY <1>5, <2>1, <2>3, <2>4
  <2>6. QED
    BY <2>4, <2>5
<1>11. /\ UNCHANGED <<Waiting, unsent, dropped>> /\ Lost' = Lost
       /\ \A i : RingAt(i)' = RingAt(i)
  BY <1>1 DEF Waiting, RingAt, Lost
<1>12. OnTheWay = {RingAt(i) : i \in 0..(Waiting - 1)}
  BY <1>1 DEF OnTheWay
<1>13. OnTheWay' = OnTheWay \cup {piece'[i] : i \in 1..n}
  <2>1. DOMAIN piece' = 1..n
    BY <1>5
  <2>2. QED
    BY <1>11, <1>12, <2>1 DEF OnTheWay
<1>14. OnTheWay \subseteq Byte /\ Went \subseteq Byte /\ Lost \subseteq Byte
  BY WayIsBytes DEF LinesInv, Went, Lost, LinesTyped
<1>15. /\ \A b \in OnTheWay : Before(b, next) /\ b \notin Lost
       /\ \A b \in Lost : Before(b, next)
       /\ \A b \in Went, c \in OnTheWay : Before(b, c)
       /\ \A b \in Went : Before(b, next)
  BY WentIs DEF LinesInv, WayInOrder, WentOnly
<1>16. Went' = Went
  <2>1. \A b : b \in Went <=> b \in Byte /\ b \notin Lost /\ b \notin OnTheWay /\ Before(b, next)
    BY WentIs DEF LinesInv, WentOnly
  <2>2. \A b : b \in Went' <=> b \in Byte /\ b \notin Lost' /\ b \notin OnTheWay' /\ Before(b, next')
    BY <1>7, WentIsNext DEF WentOnly
  <2>3. QED
    BY <1>8, <1>9, <1>10, <1>11, <1>13, <1>14, <2>1, <2>2, BytesAreSpots
<1>17. WayInOrder'
  <2>1. \A i, j \in 0..(Waiting' - 1) : i < j => Before(RingAt(i)', RingAt(j)')
    BY <1>11 DEF LinesInv, WayInOrder
  <2>2. \A i \in 0..(Waiting' - 1) : RingAt(i)' \in OnTheWay
    BY <1>11, <1>12
  <2>3. \A i \in 0..(Waiting' - 1), j \in 1..Len(piece') : Before(RingAt(i)', piece'[j])
    BY <1>5, <1>8, <1>14, <1>15, <2>2, BytesAreSpots
  <2>4. \A i, j \in 1..Len(piece') : i < j => Before(piece'[i], piece'[j])
    BY <1>3, <1>5 DEF Before
  <2>5. \A b \in OnTheWay' : Before(b, next') /\ b \notin Lost'
    BY <1>8, <1>9, <1>11, <1>13, <1>14, <1>15, BytesAreSpots
  <2>6. \A b \in Lost' : Before(b, next')
    BY <1>8, <1>11, <1>14, <1>15, BytesAreSpots
  <2>7. \A b \in unsent' : \A j \in b[2]..(Length + 1) : <<b[1], j>> \in unsent'
    BY <1>11 DEF LinesInv, WayInOrder
  <2>8. \A b \in Went', c \in OnTheWay' : Before(b, c)
    BY <1>8, <1>13, <1>14, <1>15, <1>16, BytesAreSpots
  <2>9. QED
    BY <2>1, <2>3, <2>4, <2>5, <2>6, <2>7, <2>8 DEF WayInOrder
<1>18. QED
  BY <1>7, <1>16, <1>17

LEMMA CutKeeps ==
  ASSUME LinesInv, CutLine
  PROVE  LinesTyped' /\ WayInOrder' /\ Went' = Went
<1> DEFINE l == next[1]
           s == next[2]
           U == {<<l, i>> : i \in s..(Length + 1)}
<1>1. /\ piece = << >> /\ l \in 1..MaxLines /\ s \in 1..(Length + 1) /\ next = <<l, s>>
      /\ unsent' = unsent \cup U /\ next' = <<l + 1, 1>> /\ cuts' \in 0..MaxCuts
      /\ UNCHANGED <<piece, rxBuf, rxHead, rxTail, btLine, heard, dropped>>
  BY LengthsAre DEF CutLine, LinesInv, LinesTyped, Lines
<1> HIDE DEF l, s
<1>2. s \in Nat /\ l \in Nat /\ Length \in Nat
  BY <1>1, LengthsAre
<1>3. U \subseteq Byte
  <2>1. \A i \in s..(Length + 1) : i \in 1..(Length + 1)
    BY <1>1, <1>2
  <2>2. QED
    BY <1>1, <2>1, BytesAre
<1>4. next' \in (1..(MaxLines + 1)) \X (1..(Length + 1))
  BY <1>1, <1>2, LengthsAre
<1>5. LinesTyped'
  BY <1>1, <1>3, <1>4 DEF LinesInv, LinesTyped
<1>6. \A b \in Spots : Before(b, next) => Before(b, next')
  <2> SUFFICES ASSUME NEW b \in Spots, Before(b, next)
               PROVE  Before(b, next')
    OBVIOUS
  <2>1. b[1] \in Nat /\ b[2] \in Nat
    BY DEF Spots
  <2>2. b[1] < l \/ (b[1] = l /\ b[2] < s)
    BY <1>1 DEF Before
  <2>3. next'[1] = l + 1
    BY <1>1
  <2>4. QED
    BY <1>2, <2>1, <2>2, <2>3 DEF Before
<1>7. \A b \in U : ~Before(b, next) /\ Before(b, next')
  <2> SUFFICES ASSUME NEW i \in s..(Length + 1)
               PROVE  ~Before(<<l, i>>, next) /\ Before(<<l, i>>, next')
    OBVIOUS
  <2>1. next[1] = l /\ next[2] = s /\ next'[1] = l + 1
    BY <1>1
  <2>2. QED
    BY <1>2, <2>1 DEF Before
<1>8. \A b \in Byte : Before(b, next') /\ ~Before(b, next) => b \in U
  <2> SUFFICES ASSUME NEW b \in Byte, Before(b, next'), ~Before(b, next)
               PROVE  b \in U
    OBVIOUS
  <2>1. b[1] \in Nat /\ b[2] \in 1..(Length + 1) /\ b = <<b[1], b[2]>>
    BY BytesAre
  <2>2. ~(b[1] < l \/ (b[1] = l /\ b[2] < s))
    BY <1>1 DEF Before
  <2>3. next'[1] = l + 1 /\ next'[2] = 1
    BY <1>1
  <2>4. b[1] = l /\ b[2] >= s
    BY <1>2, <2>1, <2>2, <2>3 DEF Before
  <2>5. b[2] \in s..(Length + 1)
    BY <1>2, <2>1, <2>4
  <2>6. QED
    BY <2>1, <2>4, <2>5
<1>9. U \subseteq Spots
  BY <1>3, BytesAreSpots
<1>10. \A b \in U : \A j \in b[2]..(Length + 1) : <<b[1], j>> \in U
  BY <1>2
<1>11. Lost' = Lost \cup U
  BY <1>1 DEF Lost
<1> HIDE DEF U
<1>12. UNCHANGED Waiting /\ \A i : RingAt(i)' = RingAt(i)
  BY <1>1 DEF Waiting, RingAt
<1>13. OnTheWay' = OnTheWay
  BY <1>1, <1>12 DEF OnTheWay
<1>14. OnTheWay \subseteq Byte /\ Went \subseteq Byte /\ Lost \subseteq Byte
  BY WayIsBytes DEF LinesInv, Went, Lost, LinesTyped
<1>15. /\ \A b \in OnTheWay : Before(b, next) /\ b \notin Lost
       /\ \A b \in Lost : Before(b, next)
       /\ \A b \in Went, c \in OnTheWay : Before(b, c)
       /\ \A b \in Went : Before(b, next)
  BY WentIs DEF LinesInv, WayInOrder, WentOnly
<1>16. Went' = Went
  <2>1. \A b : b \in Went <=> b \in Byte /\ b \notin Lost /\ b \notin OnTheWay /\ Before(b, next)
    BY WentIs DEF LinesInv, WentOnly
  <2>2. \A b : b \in Went' <=> b \in Byte /\ b \notin Lost' /\ b \notin OnTheWay' /\ Before(b, next')
    BY <1>5, WentIsNext DEF WentOnly
  <2>3. QED
    BY <1>6, <1>7, <1>8, <1>11, <1>13, <1>14, <2>1, <2>2, BytesAreSpots
<1>17. WayInOrder'
  <2>1. \A i, j \in 0..(Waiting' - 1) : i < j => Before(RingAt(i)', RingAt(j)')
    BY <1>12 DEF LinesInv, WayInOrder
  <2>2. Len(piece') = 0
    BY <1>1
  <2>3. \A b \in OnTheWay' : Before(b, next') /\ b \notin Lost'
    BY <1>6, <1>7, <1>11, <1>13, <1>14, <1>15, BytesAreSpots
  <2>4. \A b \in Lost' : Before(b, next')
    BY <1>6, <1>7, <1>11, <1>14, <1>15, BytesAreSpots
  <2>5. \A b \in unsent' : \A j \in b[2]..(Length + 1) : <<b[1], j>> \in unsent'
    <3>1. \A b \in unsent : \A j \in b[2]..(Length + 1) : <<b[1], j>> \in unsent
      BY DEF LinesInv, WayInOrder
    <3>2. QED
      BY <1>1, <1>10, <3>1
  <2>6. \A b \in Went', c \in OnTheWay' : Before(b, c)
    BY <1>13, <1>15, <1>16
  <2>7. QED
    BY <2>1, <2>2, <2>3, <2>4, <2>5, <2>6 DEF WayInOrder
<1>18. QED
  BY <1>5, <1>16, <1>17

(* The callback pushes a byte, or gives up what is left of the piece.      *)
LEMMA DropKeeps ==
  ASSUME LinesInv, RxPush, (rxHead + 1) % RX_CAP = rxTail
  PROVE  LinesTyped' /\ WayInOrder' /\ Went' = Went /\ dropped \subseteq dropped'
<1> DEFINE G == {piece[i] : i \in DOMAIN piece}
<1>1. /\ dropped' = dropped \cup G /\ piece' = << >>
      /\ UNCHANGED <<rxBuf, rxHead, next, rxTail, btLine, heard, unsent, cuts>>
  BY DEF RxPush
<1>2. UNCHANGED Waiting /\ \A i : RingAt(i)' = RingAt(i)
  BY <1>1 DEF Waiting, RingAt
<1>3. OnTheWay \subseteq Byte /\ Went \subseteq Byte /\ Lost \subseteq Byte /\ G \subseteq OnTheWay
  BY WayIsBytes DEF LinesInv, Went, Lost, LinesTyped, OnTheWay
<1>4. OnTheWay' = {RingAt(i) : i \in 0..(Waiting - 1)} /\ OnTheWay = OnTheWay' \cup G
  BY <1>1, <1>2 DEF OnTheWay
<1>5. Lost' = Lost \cup G
  BY <1>1 DEF Lost
<1>6. \A b \in OnTheWay' : b \notin G
  <2> SUFFICES ASSUME NEW i \in 0..(Waiting - 1), NEW j \in DOMAIN piece, RingAt(i) = piece[j]
               PROVE  FALSE
    BY <1>4
  <2>1. j \in 1..Len(piece)
    BY DEF LinesInv, LinesTyped
  <2>2. Before(RingAt(i), piece[j]) /\ piece[j] \in Byte
    BY <2>1, WayIsBytes DEF LinesInv, WayInOrder
  <2>3. QED
    BY <2>2, BytesAreSpots, BeforeOrders
<1>7. LinesTyped'
  <2>1. dropped' \subseteq Byte /\ piece' \in Seq(Byte)
    BY <1>1, <1>3 DEF LinesInv, LinesTyped
  <2>2. QED
    BY <1>1, <2>1 DEF LinesInv, LinesTyped
<1> HIDE DEF G
<1>8. Went' = Went
  <2>1. \A b : b \in Went <=> b \in Byte /\ b \notin Lost /\ b \notin OnTheWay /\ Before(b, next)
    BY WentIs DEF LinesInv, WentOnly
  <2>2. \A b : b \in Went' <=> b \in Byte /\ b \notin Lost' /\ b \notin OnTheWay' /\ Before(b, next')
    BY <1>7, WentIsNext DEF WentOnly
  <2>3. QED
    BY <1>1, <1>4, <1>5, <2>1, <2>2
<1>9. WayInOrder'
  <2>1. \A i, j \in 0..(Waiting' - 1) : i < j => Before(RingAt(i)', RingAt(j)')
    BY <1>2 DEF LinesInv, WayInOrder
  <2>2. Len(piece') = 0
    BY <1>1
  <2>3. \A b \in OnTheWay' : Before(b, next') /\ b \notin Lost'
    BY <1>1, <1>4, <1>5, <1>6 DEF LinesInv, WayInOrder
  <2>4. \A b \in Lost' : Before(b, next')
    BY <1>1, <1>3, <1>5 DEF LinesInv, WayInOrder
  <2>5. \A b \in unsent' : \A j \in b[2]..(Length + 1) : <<b[1], j>> \in unsent'
    BY <1>1 DEF LinesInv, WayInOrder
  <2>6. \A b \in Went', c \in OnTheWay' : Before(b, c)
    BY <1>4, <1>8 DEF LinesInv, WayInOrder
  <2>7. QED
    BY <2>1, <2>2, <2>3, <2>4, <2>5, <2>6 DEF WayInOrder
<1>10. QED
  BY <1>1, <1>7, <1>8, <1>9

LEMMA PushByteKeeps ==
  ASSUME LinesInv, RxPush, (rxHead + 1) % RX_CAP # rxTail
  PROVE  LinesTyped' /\ WayInOrder' /\ Went' = Went /\ dropped \subseteq dropped'
<1> DEFINE w == Waiting
           m == Len(piece)
<1>1. /\ rxBuf' = [rxBuf EXCEPT ![rxHead] = Head(piece)] /\ piece # << >>
      /\ rxHead' = (rxHead + 1) % RX_CAP /\ piece' = Tail(piece)
      /\ UNCHANGED <<next, rxTail, btLine, heard, unsent, dropped, cuts>>
  BY DEF RxPush
<1>2. RX_CAP \in Nat \ {0} /\ rxHead \in 0..(RX_CAP - 1) /\ rxTail \in 0..(RX_CAP - 1)
  BY LengthsAre DEF LinesInv, LinesTyped
<1>3. rxHead' = IF rxHead = RX_CAP - 1 THEN 0 ELSE rxHead + 1
  BY <1>1, <1>2, NextReading
<1>4. w \in Nat /\ w + 1 <= RX_CAP - 1 /\ Waiting' = w + 1
  BY <1>1, <1>2, <1>3 DEF Waiting
<1>5. piece \in Seq(Byte) /\ rxBuf \in [0..(RX_CAP - 1) -> Byte]
  BY DEF LinesInv, LinesTyped
<1>6. /\ m \in Nat \ {0} /\ Head(piece) = piece[1] /\ piece[1] \in Byte
      /\ piece' \in Seq(Byte) /\ Len(piece') = m - 1
      /\ \A i \in 1..(m - 1) : piece'[i] = piece[i + 1]
  BY <1>1, <1>5
<1>7. \A i \in 0..(w - 1) : RingAt(i)' = RingAt(i)
  <2> SUFFICES ASSUME NEW i \in 0..(w - 1)
               PROVE  RingAt(i)' = RingAt(i)
    OBVIOUS
  <2> DEFINE y == IF rxTail + i < RX_CAP THEN rxTail + i ELSE rxTail + i - RX_CAP
  <2>1. y \in 0..(RX_CAP - 1) /\ y # rxHead
    BY <1>2, <1>4 DEF Waiting
  <2>2. RingAt(i) = rxBuf[y] /\ RingAt(i)' = rxBuf'[y]
    BY <1>1 DEF RingAt
  <2> HIDE DEF y
  <2>3. rxBuf'[y] = rxBuf[y]
    BY <1>1, <1>5, <2>1
  <2>4. QED
    BY <2>2, <2>3
<1>8. \A i \in Nat : i = w => RingAt(i)' = piece[1]
  <2> SUFFICES ASSUME NEW CONSTANT i \in Nat, i = w
               PROVE  RingAt(i)' = piece[1]
    OBVIOUS
  <2>1. (IF rxTail + i < RX_CAP THEN rxTail + i ELSE rxTail + i - RX_CAP) = rxHead
    BY <1>2, <1>4 DEF Waiting
  <2>2. RingAt(i)' = rxBuf'[rxHead]
    BY <1>1, <2>1 DEF RingAt
  <2>3. QED
    BY <1>1, <1>2, <1>5, <1>6, <2>2
<1> HIDE DEF w, m
<1>9. /\ \A i, j \in 0..(w - 1) : i < j => Before(RingAt(i), RingAt(j))
      /\ \A i \in 0..(w - 1), j \in 1..m : Before(RingAt(i), piece[j])
      /\ \A i, j \in 1..m : i < j => Before(piece[i], piece[j])
  BY DEF LinesInv, WayInOrder, w, m
<1>10. OnTheWay' = OnTheWay
  <2>1. DOMAIN piece = 1..m /\ DOMAIN piece' = 1..(m - 1)
    BY <1>5, <1>6 DEF m
  <2>2. OnTheWay' = {RingAt(i)' : i \in 0..w} \cup {piece'[i] : i \in 1..(m - 1)}
    <3>1. w + 1 - 1 = w
      BY <1>4
    <3>2. QED
      BY <1>4, <2>1, <3>1 DEF OnTheWay
  <2>3. OnTheWay = {RingAt(i) : i \in 0..(w - 1)} \cup {piece[i] : i \in 1..m}
    BY <2>1 DEF OnTheWay, w
  <2>4. \A i \in 0..w : i \in 0..(w - 1) \/ i = w
    BY <1>4
  <2>5. \A i \in 1..m : i = 1 \/ (i - 1 \in 1..(m - 1) /\ i = (i - 1) + 1)
    BY <1>6
  <2>6. \A i \in 1..(m - 1) : i + 1 \in 1..m
    BY <1>6
  <2>7. OnTheWay' \subseteq OnTheWay
    <3>1. \A i \in 0..w : RingAt(i)' \in OnTheWay
      <4>1. 1 \in 1..m
        BY <1>6
      <4>2. QED
        BY <1>4, <1>7, <1>8, <2>3, <2>4, <4>1
    <3>2. \A i \in 1..(m - 1) : piece'[i] \in OnTheWay
      BY <1>6, <2>3, <2>6
    <3>3. QED
      BY <2>2, <3>1, <3>2
  <2>8. OnTheWay \subseteq OnTheWay'
    <3>1. \A i \in 0..(w - 1) : RingAt(i) \in OnTheWay'
      <4>1. \A i \in 0..(w - 1) : i \in 0..w
        BY <1>4
      <4>2. QED
        BY <1>7, <2>2, <4>1
    <3>2. \A i \in 1..m : piece[i] \in OnTheWay'
      <4>1. w \in 0..w
        BY <1>4
      <4>2. piece[1] \in OnTheWay'
        BY <1>4, <1>8, <2>2, <4>1
      <4>3. \A i \in 1..(m - 1) : piece[i + 1] \in OnTheWay'
        BY <1>6, <2>2
      <4>4. QED
        BY <2>5, <4>2, <4>3
    <3>3. QED
      BY <2>3, <3>1, <3>2
  <2>9. QED
    BY <2>7, <2>8
<1>11. LinesTyped'
  <2>1. rxBuf' \in [0..(RX_CAP - 1) -> Byte]
    BY <1>1, <1>5, <1>6
  <2>2. rxHead' \in 0..(RX_CAP - 1)
    BY <1>2, <1>3
  <2>3. QED
    BY <1>1, <1>6, <2>1, <2>2 DEF LinesInv, LinesTyped
<1>12. Lost' = Lost
  BY <1>1 DEF Lost
<1>13. Went' = Went
  <2>1. \A b : b \in Went <=> b \in Byte /\ b \notin Lost /\ b \notin OnTheWay /\ Before(b, next)
    BY WentIs DEF LinesInv, WentOnly
  <2>2. \A b : b \in Went' <=> b \in Byte /\ b \notin Lost' /\ b \notin OnTheWay' /\ Before(b, next')
    BY <1>11, WentIsNext DEF WentOnly
  <2>3. QED
    BY <1>1, <1>10, <1>12, <2>1, <2>2
<1>14. WayInOrder'
  <2>1. \A i \in 0..w : i \in 0..(w - 1) \/ i = w
    BY <1>4
  <2>2. Waiting' - 1 = w
    BY <1>4
  <2>3. \A i, j \in 0..w : i < j => Before(RingAt(i)', RingAt(j)')
    <3> SUFFICES ASSUME NEW i \in 0..w, NEW j \in 0..w, i < j
                 PROVE  Before(RingAt(i)', RingAt(j)')
      OBVIOUS
    <3>1. i \in 0..(w - 1)
      BY <1>4
    <3>2. 1 \in 1..m
      BY <1>6
    <3>3. CASE j = w
      BY <1>4, <1>7, <1>8, <1>9, <3>1, <3>2, <3>3
    <3>4. CASE j \in 0..(w - 1)
      BY <1>7, <1>9, <3>1, <3>4
    <3>5. QED
      BY <2>1, <3>3, <3>4
  <2>4. \A i \in 0..w, j \in 1..(m - 1) : Before(RingAt(i)', piece'[j])
    <3> SUFFICES ASSUME NEW i \in 0..w, NEW j \in 1..(m - 1)
                 PROVE  Before(RingAt(i)', piece'[j])
      OBVIOUS
    <3>1. 1 \in 1..m /\ j + 1 \in 1..m /\ 1 < j + 1 /\ piece'[j] = piece[j + 1]
      BY <1>6
    <3>2. CASE i = w
      BY <1>4, <1>8, <1>9, <3>1, <3>2
    <3>3. CASE i \in 0..(w - 1)
      BY <1>7, <1>9, <3>1, <3>3
    <3>4. QED
      BY <2>1, <3>2, <3>3
  <2>5. \A i, j \in 1..(m - 1) : i < j => Before(piece'[i], piece'[j])
    <3> SUFFICES ASSUME NEW i \in 1..(m - 1), NEW j \in 1..(m - 1), i < j
                 PROVE  Before(piece'[i], piece'[j])
      OBVIOUS
    <3>1. i + 1 \in 1..m /\ j + 1 \in 1..m /\ i + 1 < j + 1
      BY <1>6
    <3>2. QED
      BY <1>6, <1>9, <3>1
  <2>6. \A b \in OnTheWay' : Before(b, next') /\ b \notin Lost'
    BY <1>1, <1>10, <1>12 DEF LinesInv, WayInOrder
  <2>7. \A b \in Lost' : Before(b, next')
    BY <1>1, <1>12 DEF LinesInv, WayInOrder
  <2>8. \A b \in unsent' : \A j \in b[2]..(Length + 1) : <<b[1], j>> \in unsent'
    BY <1>1 DEF LinesInv, WayInOrder
  <2>9. \A b \in Went', c \in OnTheWay' : Before(b, c)
    BY <1>10, <1>13 DEF LinesInv, WayInOrder
  <2>10. QED
    BY <1>6, <2>2, <2>3, <2>4, <2>5, <2>6, <2>7, <2>8, <2>9 DEF WayInOrder
<1>15. QED
  BY <1>1, <1>11, <1>13, <1>14

LEMMA PushKeeps ==
  ASSUME LinesInv, RxPush
  PROVE  LinesInv'
<1>1. LinesTyped' /\ WayInOrder' /\ Went' = Went /\ dropped \subseteq dropped'
  BY DropKeeps, PushByteKeeps
<1>2. UNCHANGED <<btLine, heard>>
  BY DEF RxPush
<1>3. QED
  BY <1>1, <1>2, QuietKeeps DEF LinesInv

(* The loop takes the oldest byte out of the ring.                         *)
TakenOut(byte) ==
  /\ byte \in Byte /\ byte \notin Went /\ Went' = Went \cup {byte}
  /\ \A b \in Went : Before(b, byte)

LEMMA TakesOldest ==
  ASSUME LinesInv, PollByte, btLine' \in Seq(Byte), Len(btLine') <= LineCap, heard' \in Seq(Seq(Byte))
  PROVE  LinesTyped' /\ WayInOrder' /\ TakenOut(rxBuf[rxTail])
<1> DEFINE w == Waiting
           byte == rxBuf[rxTail]
<1>1. /\ Available > 0 /\ rxTail' = (rxTail + 1) % RX_CAP
      /\ UNCHANGED <<next, piece, rxBuf, rxHead, unsent, dropped, cuts>>
  BY DEF PollByte
<1>2. RX_CAP \in Nat \ {0} /\ rxHead \in 0..(RX_CAP - 1) /\ rxTail \in 0..(RX_CAP - 1)
  BY LengthsAre DEF LinesInv, LinesTyped
<1>3. rxTail' = IF rxTail = RX_CAP - 1 THEN 0 ELSE rxTail + 1
  BY <1>1, <1>2, NextReading
<1>4. w \in Nat /\ w > 0 /\ Waiting' = w - 1
  <2>1. Available = w
    BY RingIs DEF LinesInv
  <2>2. QED
    BY <1>1, <1>2, <1>3, <2>1 DEF Waiting
<1>5. \A i \in 0..(w - 2) : RingAt(i)' = RingAt(i + 1)
  <2> SUFFICES ASSUME NEW CONSTANT i \in 0..(w - 2)
               PROVE  RingAt(i)' = RingAt(i + 1)
    OBVIOUS
  <2> DEFINE y == IF rxTail + (i + 1) < RX_CAP THEN rxTail + (i + 1) ELSE rxTail + (i + 1) - RX_CAP
             z == IF rxTail' + i < RX_CAP THEN rxTail' + i ELSE rxTail' + i - RX_CAP
  <2>1. y = z
    BY <1>2, <1>3, <1>4 DEF Waiting
  <2>2. RingAt(i + 1) = rxBuf[y] /\ RingAt(i)' = rxBuf[z]
    BY <1>1 DEF RingAt
  <2> HIDE DEF y, z
  <2>3. QED
    BY <2>1, <2>2
<1>6. byte = RingAt(0) /\ 0 \in 0..(w - 1)
  <2>1. rxTail + 0 = rxTail /\ rxTail < RX_CAP /\ 0 \in 0..(w - 1)
    BY <1>2, <1>4
  <2>2. QED
    BY <2>1 DEF RingAt
<1> HIDE DEF w, byte
<1>7. \A i \in 0..(w - 1) : RingAt(i) \in Byte
  BY RingIs DEF w, LinesInv
<1>8. /\ \A i, j \in 0..(w - 1) : i < j => Before(RingAt(i), RingAt(j))
      /\ \A i \in 0..(w - 1), j \in 1..Len(piece) : Before(RingAt(i), piece[j])
  BY DEF LinesInv, WayInOrder, w
<1>9. Waiting' - 1 = w - 2
  BY <1>4
<1>10. OnTheWay = OnTheWay' \cup {byte}
  <2> DEFINE P == {piece[i] : i \in DOMAIN piece}
  <2>1. OnTheWay = {RingAt(i) : i \in 0..(w - 1)} \cup P
    BY DEF OnTheWay, w
  <2>2. OnTheWay' = {RingAt(i)' : i \in 0..(w - 2)} \cup P
    BY <1>1, <1>9 DEF OnTheWay
  <2> HIDE DEF P
  <2>3. \A i \in 0..(w - 2) : i + 1 \in 0..(w - 1)
    BY <1>4
  <2>4. \A i \in 0..(w - 1) : i = 0 \/ (i - 1 \in 0..(w - 2) /\ i = (i - 1) + 1)
    BY <1>4
  <2>5. OnTheWay' \subseteq OnTheWay
    BY <1>5, <2>1, <2>2, <2>3
  <2>6. \A i \in 0..(w - 1) : RingAt(i) \in OnTheWay' \cup {byte}
    <3>1. \A i \in 0..(w - 2) : RingAt(i + 1) \in OnTheWay'
      BY <1>5, <2>2
    <3>2. QED
      BY <1>6, <2>4, <3>1
  <2>7. byte \in OnTheWay
    BY <1>6, <2>1
  <2>8. QED
    BY <2>1, <2>2, <2>5, <2>6, <2>7
<1>11. \A c \in OnTheWay' : Before(byte, c)
  <2>1. \A i \in 0..(w - 2) : i + 1 \in 0..(w - 1) /\ 0 < i + 1
    BY <1>4
  <2>2. \A i \in 0..(w - 2) : Before(byte, RingAt(i)')
    BY <1>5, <1>6, <1>8, <2>1
  <2>3. \A i \in DOMAIN piece : Before(byte, piece[i])
    <3>1. DOMAIN piece = 1..Len(piece)
      BY DEF LinesInv, LinesTyped
    <3>2. QED
      BY <1>6, <1>8, <3>1
  <2>4. OnTheWay' = {RingAt(i)' : i \in 0..(w - 2)} \cup {piece[i] : i \in DOMAIN piece}
    BY <1>1, <1>9 DEF OnTheWay
  <2>5. QED
    BY <2>2, <2>3, <2>4
<1>12. byte \in Byte /\ byte \notin OnTheWay'
  BY <1>6, <1>7, <1>11, BytesAreSpots, BeforeOrders
<1>13. LinesTyped'
  <2>1. rxTail' \in 0..(RX_CAP - 1)
    BY <1>2, <1>3
  <2>2. QED
    BY <1>1, <2>1 DEF LinesInv, LinesTyped
<1>14. Lost' = Lost
  BY <1>1 DEF Lost
<1>15. /\ Before(byte, next) /\ byte \notin Lost /\ byte \in OnTheWay
       /\ \A b \in Went : Before(b, byte)
  BY <1>10 DEF LinesInv, WayInOrder
<1>16. byte \notin Went /\ Went' = Went \cup {byte}
  <2>1. \A b : b \in Went <=> b \in Byte /\ b \notin Lost /\ b \notin OnTheWay /\ Before(b, next)
    BY WentIs DEF LinesInv, WentOnly
  <2>2. \A b : b \in Went' <=> b \in Byte /\ b \notin Lost' /\ b \notin OnTheWay' /\ Before(b, next')
    BY <1>13, WentIsNext DEF WentOnly
  <2>3. QED
    BY <1>1, <1>10, <1>12, <1>14, <1>15, <2>1, <2>2
<1>17. WayInOrder'
  <2>1. \A i, j \in 0..(w - 2) : i < j => Before(RingAt(i)', RingAt(j)')
    <3>1. \A i, j \in 0..(w - 2) : i < j => i + 1 \in 0..(w - 1) /\ j + 1 \in 0..(w - 1) /\ i + 1 < j + 1
      BY <1>4
    <3>2. QED
      BY <1>5, <1>8, <3>1
  <2>2. \A i \in 0..(w - 2), j \in 1..Len(piece') : Before(RingAt(i)', piece'[j])
    <3>1. \A i \in 0..(w - 2) : i + 1 \in 0..(w - 1)
      BY <1>4
    <3>2. QED
      BY <1>1, <1>5, <1>8, <3>1
  <2>3. \A i, j \in 1..Len(piece') : i < j => Before(piece'[i], piece'[j])
    BY <1>1 DEF LinesInv, WayInOrder
  <2>4. \A b \in OnTheWay' : Before(b, next') /\ b \notin Lost'
    BY <1>1, <1>10, <1>14 DEF LinesInv, WayInOrder
  <2>5. \A b \in Lost' : Before(b, next')
    BY <1>1, <1>14 DEF LinesInv, WayInOrder
  <2>6. \A b \in unsent' : \A j \in b[2]..(Length + 1) : <<b[1], j>> \in unsent'
    BY <1>1 DEF LinesInv, WayInOrder
  <2>7. \A b \in Went', c \in OnTheWay' : Before(b, c)
    BY <1>10, <1>11, <1>16 DEF LinesInv, WayInOrder
  <2>8. QED
    BY <1>9, <2>1, <2>2, <2>3, <2>4, <2>5, <2>6, <2>7 DEF WayInOrder
<1>18. TakenOut(byte)
  BY <1>12, <1>15, <1>16 DEF TakenOut
<1>19. QED
  BY <1>13, <1>17, <1>18 DEF byte

(* What the code does with it.                                             *)
LEMMA PollIs ==
  ASSUME LinesInv, PollByte
  PROVE  /\ EndsLine(rxBuf[rxTail]) =>
              /\ btLine' = << >>
              /\ heard' = IF btLine # << >> /\ Readable(btLine) THEN Append(heard, btLine) ELSE heard
         /\ ~EndsLine(rxBuf[rxTail]) =>
              /\ btLine' = IF Len(btLine) < LineCap THEN Append(btLine, rxBuf[rxTail]) ELSE btLine
              /\ heard' = heard
         /\ btLine' \in Seq(Byte) /\ Len(btLine') <= LineCap /\ heard' \in Seq(Seq(Byte))
         /\ dropped' = dropped
<1>1. LineCap \in Nat \ {0} /\ rxBuf[rxTail] \in Byte
  BY LengthsAre DEF LinesInv, LinesTyped
<1>2. btLine \in Seq(Byte) /\ heard \in Seq(Seq(Byte)) /\ Len(btLine) <= LineCap
  BY DEF LinesInv, LinesTyped
<1>3. /\ EndsLine(rxBuf[rxTail]) =>
           /\ btLine' = << >>
           /\ heard' = IF btLine # << >> /\ Readable(btLine) THEN Append(heard, btLine) ELSE heard
      /\ ~EndsLine(rxBuf[rxTail]) =>
           /\ btLine' = IF Len(btLine) < LineCap THEN Append(btLine, rxBuf[rxTail]) ELSE btLine
           /\ heard' = heard
      /\ dropped' = dropped
  BY DEF PollByte
<1>4. btLine' \in Seq(Byte) /\ Len(btLine') <= LineCap
  <2>1. CASE EndsLine(rxBuf[rxTail])
    BY <1>1, <1>3, <2>1
  <2>2. CASE ~EndsLine(rxBuf[rxTail]) /\ Len(btLine) < LineCap
    <3>1. btLine' = Append(btLine, rxBuf[rxTail])
      BY <1>3, <2>2
    <3>2. Len(btLine') = Len(btLine) + 1 /\ btLine' \in Seq(Byte) /\ Len(btLine) \in Nat
      BY <1>1, <1>2, <3>1
    <3>3. QED
      BY <1>1, <2>2, <3>2
  <2>3. CASE ~EndsLine(rxBuf[rxTail]) /\ ~(Len(btLine) < LineCap)
    BY <1>2, <1>3, <2>3
  <2>4. QED
    BY <2>1, <2>2, <2>3
<1>5. heard' \in Seq(Seq(Byte))
  <2>1. heard' = Append(heard, btLine) \/ heard' = heard
    BY <1>3
  <2> DEFINE S == Seq(Byte)
  <2>2. heard \in Seq(S) /\ btLine \in S
    BY <1>2
  <2> HIDE DEF S
  <2>3. heard' \in Seq(S)
    BY <2>1, <2>2
  <2>4. QED
    BY <2>3 DEF S
<1>6. QED
  BY <1>3, <1>4, <1>5

LEMMA BufferKeeps ==
  ASSUME LinesInv, PollByte, TakenOut(rxBuf[rxTail])
  PROVE  BufferIsLine'
<1> DEFINE byte == rxBuf[rxTail]
           n == Len(btLine)
<1>1. byte \in Byte /\ Went' = Went \cup {byte} /\ \A b \in Went : Before(b, byte)
  BY DEF TakenOut
<1>2. btLine \in Seq(Byte) /\ n \in Nat /\ n <= LineCap /\ LineCap \in Nat \ {0}
  BY LengthsAre DEF LinesInv, LinesTyped
<1>3. /\ \A i, j \in 1..n : i < j => Before(btLine[i], btLine[j])
      /\ \A i \in 1..n : btLine[i] \in Went /\ ~EndsLine(btLine[i])
      /\ \A e \in Went : EndsLine(e) => \A i \in 1..n : Before(e, btLine[i])
      /\ \A b \in Went :
           \/ \E e \in Went : EndsLine(e) /\ ~Before(e, b)
           \/ \E i \in 1..n : btLine[i] = b
           \/ n = LineCap /\ Before(btLine[LineCap], b)
  BY DEF LinesInv, BufferIsLine
<1>4. CASE EndsLine(byte)
  <2>1. btLine' = << >> /\ Len(btLine') = 0
    BY <1>4, PollIs
  <2>2. \A b \in Went' : ~Before(byte, b)
    <3>1. Went \subseteq Spots /\ byte \in Spots
      BY <1>1, BytesAreSpots DEF Went
    <3>2. QED
      BY <1>1, <3>1, BeforeOrders
  <2>3. \A b \in Went' : \E e \in Went' : EndsLine(e) /\ ~Before(e, b)
    BY <1>1, <1>4, <2>2
  <2>4. QED
    BY <2>1, <2>3 DEF BufferIsLine
<1>5. CASE ~EndsLine(byte) /\ n < LineCap
  <2>1. btLine' = Append(btLine, byte)
    BY <1>5, PollIs
  <2>2. Len(btLine') = n + 1 /\ btLine'[n + 1] = byte /\ \A i \in 1..n : btLine'[i] = btLine[i]
    BY <1>1, <1>2, <2>1
  <2> HIDE DEF n, byte
  <2>3. \A i \in 1..(n + 1) : i \in 1..n \/ i = n + 1
    BY <1>2
  <2>4. \A i, j \in 1..(n + 1) : i < j => Before(btLine'[i], btLine'[j])
    <3> SUFFICES ASSUME NEW i \in 1..(n + 1), NEW j \in 1..(n + 1), i < j
                 PROVE  Before(btLine'[i], btLine'[j])
      OBVIOUS
    <3>1. i \in 1..n
      BY <1>2
    <3>2. CASE j = n + 1
      BY <1>1, <1>3, <2>2, <3>1, <3>2
    <3>3. CASE j \in 1..n
      BY <1>3, <2>2, <3>1, <3>3
    <3>4. QED
      BY <2>3, <3>2, <3>3
  <2>5. \A i \in 1..(n + 1) : btLine'[i] \in Went' /\ ~EndsLine(btLine'[i])
    BY <1>1, <1>3, <1>5, <2>2, <2>3
  <2>6. \A e \in Went' : EndsLine(e) => \A i \in 1..(n + 1) : Before(e, btLine'[i])
    BY <1>1, <1>3, <1>5, <2>2, <2>3
  <2>7. \A b \in Went' :
          \/ \E e \in Went' : EndsLine(e) /\ ~Before(e, b)
          \/ \E i \in 1..(n + 1) : btLine'[i] = b
          \/ n + 1 = LineCap /\ Before(btLine'[LineCap], b)
    <3>1. \A i \in 1..n : i \in 1..(n + 1)
      BY <1>2
    <3>2. n + 1 \in 1..(n + 1)
      BY <1>2
    <3>3. n # LineCap
      BY <1>2, <1>5
    <3>4. QED
      BY <1>1, <1>3, <2>2, <3>1, <3>2, <3>3
  <2>8. QED
    BY <2>2, <2>4, <2>5, <2>6, <2>7 DEF BufferIsLine
<1>6. CASE ~EndsLine(byte) /\ ~(n < LineCap)
  <2>1. btLine' = btLine /\ n = LineCap /\ LineCap \in 1..n
    BY <1>2, <1>6, PollIs
  <2>2. Before(btLine[LineCap], byte)
    BY <1>1, <1>3, <2>1
  <2>3. Len(btLine') = n
    BY <2>1
  <2> HIDE DEF n, byte
  <2>4. \A i \in 1..n : btLine[i] \in Went'
    BY <1>1, <1>3
  <2>5. \A e \in Went' : EndsLine(e) => e \in Went
    BY <1>1, <1>6
  <2>6. \A b \in Went' :
          \/ \E e \in Went' : EndsLine(e) /\ ~Before(e, b)
          \/ \E i \in 1..n : btLine[i] = b
          \/ n = LineCap /\ Before(btLine[LineCap], b)
    BY <1>1, <1>3, <2>1, <2>2
  <2>7. QED
    BY <1>3, <2>1, <2>3, <2>4, <2>5, <2>6 DEF BufferIsLine
<1>7. QED
  BY <1>4, <1>5, <1>6

(* A buffer with nothing but bytes of one line has them in order.          *)
OfLine(line) == \A k \in 1..Len(btLine) : btLine[k][1] = line

LEMMA PlacesGrow ==
  ASSUME LinesInv, NEW line \in Lines, OfLine(line)
  PROVE  /\ \A k \in 1..Len(btLine) : btLine[k][2] \in 1..Length /\ btLine[k] = <<line, btLine[k][2]>>
         /\ \A j, k \in 1..Len(btLine) : j < k => btLine[j][2] < btLine[k][2]
         /\ \A k \in 1..Len(btLine) : k <= btLine[k][2]
<1> DEFINE n == Len(btLine)
<1>1. btLine \in Seq(Byte) /\ n \in Nat /\ Length \in Nat
  BY LengthsAre DEF LinesInv, LinesTyped
<1>2. \A k \in 1..n : btLine[k][2] \in 1..Length /\ btLine[k] = <<line, btLine[k][2]>>
  <2> SUFFICES ASSUME NEW k \in 1..n
               PROVE  btLine[k][2] \in 1..Length /\ btLine[k] = <<line, btLine[k][2]>>
    OBVIOUS
  <2>1. btLine[k] \in Byte
    BY <1>1
  <2>2. btLine[k][2] # Length + 1
    BY DEF LinesInv, BufferIsLine, EndsLine
  <2>3. btLine[k][2] \in 1..(Length + 1) /\ btLine[k] = <<btLine[k][1], btLine[k][2]>>
    BY <2>1, BytesAre
  <2>4. QED
    BY <1>1, <2>2, <2>3 DEF OfLine
<1>3. \A j, k \in 1..n : j < k => btLine[j][2] < btLine[k][2]
  <2> SUFFICES ASSUME NEW j \in 1..n, NEW k \in 1..n, j < k
               PROVE  btLine[j][2] < btLine[k][2]
    OBVIOUS
  <2>1. Before(btLine[j], btLine[k])
    BY DEF LinesInv, BufferIsLine
  <2>2. btLine[j][1] = line /\ btLine[k][1] = line /\ line \in Nat
    BY DEF OfLine, Lines
  <2>3. QED
    BY <2>1, <2>2 DEF Before
<1>4. \A k \in 1..n : k <= btLine[k][2]
  <2> DEFINE S == {k \in Nat : k \in 1..n => k <= btLine[k][2]}
  <2>1. 0 \in S
    OBVIOUS
  <2>2. \A k \in 0..(n - 1) : k \in S => k + 1 \in S
    <3> SUFFICES ASSUME NEW k \in 0..(n - 1), k \in S, k + 1 \in 1..n
                 PROVE  k + 1 <= btLine[k + 1][2]
      <4>1. \A k \in 0..(n - 1) : k \in Nat /\ k + 1 \in Nat
        BY <1>1
      <4>2. QED
        BY <4>1
    <3>1. btLine[k + 1][2] \in 1..Length
      BY <1>2
    <3>2. CASE k = 0
      BY <3>1, <3>2
    <3>3. CASE k # 0
      <4>1. k \in 1..n /\ k < k + 1
        BY <1>1, <3>3
      <4>2. k <= btLine[k][2] /\ btLine[k][2] < btLine[k + 1][2] /\ btLine[k][2] \in 1..Length
        BY <1>2, <1>3, <4>1
      <4>3. QED
        BY <3>1, <4>2
    <3>4. QED
      BY <3>2, <3>3
  <2> HIDE DEF S
  <2>3. 0..n \subseteq S
    BY <1>1, <2>1, <2>2, UpTo
  <2>4. \A k \in 1..n : k \in 0..n
    BY <1>1
  <2>5. QED
    BY <2>3, <2>4 DEF S
<1>5. QED
  BY <1>2, <1>3, <1>4

(* With every byte of the line but its end it is the line.                 *)
LEMMA AllOfLine ==
  ASSUME LinesInv, NEW line \in Lines, OfLine(line),
         \A i \in 1..Length : \E k \in 1..Len(btLine) : btLine[k] = <<line, i>>
  PROVE  btLine = WholeLine(line) /\ Len(btLine) = Length
<1> DEFINE n == Len(btLine)
           f(k) == btLine[k][2]
<1>1. btLine \in Seq(Byte) /\ n \in Nat /\ Length \in Nat /\ Length > 1
  BY LengthsAre DEF LinesInv, LinesTyped
<1>2. /\ \A k \in 1..n : f(k) \in 1..Length /\ btLine[k] = <<line, f(k)>>
      /\ \A j, k \in 1..n : j < k => f(j) < f(k)
      /\ \A k \in 1..n : k <= f(k)
  BY PlacesGrow
<1>3. \A i \in 1..Length : \E k \in 1..n : f(k) = i
  <2> SUFFICES ASSUME NEW i \in 1..Length
               PROVE  \E k \in 1..n : f(k) = i
    OBVIOUS
  <2>1. PICK k \in 1..n : btLine[k] = <<line, i>>
    OBVIOUS
  <2>2. f(k) = i
    BY <2>1
  <2>3. QED
    BY <2>2
<1> HIDE DEF n, f
<1>4. \A i \in 1..Length : i \in 1..n /\ f(i) = i
  <2> DEFINE S == {i \in Nat : i \in 1..Length => i \in 1..n /\ f(i) = i}
  <2>1. 0 \in S
    OBVIOUS
  <2>2. \A i \in 0..(Length - 1) : i \in S => i + 1 \in S
    <3> SUFFICES ASSUME NEW i \in 0..(Length - 1), i \in S
                 PROVE  i + 1 \in 1..n /\ f(i + 1) = i + 1
      OBVIOUS
    <3>1. i + 1 \in 1..Length
      BY <1>1
    <3>2. PICK k \in 1..n : f(k) = i + 1
      BY <1>3, <3>1
    <3>3. k <= i + 1 /\ k \in Nat
      BY <1>2, <3>2
    <3>4. k = i + 1
      <4>1. CASE i = 0
        BY <3>3, <4>1
      <4>2. CASE i # 0
        <5>1. i \in 1..n /\ f(i) = i
          BY <1>1, <4>2
        <5>2. ~(k < i) /\ k # i
          BY <1>2, <3>2, <5>1
        <5>3. QED
          BY <3>3, <5>1, <5>2
      <4>3. QED
        BY <4>1, <4>2
    <3>5. QED
      BY <3>2, <3>4
  <2> HIDE DEF S
  <2>3. 0..Length \subseteq S
    BY <1>1, <2>1, <2>2, UpTo
  <2>4. \A i \in 1..Length : i \in 0..Length
    BY <1>1
  <2>5. QED
    BY <2>3, <2>4 DEF S
<1>5. n = Length
  <2>1. Length \in 1..n
    BY <1>1, <1>4
  <2>2. ASSUME n # Length
        PROVE  FALSE
    <3>1. Length + 1 \in 1..n
      BY <1>1, <2>1, <2>2
    <3>2. Length + 1 <= f(Length + 1) /\ f(Length + 1) \in 1..Length
      BY <1>2, <3>1
    <3>3. QED
      BY <1>1, <3>2
  <2>3. QED
    BY <2>2
<1>6. \A k \in 1..Length : btLine[k] = <<line, k>>
  BY <1>2, <1>4
<1>7. DOMAIN btLine = 1..Length /\ btLine = [k \in DOMAIN btLine |-> btLine[k]]
  BY <1>1, <1>5 DEF n
<1>8. btLine = [k \in 1..Length |-> <<line, k>>]
  BY <1>6, <1>7
<1>9. QED
  BY <1>5, <1>8 DEF WholeLine, n

(* Before the buffer, on the line of its first byte or an earlier one,     *)
(* only ends of earlier lines went.                                        *)
LEMMA EndsAreEarlier ==
  ASSUME LinesInv, Len(btLine) > 0, NEW e \in Went, EndsLine(e)
  PROVE  e[1] < btLine[1][1]
<1>1. 1 \in 1..Len(btLine) /\ btLine[1] \in Byte /\ e \in Byte
  BY DEF LinesInv, LinesTyped, Went
<1>2. Before(e, btLine[1])
  BY <1>1 DEF LinesInv, BufferIsLine
<1>3. btLine[1][2] \in 1..(Length + 1) /\ btLine[1][1] \in Nat /\ e[1] \in Nat /\ Length \in Nat
  BY <1>1, BytesAre, LengthsAre
<1>4. e[2] = Length + 1
  BY DEF EndsLine
<1>5. QED
  BY <1>2, <1>3, <1>4 DEF Before

(* A byte that the buffer should have, before its last one, found the ring *)
(* full: the connection never ends in the middle of a line that goes on.   *)
LEMMA MissingWasDropped ==
  ASSUME LinesInv, Len(btLine) > 0, NEW d \in Byte, Before(d, LastOf(btLine)),
         d[1] >= btLine[1][1], d[1] = LastOf(btLine)[1], \A k \in 1..Len(btLine) : btLine[k] # d
  PROVE  d \in dropped
<1> DEFINE n == Len(btLine)
           last1 == LastOf(btLine)
<1>1. btLine \in Seq(Byte) /\ n \in Nat /\ n \in 1..n /\ Length \in Nat
  BY LengthsAre DEF LinesInv, LinesTyped
<1>2. last1 \in Went /\ last1 \in Byte
  <2>1. last1 = btLine[n]
    BY DEF LastOf
  <2>2. QED
    BY <1>1, <2>1 DEF LinesInv, BufferIsLine
<1>3. \A b : b \in Went <=> b \in Byte /\ b \notin Lost /\ b \notin OnTheWay /\ Before(b, next)
  BY WentIs DEF LinesInv, WentOnly
<1>4. d \in Spots /\ last1 \in Spots /\ next \in Spots /\ OnTheWay \subseteq Spots
  BY <1>2, BytesAreSpots, WayIsBytes DEF LinesInv
<1>5. Before(last1, next) /\ last1 \notin Lost
  BY <1>2, <1>3
<1>6. Before(d, next)
  BY <1>4, <1>5, BeforeOrders
<1>7. d \notin OnTheWay
  <2>1. ASSUME d \in OnTheWay
        PROVE  FALSE
    <3>1. Before(last1, d)
      BY <1>2, <2>1 DEF LinesInv, WayInOrder
    <3>2. QED
      BY <1>4, <3>1, BeforeOrders
  <2>2. QED
    BY <2>1
<1>8. d \notin Went
  <2>1. ASSUME d \in Went
        PROVE  FALSE
    <3>1. \A e \in Went : EndsLine(e) => Before(e, d)
      <4> SUFFICES ASSUME NEW e \in Went, EndsLine(e)
                   PROVE  Before(e, d)
        OBVIOUS
      <4>1. e[1] < btLine[1][1] /\ e \in Byte /\ btLine[1] \in Byte
        BY <1>1, EndsAreEarlier DEF Went
      <4>2. e[1] \in Nat /\ d[1] \in Nat /\ btLine[1][1] \in Nat
        BY <4>1, BytesAre
      <4>3. QED
        BY <4>1, <4>2 DEF Before
    <3>2. n = LineCap /\ Before(btLine[LineCap], d)
      BY <2>1, <3>1 DEF LinesInv, BufferIsLine
    <3>3. Before(last1, d)
      BY <3>2 DEF LastOf
    <3>4. QED
      BY <1>4, <3>3, BeforeOrders
  <2>2. QED
    BY <2>1
<1>9. d \in Lost
  BY <1>3, <1>6, <1>7, <1>8
<1>10. d \notin unsent
  <2>1. ASSUME d \in unsent
        PROVE  FALSE
    <3>1. last1[1] = d[1] /\ last1[2] >= d[2] /\ last1[2] \in 1..(Length + 1) /\ last1 = <<last1[1], last1[2]>>
      <4>1. last1[2] \in 1..(Length + 1) /\ last1 = <<last1[1], last1[2]>> /\ d[2] \in Nat /\ d[1] \in Nat
        BY <1>2, BytesAre
      <4>2. d[1] < last1[1] \/ (d[1] = last1[1] /\ d[2] < last1[2])
        BY DEF Before
      <4>3. last1[1] = d[1]
        OBVIOUS
      <4>4. QED
        BY <4>1, <4>2, <4>3
    <3>2. last1[2] \in d[2]..(Length + 1)
      <4>1. d[2] \in Nat
        BY BytesAre
      <4>2. QED
        BY <1>1, <3>1, <4>1
    <3>3. <<d[1], last1[2]>> \in unsent
      BY <2>1, <3>2 DEF LinesInv, WayInOrder
    <3>4. last1 \in unsent
      BY <3>1, <3>3
    <3>5. QED
      BY <1>5, <3>4 DEF Lost
  <2>2. QED
    BY <2>1
<1>11. QED
  BY <1>9, <1>10 DEF Lost

(* A line that went as a whole, and the line before it to its end, is what *)
(* the buffer holds when its end comes.                                    *)
LEMMA WholeIsHeld ==
  ASSUME LinesInv, Length <= LineCap, PollByte, TakenOut(rxBuf[rxTail]),
         NEW line \in Lines, LineWent(line)', ~LineWent(line)
  PROVE  EndsLine(rxBuf[rxTail]) /\ btLine = WholeLine(line) /\ Len(btLine) = Length
<1> DEFINE byte == rxBuf[rxTail]
           n == Len(btLine)
           end == <<line, Length + 1>>
<1>1. byte \in Byte /\ Went' = Went \cup {byte} /\ \A b \in Went : Before(b, byte)
  BY DEF TakenOut
<1>2. /\ Length \in Nat /\ Length > 1 /\ LineCap \in Nat /\ line \in 1..MaxLines /\ line \in Nat /\ MaxLines \in Nat
      /\ btLine \in Seq(Byte) /\ n \in Nat
  BY LengthsAre DEF Lines, LinesInv, LinesTyped
<1>3. /\ \A i \in 1..(Length + 1) : <<line, i>> \in Went'
      /\ line > 1 => <<line - 1, Length + 1>> \in Went'
  BY DEF LineWent
<1> HIDE DEF byte, n
<1>4. end \in Went'
  <2>1. Length + 1 \in 1..(Length + 1)
    BY <1>2
  <2>2. QED
    BY <1>3, <2>1
<1>5. byte = end
  <2>1. ASSUME byte # end
        PROVE  FALSE
    <3>1. Before(end, byte)
      BY <1>1, <1>4, <2>1
    <3>2. byte[1] > line
      <4>1. byte[1] \in Nat /\ byte[2] \in 1..(Length + 1)
        BY <1>1, BytesAre
      <4>2. QED
        BY <1>2, <3>1, <4>1 DEF Before
    <3>3. byte # <<line - 1, Length + 1>> /\ \A i \in 1..(Length + 1) : byte # <<line, i>>
      BY <1>2, <3>2
    <3>4. LineWent(line)
      BY <1>1, <1>3, <3>3 DEF LineWent
    <3>5. QED
      BY <3>4
  <2>2. QED
    BY <2>1
<1>6. EndsLine(byte)
  BY <1>5 DEF EndsLine
<1>7. \A i \in 1..Length : <<line, i>> \in Went
  <2> SUFFICES ASSUME NEW i \in 1..Length
               PROVE  <<line, i>> \in Went
    OBVIOUS
  <2>1. i \in 1..(Length + 1) /\ i # Length + 1
    BY <1>2
  <2>2. <<line, i>> # end
    BY <2>1
  <2>3. QED
    BY <1>1, <1>3, <1>5, <2>1, <2>2
<1>8. line > 1 => <<line - 1, Length + 1>> \in Went
  <2>1. line > 1 => <<line - 1, Length + 1>> # end
    BY <1>2
  <2>2. QED
    BY <1>1, <1>3, <1>5, <2>1
<1>9. OfLine(line)
  <2> SUFFICES ASSUME NEW k \in 1..n
               PROVE  btLine[k][1] = line
    BY DEF OfLine, n
  <2>1. btLine[k] \in Went /\ btLine[k] \in Byte
    BY DEF LinesInv, BufferIsLine, n, Went
  <2>2. Before(btLine[k], end)
    BY <1>1, <1>5, <2>1
  <2>3. btLine[k][1] \in 1..MaxLines /\ btLine[k][2] \in 1..(Length + 1)
    BY <2>1, BytesAre
  <2>4. btLine[k][1] <= line
    BY <1>2, <2>2, <2>3 DEF Before
  <2>5. CASE line = 1
    BY <1>2, <2>3, <2>4, <2>5
  <2>6. CASE line > 1
    <3> DEFINE e == <<line - 1, Length + 1>>
    <3>1. e \in Went /\ EndsLine(e)
      BY <1>8, <2>6 DEF EndsLine
    <3>2. Before(e, btLine[k])
      BY <3>1 DEF LinesInv, BufferIsLine, n
    <3>3. btLine[k][1] > line - 1
      BY <1>2, <2>3, <3>2 DEF Before
    <3>4. QED
      BY <1>2, <2>3, <2>4, <3>3
  <2>7. QED
    BY <1>2, <2>5, <2>6
<1>10. /\ \A k \in 1..n : btLine[k][2] \in 1..Length /\ btLine[k] = <<line, btLine[k][2]>>
       /\ \A k \in 1..n : k <= btLine[k][2]
  BY <1>9, PlacesGrow DEF n
<1>11. \A i \in 1..Length : \E k \in 1..n : btLine[k] = <<line, i>>
  <2> SUFFICES ASSUME NEW i \in 1..Length
               PROVE  \E k \in 1..n : btLine[k] = <<line, i>>
    OBVIOUS
  <2> DEFINE b == <<line, i>>
  <2>1. b \in Went
    BY <1>7
  <2>2. \A e \in Went : EndsLine(e) => Before(e, b)
    <3> SUFFICES ASSUME NEW e \in Went, EndsLine(e)
                 PROVE  Before(e, b)
      OBVIOUS
    <3>1. Before(e, end) /\ e[2] = Length + 1
      BY <1>1, <1>5 DEF EndsLine
    <3>2. e \in Byte /\ e[1] \in Nat
      BY BytesAre DEF Went
    <3>3. e[1] < line
      BY <1>2, <3>1, <3>2 DEF Before
    <3>4. QED
      BY <3>3 DEF Before
  <2>3. (\E k \in 1..n : btLine[k] = b) \/ (n = LineCap /\ Before(btLine[LineCap], b))
    BY <2>1, <2>2 DEF LinesInv, BufferIsLine, n
  <2>4. ASSUME n = LineCap, Before(btLine[LineCap], b)
        PROVE  FALSE
    <3>1. LineCap \in 1..n
      BY <1>2, <2>4
    <3>2. btLine[LineCap][1] = line /\ LineCap <= btLine[LineCap][2] /\ btLine[LineCap][2] \in 1..Length
      BY <1>10, <3>1
    <3>3. btLine[LineCap][2] < i
      BY <1>2, <2>4, <3>2 DEF Before
    <3>4. QED
      BY <1>2, <3>2, <3>3
  <2>5. QED
    BY <2>3, <2>4
<1>12. QED
  BY <1>6, <1>9, <1>11, AllOfLine DEF n, byte

(* A line that parses is one of the host, or has lost a byte to the ring.  *)
LEMMA ReadableIsLine ==
  ASSUME LinesInv, btLine # << >>, Readable(btLine)
  PROVE  \/ \E line \in Lines : btLine = WholeLine(line)
         \/ \E byte \in dropped : byte[1] \in btLine[1][1]..LastOf(btLine)[1]
<1> DEFINE n == Len(btLine)
           l1 == btLine[1][1]
           l2 == LastOf(btLine)[1]
           final == LastOf(btLine)
<1>1. btLine \in Seq(Byte) /\ n \in Nat /\ n > 0 /\ Length \in Nat /\ Length > 1
  BY LengthsAre DEF LinesInv, LinesTyped
<1>2. DOMAIN btLine = 1..n /\ 1 \in 1..n /\ n \in 1..n /\ final = btLine[n]
  BY <1>1 DEF LastOf
<1>3. /\ \A i \in 1..n : btLine[i][2] = 1 <=> i = 1
      /\ final[2] = Length
  BY <1>2 DEF Readable
<1>4. btLine[1] \in Byte /\ final \in Byte
  BY <1>1, <1>2
<1>5. l1 \in 1..MaxLines /\ l2 \in 1..MaxLines /\ l1 \in Nat /\ l2 \in Nat /\ final = <<l2, Length>>
  BY <1>3, <1>4, BytesAre, LengthsAre
<1>6. \A i, j \in 1..n : i < j => Before(btLine[i], btLine[j])
  BY DEF LinesInv, BufferIsLine
<1>7. l1 <= l2
  <2>1. CASE n = 1
    BY <1>2, <1>5, <2>1
  <2>2. CASE n # 1
    <3>1. 1 < n
      <4>1. \A x \in Nat : x > 0 /\ x # 1 => 1 < x
        OBVIOUS
      <4>2. QED
        BY <1>1, <2>2, <4>1
    <3>2. Before(btLine[1], final)
      BY <1>2, <1>6, <3>1
    <3>3. QED
      BY <1>5, <3>2 DEF Before
  <2>3. QED
    BY <2>1, <2>2
<1>8. ASSUME NEW d \in Byte, d[1] = l2, d[2] < Length, \A k \in 1..n : btLine[k] # d
      PROVE  \E byte \in dropped : byte[1] \in l1..l2
  <2>1. d[2] \in Nat /\ d[1] \in Nat /\ d[1] >= l1
    BY <1>5, <1>7, <1>8, BytesAre
  <2>2. Before(d, final)
    BY <1>3, <1>8 DEF Before
  <2>3. d \in dropped
    BY <1>1, <1>8, <2>1, <2>2, MissingWasDropped
  <2>4. d[1] \in l1..l2
    BY <1>5, <1>7, <1>8
  <2>5. QED
    BY <2>3, <2>4
<1> HIDE DEF n, l1, l2, final
<1>9. CASE l1 # l2
  <2> DEFINE d == <<l2, 1>>
  <2>1. d \in Byte
    <3>1. 1 \in 1..(Length + 1)
      BY <1>1
    <3>2. QED
      BY <1>5, <3>1, BytesAre
  <2>2. \A k \in 1..n : btLine[k] # d
    <3> SUFFICES ASSUME NEW k \in 1..n, btLine[k] = d
                 PROVE  FALSE
      OBVIOUS
    <3>1. btLine[k][2] = 1 /\ btLine[k][1] = l2
      OBVIOUS
    <3>2. k = 1
      BY <1>3, <3>1
    <3>3. QED
      BY <1>9, <3>1, <3>2 DEF l1
  <2>3. d[1] = l2 /\ d[2] < Length
    BY <1>1
  <2> HIDE DEF d
  <2>4. QED
    BY <1>8, <2>1, <2>2, <2>3 DEF l1, l2
<1>10. CASE l1 = l2
  <2>1. l2 \in Lines
    BY <1>5 DEF Lines
  <2>2. OfLine(l2)
    <3> SUFFICES ASSUME NEW k \in 1..n
                 PROVE  btLine[k][1] = l2
      BY DEF OfLine, n
    <3>1. btLine[k] \in Byte /\ btLine[k][1] \in Nat
      <4>1. btLine[k] \in Byte
        BY <1>1, <1>2
      <4>2. QED
        BY <4>1, BytesAre
    <3>2. l1 <= btLine[k][1]
      <4>1. CASE k = 1
        BY <1>5, <4>1 DEF l1
      <4>2. CASE k # 1
        <5>1. Before(btLine[1], btLine[k])
          BY <1>1, <1>2, <1>6, <4>2
        <5>2. QED
          BY <1>5, <3>1, <5>1 DEF Before, l1
      <4>3. QED
        BY <4>1, <4>2
    <3>3. btLine[k][1] <= l2
      <4>1. CASE k = n
        BY <1>2, <1>5, <4>1 DEF l2, final
      <4>2. CASE k # n
        <5>1. Before(btLine[k], final)
          BY <1>1, <1>2, <1>6, <4>2
        <5>2. final[1] = l2
          BY <1>5
        <5>3. QED
          BY <1>5, <3>1, <5>1, <5>2 DEF Before
      <4>3. QED
        BY <4>1, <4>2
    <3>4. QED
      BY <1>5, <1>10, <3>1, <3>2, <3>3
  <2>3. CASE \A i \in 1..Length : \E k \in 1..n : btLine[k] = <<l2, i>>
    <3>1. btLine = WholeLine(l2)
      BY <2>1, <2>2, <2>3, AllOfLine DEF n
    <3>2. QED
      BY <2>1, <3>1
  <2>4. ASSUME NEW i \in 1..Length, \A k \in 1..n : btLine[k] # <<l2, i>>
        PROVE  \E byte \in dropped : byte[1] \in l1..l2
    <3> DEFINE d == <<l2, i>>
    <3>1. d \in Byte
      <4>1. i \in 1..(Length + 1)
        BY <1>1
      <4>2. QED
        BY <1>5, <4>1, BytesAre
    <3>2. i # Length
      BY <1>2, <1>5, <2>4
    <3>3. d[1] = l2 /\ d[2] < Length /\ \A k \in 1..n : btLine[k] # d
      BY <1>1, <2>4, <3>2
    <3> HIDE DEF d
    <3>4. QED
      BY <1>8, <3>1, <3>3
  <2>5. QED
    BY <2>3, <2>4 DEF l1, l2
<1>11. QED
  BY <1>9, <1>10

LEMMA HeardKeeps ==
  ASSUME LinesInv, PollByte, TakenOut(rxBuf[rxTail])
  PROVE  HeardInOrder'
<1> DEFINE byte == rxBuf[rxTail]
           m == Len(heard)
<1>1. byte \in Byte /\ Went' = Went \cup {byte} /\ \A b \in Went : Before(b, byte)
  BY DEF TakenOut
<1>2. heard \in Seq(Seq(Byte)) /\ m \in Nat /\ btLine \in Seq(Byte)
  BY DEF LinesInv, LinesTyped
<1>3. /\ Length <= LineCap => \A line \in Lines : LineWent(line) => \E k \in 1..m : heard[k] = WholeLine(line)
      /\ \A k \in 1..m :
           /\ Len(heard[k]) > 0
           /\ \/ \E line \in Lines : heard[k] = WholeLine(line)
              \/ \E b \in dropped : b[1] \in heard[k][1][1]..LastOf(heard[k])[1]
           /\ \E e \in Went : EndsLine(e) /\ LastOf(heard[k])[1] <= e[1]
      /\ \A j, k \in 1..m : j < k => LastOf(heard[j])[1] < heard[k][1][1]
  BY DEF LinesInv, HeardInOrder
<1>4. ASSUME Length <= LineCap, NEW line \in Lines, LineWent(line)', ~LineWent(line)
      PROVE  EndsLine(byte) /\ btLine = WholeLine(line) /\ Len(btLine) = Length
  BY <1>4, WholeIsHeld
<1>5. dropped' = dropped
  BY PollIs
<1>6. CASE heard' = heard
  <2>1. Length <= LineCap =>
          \A line \in Lines : LineWent(line)' => \E k \in 1..m : heard[k] = WholeLine(line)
    <3> SUFFICES ASSUME Length <= LineCap, NEW line \in Lines, LineWent(line)'
                 PROVE  \E k \in 1..m : heard[k] = WholeLine(line)
      OBVIOUS
    <3>1. CASE LineWent(line)
      BY <1>3, <3>1
    <3>2. ASSUME ~LineWent(line)
          PROVE  FALSE
      <4>1. EndsLine(byte) /\ btLine = WholeLine(line) /\ Len(btLine) = Length
        BY <1>4, <3>2
      <4>2. Length \in Nat /\ Length > 1
        BY LengthsAre
      <4>3. DOMAIN btLine = 1..Length /\ \A i \in 1..Length : btLine[i] = <<line, i>>
        BY <4>1 DEF WholeLine
      <4>4. btLine # << >>
        BY <4>1, <4>2
      <4>5. Readable(btLine)
        <5>1. Length \in 1..Length
          BY <4>2
        <5>2. btLine[Len(btLine)][2] = Length
          BY <4>1, <4>3, <5>1
        <5>3. QED
          BY <4>3, <5>2 DEF Readable
      <4>6. heard' = Append(heard, btLine)
        BY <4>1, <4>4, <4>5, PollIs
      <4>7. Len(heard') = m + 1
        BY <1>2, <4>6
      <4>8. QED
        BY <1>2, <1>6, <4>7
    <3>3. QED
      BY <3>1, <3>2
  <2>2. Len(heard') = m
    BY <1>6
  <2> HIDE DEF m, byte
  <2>3. \A k \in 1..m : \E e \in Went' : EndsLine(e) /\ LastOf(heard[k])[1] <= e[1]
    BY <1>1, <1>3
  <2>4. QED
    BY <1>3, <1>5, <1>6, <2>1, <2>2, <2>3 DEF HeardInOrder
<1>7. CASE heard' # heard
  <2>1. EndsLine(byte) /\ btLine # << >> /\ Readable(btLine) /\ heard' = Append(heard, btLine)
    BY <1>7, PollIs
  <2>2. Len(heard') = m + 1 /\ heard'[m + 1] = btLine /\ \A k \in 1..m : heard'[k] = heard[k]
    <3> DEFINE S == Seq(Byte)
    <3>1. heard \in Seq(S) /\ btLine \in S
      BY <1>2
    <3> HIDE DEF S
    <3>2. QED
      BY <2>1, <3>1
  <2> HIDE DEF m, byte
  <2>3. \A k \in 1..(m + 1) : k \in 1..m \/ k = m + 1
    BY <1>2
  <2>4. m + 1 \in 1..(m + 1) /\ \A k \in 1..m : k \in 1..(m + 1)
    BY <1>2
  <2>5. Length <= LineCap =>
          \A line \in Lines : LineWent(line)' => \E k \in 1..(m + 1) : heard'[k] = WholeLine(line)
    BY <1>3, <1>4, <2>2, <2>4
  <2>6. Len(btLine) > 0 /\ Len(btLine) \in Nat
    BY <1>2, <2>1
  <2>7. \/ \E line \in Lines : btLine = WholeLine(line)
        \/ \E b \in dropped : b[1] \in btLine[1][1]..LastOf(btLine)[1]
    BY <2>1, ReadableIsLine
  <2>8. LastOf(btLine)[1] <= byte[1]
    <3>1. Len(btLine) \in 1..Len(btLine)
      BY <2>6
    <3>2. LastOf(btLine) \in Went
      BY <3>1 DEF LastOf, LinesInv, BufferIsLine
    <3>3. Before(LastOf(btLine), byte) /\ LastOf(btLine) \in Byte
      BY <1>1, <3>2 DEF Went
    <3>4. LastOf(btLine)[1] \in Nat /\ byte[1] \in Nat
      BY <1>1, <3>3, BytesAre, LengthsAre
    <3>5. QED
      BY <3>3, <3>4 DEF Before
  <2>9. ASSUME NEW j \in 1..m
        PROVE  LastOf(heard[j])[1] < btLine[1][1]
    <3>1. PICK e \in Went : EndsLine(e) /\ LastOf(heard[j])[1] <= e[1]
      BY <1>3
    <3>2. e[1] < btLine[1][1]
      BY <2>6, <3>1, EndsAreEarlier
    <3>3. heard[j] \in Seq(Byte) /\ Len(heard[j]) > 0
      <4> DEFINE S == Seq(Byte)
      <4>1. heard \in Seq(S)
        BY <1>2
      <4> HIDE DEF S
      <4>2. heard[j] \in S
        BY <4>1 DEF m
      <4>3. QED
        BY <1>3, <4>2 DEF S
    <3>4. LastOf(heard[j]) \in Byte
      <4>1. Len(heard[j]) \in 1..Len(heard[j])
        BY <3>3
      <4>2. QED
        BY <3>3, <4>1 DEF LastOf
    <3>5. btLine[1] \in Byte
      BY <1>2, <2>6
    <3>6. LastOf(heard[j])[1] \in Nat /\ e[1] \in Nat /\ btLine[1][1] \in Nat
      BY <3>4, <3>5, BytesAre, LengthsAre DEF Went
    <3>7. QED
      BY <3>1, <3>2, <3>6
  <2>10. \A k \in 1..(m + 1) : Len(heard'[k]) > 0
    BY <1>3, <2>2, <2>3, <2>6
  <2>11. \A k \in 1..(m + 1) :
           \/ \E line \in Lines : heard'[k] = WholeLine(line)
           \/ \E b \in dropped' : b[1] \in heard'[k][1][1]..LastOf(heard'[k])[1]
    <3> SUFFICES ASSUME NEW k \in 1..(m + 1)
                 PROVE  \/ \E line \in Lines : heard'[k] = WholeLine(line)
                        \/ \E b \in dropped' : b[1] \in heard'[k][1][1]..LastOf(heard'[k])[1]
      OBVIOUS
    <3>1. CASE k \in 1..m
      BY <1>3, <1>5, <2>2, <3>1
    <3>2. CASE k = m + 1
      BY <1>5, <2>2, <2>7, <3>2
    <3>3. QED
      BY <2>3, <3>1, <3>2
  <2>12. \A k \in 1..(m + 1) : \E e \in Went' : EndsLine(e) /\ LastOf(heard'[k])[1] <= e[1]
    <3> SUFFICES ASSUME NEW k \in 1..(m + 1)
                 PROVE  \E e \in Went' : EndsLine(e) /\ LastOf(heard'[k])[1] <= e[1]
      OBVIOUS
    <3>1. CASE k \in 1..m
      BY <1>1, <1>3, <2>2, <3>1
    <3>2. CASE k = m + 1
      BY <1>1, <2>1, <2>2, <2>8, <3>2
    <3>3. QED
      BY <2>3, <3>1, <3>2
  <2>13. \A j, k \in 1..(m + 1) : j < k => LastOf(heard'[j])[1] < heard'[k][1][1]
    <3> SUFFICES ASSUME NEW j \in 1..(m + 1), NEW k \in 1..(m + 1), j < k
                 PROVE  LastOf(heard'[j])[1] < heard'[k][1][1]
      OBVIOUS
    <3>1. j \in 1..m
      BY <1>2
    <3>2. CASE k \in 1..m
      BY <1>3, <2>2, <3>1, <3>2
    <3>3. CASE k = m + 1
      BY <2>2, <2>9, <3>1, <3>3
    <3>4. QED
      BY <2>3, <3>2, <3>3
  <2>14. QED
    BY <2>2, <2>5, <2>10, <2>11, <2>12, <2>13 DEF HeardInOrder
<1>8. QED
  BY <1>6, <1>7

LEMMA PollByteKeeps ==
  ASSUME LinesInv, PollByte
  PROVE  LinesInv'
<1>1. btLine' \in Seq(Byte) /\ Len(btLine') <= LineCap /\ heard' \in Seq(Seq(Byte))
  BY PollIs
<1>2. LinesTyped' /\ WayInOrder' /\ TakenOut(rxBuf[rxTail])
  BY <1>1, TakesOldest
<1>3. BufferIsLine' /\ HeardInOrder'
  BY <1>2, BufferKeeps, HeardKeeps
<1>4. QED
  BY <1>2, <1>3 DEF LinesInv

LEMMA LinesStart ==
  ASSUME LinesInit
  PROVE  LinesInv
<1>1. /\ Length \in Nat /\ Length > 1 /\ RX_CAP \in Nat /\ RX_CAP > 1 /\ LineCap \in Nat
      /\ MaxLines \in Nat \ {0} /\ MaxCuts \in Nat
  BY LengthsAre
<1>2. /\ next = <<1, 1>> /\ piece = << >> /\ rxBuf = [i \in 0..(RX_CAP - 1) |-> <<1, 1>>]
      /\ rxHead = 0 /\ rxTail = 0 /\ btLine = << >> /\ heard = << >>
      /\ unsent = {} /\ dropped = {} /\ cuts = 0
  BY DEF LinesInit
<1>3. <<1, 1>> \in Byte
  BY <1>1, BytesAre
<1>4. LinesTyped
  <2>1. rxBuf \in [0..(RX_CAP - 1) -> Byte] /\ 0 \in 0..(RX_CAP - 1)
    BY <1>1, <1>2, <1>3
  <2>2. next \in (1..(MaxLines + 1)) \X (1..(Length + 1))
    BY <1>1, <1>2
  <2>3. btLine \in Seq(Byte) /\ Len(btLine) <= LineCap /\ heard \in Seq(Seq(Byte)) /\ piece \in Seq(Byte)
    BY <1>1, <1>2
  <2>4. unsent \subseteq Byte /\ dropped \subseteq Byte /\ cuts \in 0..MaxCuts
    BY <1>1, <1>2
  <2>5. rxHead \in 0..(RX_CAP - 1) /\ rxTail \in 0..(RX_CAP - 1)
    BY <1>2, <2>1
  <2>6. QED
    BY <2>1, <2>2, <2>3, <2>4, <2>5 DEF LinesTyped
<1>5. Waiting = 0 /\ Lost = {} /\ Len(piece) = 0 /\ Len(btLine) = 0 /\ Len(heard) = 0
  BY <1>2 DEF Waiting, Lost
<1>6. OnTheWay = {}
  BY <1>2, <1>5 DEF OnTheWay
<1>7. Went = {}
  <2>1. \A b \in Byte : ~Before(b, next)
    <3> SUFFICES ASSUME NEW b \in Byte
                 PROVE  ~Before(b, next)
      OBVIOUS
    <3>1. b[1] \in 1..MaxLines /\ b[2] \in 1..(Length + 1) /\ next[1] = 1 /\ next[2] = 1
      BY <1>2, BytesAre
    <3>2. QED
      BY <1>1, <3>1 DEF Before
  <2>2. QED
    BY <1>4, <2>1, WentIs DEF WentOnly
<1>8. WayInOrder
  BY <1>2, <1>5, <1>6, <1>7 DEF WayInOrder
<1>9. BufferIsLine
  BY <1>5, <1>7 DEF BufferIsLine
<1>10. HeardInOrder
  <2>1. \A line : ~LineWent(line)
    <3>1. 1 \in 1..(Length + 1)
      BY <1>1
    <3>2. QED
      BY <1>7, <3>1 DEF LineWent
  <2>2. QED
    BY <1>5, <2>1 DEF HeardInOrder
<1>11. QED
  BY <1>4, <1>8, <1>9, <1>10 DEF LinesInv

LEMMA LinesStay ==
  ASSUME LinesInv, [LinesNext]_lineVars
  PROVE  LinesInv'
<1>1. CASE Write
  <2>1. UNCHANGED <<btLine, heard, dropped>>
    BY <1>1 DEF Write
  <2>2. QED
    BY <1>1, <2>1, WriteKeeps, QuietKeeps DEF LinesInv
<1>2. CASE CutLine
  <2>1. UNCHANGED <<btLine, heard, dropped>>
    BY <1>2 DEF CutLine
  <2>2. QED
    BY <1>2, <2>1, CutKeeps, QuietKeeps DEF LinesInv
<1>3. CASE RxPush
  BY <1>3, PushKeeps
<1>4. CASE PollByte
  BY <1>4, PollByteKeeps
<1>5. CASE UNCHANGED lineVars
  <2>1. UNCHANGED <<next, piece, rxBuf, rxHead, rxTail, btLine, heard, unsent, dropped, cuts>>
    BY <1>5 DEF lineVars
  <2>2. LinesTyped'
    BY <2>1 DEF LinesInv, LinesTyped
  <2>3. UNCHANGED <<Waiting, Lost>> /\ \A i : RingAt(i)' = RingAt(i)
    BY <2>1 DEF Waiting, RingAt, Lost
  <2>4. OnTheWay' = OnTheWay
    BY <2>1, <2>3 DEF OnTheWay
  <2>5. Went' = Went
    <3>1. \A b : b \in Went <=> b \in Byte /\ b \notin Lost /\ b \notin OnTheWay /\ Before(b, next)
      BY WentIs DEF LinesInv, WentOnly
    <3>2. \A b : b \in Went' <=> b \in Byte /\ b \notin Lost' /\ b \notin OnTheWay' /\ Before(b, next')
      BY <2>2, WentIsNext DEF WentOnly
    <3>3. QED
      BY <2>1, <2>3, <2>4, <3>1, <3>2
  <2>6. WayInOrder'
    BY <2>1, <2>3, <2>4, <2>5 DEF LinesInv, WayInOrder
  <2>7. QED
    BY <2>1, <2>2, <2>5, <2>6, QuietKeeps DEF LinesInv
<1>6. QED
  BY <1>1, <1>2, <1>3, <1>4, <1>5 DEF LinesNext

(* What the invariant says of the lines that were parsed.                  *)
LEMMA LinesShow ==
  ASSUME LinesInv
  PROVE  LinesTypeOK /\ (Length <= LineCap => LossIsLocal) /\ HeardWasSent
<1>1. LinesTypeOK
  BY DEF LinesInv, LinesTyped, LinesTypeOK
<1>2. /\ Length <= LineCap =>
           \A line \in Lines : LineWent(line) => \E k \in 1..Len(heard) : heard[k] = WholeLine(line)
      /\ \A j, k \in 1..Len(heard) : j < k => LastOf(heard[j])[1] < heard[k][1][1]
      /\ heard \in Seq(Seq(Byte)) /\ DOMAIN heard = 1..Len(heard) /\ Length \in Nat /\ Length > 1
  BY LengthsAre DEF LinesInv, HeardInOrder, LinesTyped
<1>3. Length <= LineCap => LossIsLocal
  <2> SUFFICES ASSUME Length <= LineCap, NEW line \in Lines, \A i \in 1..(Length + 1) : Passed(<<line, i>>),
                      line > 1 => Passed(<<line - 1, Length + 1>>)
               PROVE  \E k \in DOMAIN heard :
                        /\ heard[k] = WholeLine(line)
                        /\ \A j \in DOMAIN heard : heard[j] = WholeLine(line) => j = k
    BY DEF LossIsLocal
  <2>1. line \in 1..MaxLines /\ line \in Nat /\ MaxLines \in Nat
    BY LengthsAre DEF Lines
  <2>2. LineWent(line)
    <3>1. \A i \in 1..(Length + 1) : <<line, i>> \in Byte
      BY <2>1, BytesAre
    <3>2. line > 1 => <<line - 1, Length + 1>> \in Byte
      <4>1. line > 1 => line - 1 \in 1..MaxLines
        BY <2>1
      <4>2. Length + 1 \in 1..(Length + 1)
        BY <1>2
      <4>3. QED
        BY <4>1, <4>2, BytesAre
    <3>3. QED
      BY <3>1, <3>2 DEF LineWent, Went
  <2>3. PICK k \in 1..Len(heard) : heard[k] = WholeLine(line)
    BY <1>2, <2>2
  <2>4. WholeLine(line)[1][1] = line /\ LastOf(WholeLine(line))[1] = line
    <3>1. Len(WholeLine(line)) = Length /\ 1 \in 1..Length /\ Length \in 1..Length
      BY <1>2 DEF WholeLine
    <3>2. QED
      BY <3>1 DEF LastOf, WholeLine
  <2>5. ASSUME NEW j \in 1..Len(heard), heard[j] = WholeLine(line)
        PROVE  j = k
    <3>0. /\ \A p, q \in 1..Len(heard) : p < q => LastOf(heard[p])[1] < heard[q][1][1]
          /\ heard[j][1][1] = line /\ LastOf(heard[j])[1] = line
          /\ heard[k][1][1] = line /\ LastOf(heard[k])[1] = line
      BY <1>2, <2>3, <2>4, <2>5
    <3>1. ~(j < k) /\ ~(k < j)
      <4>1. ~(line < line)
        BY ONLY <2>1
      <4>2. QED
        BY ONLY <3>0, <4>1, j \in 1..Len(heard), k \in 1..Len(heard)
    <3>2. j \in Int /\ k \in Int
      OBVIOUS
    <3>3. QED
      BY <3>1, <3>2
  <2>6. QED
    BY <1>2, <2>3, <2>5
<1>4. HeardWasSent
  BY <1>2 DEF HeardWasSent, LinesInv, HeardInOrder, LastOf
<1>5. QED
  BY <1>1, <1>3, <1>4

--------------------------------------------------------------------------------
(* Behaviours that move one part.                                          *)

(* A behaviour of the parts is a behaviour of each of them.                *)
LEMMA PartsAreScreens == PartsSpec => ScreensSpec
<1>1. PartsInit => ScreensInit
  BY DEF PartsInit
<1>2. [PartsNext]_partVars => [ScreensNext]_surfaceVars
  BY DEF PartsNext, partVars
<1>3. QED
  BY <1>1, <1>2, PTL DEF PartsSpec, ScreensSpec

LEMMA PartsAreSleep == PartsSpec => SleepSpec
<1>1. PartsInit => SleepInit
  BY DEF PartsInit
<1>2. [PartsNext]_partVars => [SleepNext]_sleepVars
  BY DEF PartsNext, partVars
<1>3. QED
  BY <1>1, <1>2, PTL DEF PartsSpec, SleepSpec

LEMMA PartsAreMenus == PartsSpec => MenusSpec
<1>1. PartsInit => MenusInit
  BY DEF PartsInit
<1>2. [PartsNext]_partVars => [MenusNext]_menuVars
  BY DEF PartsNext, partVars
<1>3. QED
  BY <1>1, <1>2, PTL DEF PartsSpec, MenusSpec

(* An approval is seen: painted over whatever was there, gone when it is   *)
(* over, and lit unless the user put the display out while it was shown    *)
(* (loop, main.cpp 2551-3044).                                             *)
THEOREM ApprovalsSeen == PartsSpec => []ApprovalIsSeen
<1>1. PromptIsSeen /\ PromptIsLit => ApprovalIsSeen
  BY DEF ApprovalIsSeen
<1>2. QED
  BY <1>1, PartsAreScreens, PartsAreSleep, PromptsSeen, PromptsLit, PTL

LEMMA PartsAreOrient == PartsSpec => OrientSpec
<1>1. PartsInit => OrientInit
  BY DEF PartsInit
<1>2. [PartsNext]_partVars => [OrientNext]_orientVars
  BY DEF PartsNext, partVars
<1>3. QED
  BY <1>1, <1>2, PTL DEF PartsSpec, OrientSpec

LEMMA PartsAreMood == PartsSpec => MoodSpec
<1>1. PartsInit => MoodInit
  BY DEF PartsInit
<1>2. [PartsNext]_partVars => [MoodNext]_moodVars
  BY DEF PartsNext, partVars
<1>3. QED
  BY <1>1, <1>2, PTL DEF PartsSpec, MoodSpec

(* No jumps: a surface turns to its side only after fifteen samples that   *)
(* asked for it and back only after eight (clockOrientUpdateStateForStickS3) *)
(* and a denial takes the mood down or leaves it, and leaves the energy    *)
(* (statsMoodTier, statsEnergyTier).                                       *)
THEOREM NoJumps == PartsSpec => StepByStep
<1>1. OrientSpec => TurnsSlowly
  <2>1. OrientInv /\ [OrientNext]_orientVars =>
          [eligible /\ eligible' /\ orient.resolved /\ lock = 0 /\ Upright(orient') # Upright(orient)
             => asked >= (IF Upright(orient) THEN 14 ELSE 7)]_orientVars
    BY OrientStays
  <2>2. OrientInv /\ [OrientNext]_orientVars => OrientInv'
    BY OrientStays
  <2>3. QED
    BY <2>1, <2>2, OrientStarts, PTL DEF OrientSpec, TurnsSlowly
<1>2. MoodSpec => DenialNeverCheers
  <2>1. MoodTyped /\ [MoodNext]_moodVars =>
          [denials' > denials => MoodTier' <= MoodTier /\ EnergyTier' = EnergyTier]_moodVars
    BY DenialSteps
  <2>2. QED
    BY <2>1, MoodStarts, MoodTypesStay, PTL DEF MoodSpec, DenialNeverCheers
<1>3. QED
  BY <1>1, <1>2, PartsAreOrient, PartsAreMood, PTL DEF StepByStep

LEMMA PartsAreFace == PartsSpec => FaceSpec
<1>1. PartsInit => FaceInit
  BY DEF PartsInit
<1>2. [PartsNext]_partVars => [FaceNext]_faceVars
  BY DEF PartsNext, partVars
<1>3. QED
  BY <1>1, <1>2, PTL DEF PartsSpec, FaceSpec

LEMMA PartsAreHeart == PartsSpec => HeartbeatSpec
<1>1. PartsInit => HeartbeatInit
  BY DEF PartsInit
<1>2. [PartsNext]_partVars => [HeartbeatNext]_heartVars
  BY DEF PartsNext, partVars
<1>3. QED
  BY <1>1, <1>2, PTL DEF PartsSpec, HeartbeatSpec

LEMMA PartsAreStats == PartsSpec => StatsSpec
<1>1. PartsInit => StatsInit
  BY DEF PartsInit
<1>2. [PartsNext]_partVars => [StatsNext]_statsVars
  BY DEF PartsNext, partVars
<1>3. QED
  BY <1>1, <1>2, PTL DEF PartsSpec, StatsSpec

(* What is kept from frame to frame instead of being painted again is what *)
(* would be painted: the face and its meters (drawSharedClockFaceTo), the  *)
(* graph of the heartbeat (drawHeartbeatGraph) and the rotation of the     *)
(* surface (clockOrientUpdateStateForStickS3).                             *)
THEOREM PicturesKept == PartsSpec => []PicturesAreCurrent
<1>1. OrientSpec => []DrawnAsSettled
  <2>1. OrientInv => DrawnAsSettled
    BY DEF OrientInv
  <2>2. OrientInv /\ [OrientNext]_orientVars => OrientInv'
    BY OrientStays
  <2>3. QED
    BY <2>1, <2>2, OrientStarts, PTL DEF OrientSpec
<1>2. (FaceIsCurrent /\ MeterIsCurrent) /\ (HeartbeatIsCurrent /\ PulsesFade) /\ DrawnAsSettled
        => PicturesAreCurrent
  BY WaveRuns DEF PicturesAreCurrent
<1>3. QED
  BY <1>1, <1>2, PartsAreFace, PartsAreHeart, PartsAreOrient, FacesAreCurrent, BeatsAreCurrent, PTL

(* The pet keeps what it has eaten, once, over restarts of both sides      *)
(* (statsOnBridgeTokens), and feels what its ring and its clock stand for  *)
(* (statsOnApproval, statsMedianVelocity, statsEnergyTier).                *)
THEOREM PetsRemember == PartsSpec => []PetRemembers
<1>1. StatsSpec => [](NothingCreditedTwice /\ AtMostALevelLost /\ LevelFollowsTokens)
  BY StatsStart, StatsStay, StatsHold, PTL DEF StatsSpec
<1>2. MoodSpec => [](MedianOfLast /\ EnergyDrains)
  <2>1. MoodSpec => []RingHolds
    BY RingStarts, RingStays, PTL DEF MoodSpec
  <2>2. MoodSpec => []MoodTyped
    BY MoodStarts, MoodTypesStay, PTL DEF MoodSpec
  <2>3. QED
    BY <2>1, <2>2, MedianIsLast, EnergyLasts, PTL
<1>3. (NothingCreditedTwice /\ AtMostALevelLost /\ LevelFollowsTokens) /\ (MedianOfLast /\ EnergyDrains)
        => PetRemembers
  BY DEF PetRemembers
<1>4. QED
  BY <1>1, <1>2, <1>3, PartsAreStats, PartsAreMood, PTL

LEMMA PartsAreLines == PartsSpec => LinesSpec
<1>1. PartsInit => LinesInit
  BY DEF PartsInit
<1>2. [PartsNext]_partVars => [LinesNext]_lineVars
  BY DEF PartsNext, partVars
<1>3. QED
  BY <1>1, <1>2, PTL DEF PartsSpec, LinesSpec

(* What the host says gets through, whatever is cut or dropped on the way: *)
(* a line that arrived after the end of the one before it was parsed, once *)
(* and in order, and none is parsed that the host did not send unless a    *)
(* byte of it found the ring full (rxPush, dataPoll).  Of lines that fit   *)
(* into _btLine, which keeps 1023 bytes: of a longer one the end is lost.  *)
THEOREM LinesKept ==
  ASSUME Length <= LineCap
  PROVE  PartsSpec => []LinesAreKept
<1>1. LinesInit => LinesInv
  BY LinesStart
<1>2. LinesInv /\ [LinesNext]_lineVars => LinesInv'
  BY LinesStay
<1>3. LinesInv => LinesAreKept
  BY LinesShow DEF LinesAreKept
<1>4. QED
  BY <1>1, <1>2, <1>3, PartsAreLines, PTL DEF LinesSpec

LEMMA PartsAreTime == PartsSpec => TimeSpec
<1>1. PartsInit => TimeInit
  BY DEF PartsInit
<1>2. [PartsNext]_partVars => [TimeNext]_timeVars
  BY DEF PartsNext, partVars
<1>3. QED
  BY <1>1, <1>2, PTL DEF PartsSpec, TimeSpec

LEMMA PartsArePresses == PartsSpec => PressesSpec
<1>1. PartsInit => PressesInit
  BY DEF PartsInit
<1>2. [PartsNext]_partVars => [PressesNext]_pressVars
  BY DEF PartsNext, partVars
<1>3. QED
  BY <1>1, <1>2, PTL DEF PartsSpec, PressesSpec

(* The invariants of the parts type their variables; a picture has the     *)
(* fields of a picture after every frame.                                  *)
LEMMA ScreensShowTypes == ScreensInv => ScreensTypeOK
BY DEF ScreensInv, ScreensTyped, InputsTyped, ScreensTypeOK

LEMMA MenusShowTypes == MenusInv => MenusTypeOK
<1>1. ToSet(ResetItems) = ResetKinds
  <2>1. DOMAIN ResetItems = {1, 2, 3}
    BY DEF ResetItems
  <2>2. QED
    BY <2>1, ItemsAre DEF ToSet, ResetKinds
<1>2. \A S \in OpenSets : S \subseteq Panels
  BY DEF OpenSets, Panels
<1>3. QED
  BY <1>1, <1>2 DEF MenusInv, MenusTyped, MenusTypeOK

LEMMA SleepShowsTypes == SleepInv => SleepTypeOK
BY DEF SleepInv, SleepTyped, SleepTypeOK

LEMMA TimeShowsTypes == TimeInv => TimeTypeOK
BY WrapIsLong DEF TimeInv, TimeTyped, TimeTypeOK, Readings

LEMMA HeartShowsTypes == HeartInv => HeartbeatTypeOK
BY DEF HeartInv, HeartTyped, HeartbeatTypeOK

FieldsKept == DOMAIN canvas = DOMAIN Blank

LEMMA FaceStartsWithFields == FaceInit => FieldsKept
BY DEF FaceInit, FieldsKept

LEMMA FaceKeepsFields == FieldsKept /\ [FaceNext]_faceVars => FieldsKept'
<1> SUFFICES ASSUME FieldsKept, [FaceNext]_faceVars
             PROVE  FieldsKept'
  OBVIOUS
<1>1. DOMAIN Blank = {"by", "time", "date", "cards", "pet", "bars", "wave"} /\ Blank' = Blank
  BY DEF Blank, NoBars
<1>2. CASE FaceFrame
  BY <1>1, <1>2, FrameIs DEF FieldsKept
<1>3. CASE Leave
  BY <1>1, <1>3 DEF Leave, FieldsKept
<1>4. ASSUME NEW v, canvas' = canvas \/ canvas' = Blank
      PROVE  FieldsKept'
  BY <1>1, <1>4 DEF FieldsKept
<1>5. QED
  BY <1>2, <1>3, <1>4 DEF FaceNext, faceVars, SnapshotArrives, ClockRead, PetChanges, Turn

LEMMA FaceShowsTypes == FaceInv /\ FieldsKept => FaceTypeOK
<1> SUFFICES ASSUME FaceInv, FieldsKept
             PROVE  FaceTypeOK
  OBVIOUS
<1>1. faceCache.init \in BOOLEAN
  <2>1. \A c \in FullCaches : c.init = TRUE
    BY DEF FullCaches
  <2>2. NoFaceCache.init = FALSE
    BY DEF NoFaceCache
  <2>3. QED
    BY <2>1, <2>2 DEF FaceInv, FaceTyped
<1>2. DOMAIN meter = DOMAIN Hidden
  BY DEF FaceInv, FaceTyped, Hidden
<1>3. QED
  BY <1>1, <1>2 DEF FaceInv, FaceTyped, FieldsKept, FaceTypeOK, Moments

(* Every variable of every part has values of its kind.                    *)
THEOREM PartsTypes == PartsSpec => []PartsTypeOK
<1>1. ScreensSpec => []ScreensTypeOK
  BY ScreensStart, ScreensStay, ScreensShowTypes, PTL DEF ScreensSpec
<1>2. MenusSpec => []MenusTypeOK
  BY MenusHold, MenusShowTypes, PTL
<1>3. SleepSpec => []SleepTypeOK
  BY SleepHolds, SleepShowsTypes, PTL
<1>4. TimeSpec => []TimeTypeOK
  BY TimeStarts, TimeKept, TimeShowsTypes, PTL DEF TimeSpec
<1>5. FaceSpec => []FaceTypeOK
  BY FaceStarts, FaceStays, FaceStartsWithFields, FaceKeepsFields, FaceShowsTypes, PTL DEF FaceSpec
<1>6. HeartbeatSpec => []HeartbeatTypeOK
  BY HeartHolds, HeartShowsTypes, PTL
<1>7. StatsSpec => []StatsTypeOK
  BY StatsStart, StatsStay, StatsHold, PTL DEF StatsSpec
<1>8. LinesSpec => []LinesTypeOK
  BY LinesStart, LinesStay, LinesShow, PTL DEF LinesSpec
<1>9. DeviceTypeOK /\ ScreensTypeOK /\ MenusTypeOK /\ SleepTypeOK /\ TimeTypeOK /\ FaceTypeOK
        /\ HeartbeatTypeOK /\ StatsTypeOK /\ LinesTypeOK => PartsTypeOK
  BY DEF PartsTypeOK
<1>10. QED
  BY <1>1, <1>2, <1>3, <1>4, <1>5, <1>6, <1>7, <1>8, <1>9, PressesTyped, PartsArePresses,
     PartsAreScreens, PartsAreMenus, PartsAreSleep, PartsAreTime, PartsAreFace, PartsAreHeart,
     PartsAreStats, PartsAreLines, PTL
================================================================================
