------------------------------ MODULE BuddyDevice -------------------------------
(***************************************************************************)
(* The firmware's prompt loop (main.cpp loop(), data.h dataPoll()): the    *)
(* prompt and the question of the last snapshot, the two buttons, and the  *)
(* answers that leave over BLE.  One step is one iteration of loop().      *)
(***************************************************************************)
EXTENDS BuddyBase

CONSTANTS
  ButtonEvents, \* bound: the button edges that happen, NoEvent among them
  MaxRx,        \* bound: snapshots waiting in the receive ring
  MaxUp         \* bound: answers on their way when another one is given

ButtonPositions == {"up", "down", "held"}
NoEvent == <<"none", "none">>
Power == <<"power", "short">>
Events == {NoEvent, Power} \cup ({"A", "B"} \X ButtonPositions)

ASSUME DeviceAssumption ==
  /\ ButtonEvents \subseteq Events /\ NoEvent \in ButtonEvents
  /\ MaxRx \in Nat \ {0} /\ MaxUp \in Nat \ {0}

VARIABLES
  devPrompt,   \* tama.promptId
  devQuestion, \* tama.qId
  qSelected,   \* tama.qSelected, counted from 1
  sent,        \* responseSent
  screenOff,
  btnA, btnB,  \* the buttons: "up", "down", or "held" from 600 ms on
  longA,       \* btnALong
  longB,       \* btnBLong
  swallowA,    \* swallowBtnA
  swallowB,    \* swallowBtnB
  devLink,     \* bleConnected()
  rx,          \* snapshots in the receive ring
  upq          \* answers notified and not yet handled by the agent

buttonVars == <<btnA, btnB, longA, longB, swallowA, swallowB>>
screenVars == <<devPrompt, devQuestion, qSelected, sent, screenOff>>
deviceVars == <<screenVars, buttonVars, devLink, rx, upq>>

DeviceAnswers == [ask : Asks, answer : PermAnswers \cup QuestionAnswers]

DeviceTypeOK ==
  /\ devPrompt \in Perms \cup {None}
  /\ devQuestion \in Questions \cup {None}
  /\ qSelected \in DOMAIN Options
  /\ {sent, screenOff, longA, longB, swallowA, swallowB, devLink} \subseteq BOOLEAN
  /\ btnA \in ButtonPositions /\ btnB \in ButtonPositions
  /\ rx \in Seq(Payloads)
  /\ upq \in Seq(DeviceAnswers)
  /\ \A i \in DOMAIN upq : upq[i].answer \in Answers(upq[i].ask)

DeviceInit ==
  /\ devPrompt = None /\ devQuestion = None /\ qSelected = 1
  /\ sent = FALSE /\ screenOff = FALSE
  /\ btnA = "up" /\ btnB = "up"
  /\ longA = FALSE /\ longB = FALSE /\ swallowA = FALSE /\ swallowB = FALSE
  /\ devLink = FALSE
  /\ rx = <<>> /\ upq = <<>>

--------------------------------------------------------------------------------
(* dataPoll: every complete line of the ring is applied; only the last one *)
(* is seen by the rest of the iteration, but each change of the question   *)
(* on the way moves the selection back to the first option.                *)
LastOr(key, old) == IF rx = <<>> THEN old ELSE rx[Len(rx)][key]

NewPrompt == LastOr("prompt", devPrompt)
NewQuestion == LastOr("question", devQuestion)
SameQuestion == \A i \in DOMAIN rx : rx[i].question = devQuestion
Cursor == IF SameQuestion THEN qSelected ELSE 1

Changed == NewPrompt # devPrompt \/ NewQuestion # devQuestion
Prompted == NewPrompt # None \/ NewQuestion # None

(* inPrompt: a change of either id, or the end of both, forgets the answer *)
(* already given.                                                          *)
Answered == sent /\ Prompted /\ ~Changed
ForgetsAnswer == Prompted
InPrompt == Prompted /\ ~Answered

(* M5.update: one edge of one button per iteration.                        *)
Position(now, button, event) == IF event[1] = button THEN event[2] ELSE now

Possible(event) ==
  /\ event \in ButtonEvents
  /\ \A button \in {<<"A", btnA>>, <<"B", btnB>>} :
       event[1] = button[1] =>
         CASE event[2] = "down" -> button[2] = "up"
           [] event[2] = "held" -> button[2] = "down"
           [] event[2] = "up" -> button[2] # "up"

(* The screen when the buttons are looked at: an arriving prompt wakes it. *)
Dark == screenOff /\ ~(Changed /\ Prompted)

(* A button that wakes the screen marks its press as swallowed.            *)
SwallowA(a) == swallowA \/ (Dark /\ a # "up")
SwallowB(b) == swallowB \/ (Dark /\ b # "up")

LongA(a) == a = "held" /\ ~longA /\ ~SwallowA(a)
LongB(b) == b = "held" /\ ~longB /\ ~SwallowB(b) /\ InPrompt /\ NewQuestion # None
ReleaseAfterHold(event) == event = <<"A", "up">> /\ ~swallowA /\ InPrompt
ReleaseOfWake(event) == event = <<"A", "up">> /\ ~longA /\ InPrompt
ReleaseA(event) == event = <<"A", "up">> /\ ~longA /\ ~swallowA /\ InPrompt
PressB(event) == event = <<"B", "down">> /\ ~SwallowB("down") /\ InPrompt

Reply(ask, answer) == <<[ask |-> ask, answer |-> answer]>>

ConfirmPromptFirst ==
  IF NewPrompt # None THEN Reply(NewPrompt, "once") ELSE Reply(NewQuestion, Options[Cursor])
Confirm ==
  IF NewQuestion # None THEN Reply(NewQuestion, Options[Cursor]) ELSE Reply(NewPrompt, "once")

(* The answers of one iteration, in the order the code sends them.         *)
Replies(event) ==
  LET a == Position(btnA, "A", event)
      b == Position(btnB, "B", event)
  IN
  (IF LongA(a) /\ InPrompt /\ NewPrompt # None THEN Reply(NewPrompt, "always") ELSE <<>>) \o
  (IF LongB(b) THEN Reply(NewQuestion, "reject") ELSE <<>>) \o
  (IF ReleaseA(event) THEN Confirm ELSE <<>>) \o
  (IF PressB(event) /\ NewQuestion = None THEN Reply(NewPrompt, "deny") ELSE <<>>)

OptionBelow == Cursor + 1
NextOption == (Cursor % Len(Options)) + 1

DeviceLoop(event) ==
  LET a == Position(btnA, "A", event)
      b == Position(btnB, "B", event)
      replies == Replies(event)
      dark == Dark /\ a = "up" /\ b = "up"
  IN /\ Possible(event)
     /\ rx' = <<>>
     /\ devPrompt' = NewPrompt
     /\ devQuestion' = NewQuestion
     /\ qSelected' = IF PressB(event) /\ NewQuestion # None
                     THEN NextOption ELSE Cursor
     /\ sent' = (Answered \/ replies # <<>>)
     /\ screenOff' = IF event = Power THEN ~dark ELSE dark
     /\ btnA' = a /\ btnB' = b
     /\ longA' = (event # <<"A", "up">> /\ (longA \/ LongA(a)))
     /\ longB' = (event # <<"B", "up">> /\ (longB \/ LongB(b)))
     /\ swallowA' = (event # <<"A", "up">> /\ SwallowA(a))
     /\ swallowB' = (event # <<"B", "down">> /\ SwallowB(b))
     /\ replies # <<>> => Len(upq) < MaxUp
     /\ upq' = IF devLink THEN upq \o replies ELSE upq
     /\ UNCHANGED devLink

(* No prompt and 30 seconds without a button.                              *)
ScreenTimeout ==
  /\ ~InPrompt /\ rx = <<>> /\ btnA = "up" /\ btnB = "up"
  /\ ~screenOff
  /\ screenOff' = TRUE
  /\ UNCHANGED <<devPrompt, devQuestion, qSelected, sent, buttonVars, devLink, rx, upq>>

(* A snapshot line lands in the ring.                                      *)
Receive(payload) ==
  /\ Len(rx) < MaxRx
  /\ rx' = Append(rx, payload)
  /\ UNCHANGED <<screenVars, buttonVars, devLink, upq>>

TakeAnswer ==
  /\ upq # <<>>
  /\ upq' = Tail(upq)
  /\ UNCHANGED <<screenVars, buttonVars, devLink, rx>>

DeviceLinkUp ==
  /\ ~devLink
  /\ devLink' = TRUE
  /\ UNCHANGED <<screenVars, buttonVars, rx, upq>>

DeviceLinkDown ==
  /\ devLink
  /\ devLink' = FALSE
  /\ UNCHANGED <<screenVars, buttonVars, rx, upq>>

DeviceNext ==
  \/ \E event \in ButtonEvents : DeviceLoop(event)
  \/ ScreenTimeout
  \/ \E payload \in Payloads : Receive(payload)
  \/ TakeAnswer \/ DeviceLinkUp \/ DeviceLinkDown

DeviceSpec == DeviceInit /\ [][DeviceNext]_deviceVars

--------------------------------------------------------------------------------
(* drawApproval and drawLandscapeApproval: a question hides a prompt.      *)
OnScreen == IF NewQuestion # None THEN NewQuestion ELSE NewPrompt
================================================================================
