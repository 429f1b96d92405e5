----------------------------- MODULE DevicePresses -----------------------------
(***************************************************************************)
(* The device with a memory of what the press of A and the prompt of the   *)
(* moment have led to, for the properties about presses.                   *)
(***************************************************************************)
EXTENDS BuddyDevice

VARIABLES
  woke,     \* the current press of A, or the last one, woke the screen
  given,    \* the answers that press has given
  answered  \* the asks answered since the prompt or the question changed

historyVars == <<woke, given, answered>>
pressVars == <<deviceVars, historyVars>>

ButtonOf(answer) == IF answer \in {"deny", "reject"} THEN "B" ELSE "A"

PressesInit == DeviceInit /\ woke = FALSE /\ given = 0 /\ answered = {}

Given(event) ==
  (IF event = <<"A", "down">> THEN 0 ELSE given)
    + Cardinality({i \in DOMAIN Replies(event) : ButtonOf(Replies(event)[i].answer) = "A"})

Presses(event) ==
  /\ DeviceLoop(event)
  /\ given' = Given(event)
  /\ woke' = IF event = <<"A", "down">> THEN Dark ELSE woke
  /\ answered' = (IF Changed THEN {} ELSE answered)
                  \cup {Replies(event)[i].ask : i \in DOMAIN Replies(event)}

PressesNext ==
  \/ \E event \in ButtonEvents : Presses(event)
  \/ /\ UNCHANGED historyVars
     /\ \/ ScreenTimeout
        \/ \E payload \in Payloads : Receive(payload)
        \/ TakeAnswer \/ DeviceLinkUp \/ DeviceLinkDown

PressesSpec == PressesInit /\ [][PressesNext]_pressVars

--------------------------------------------------------------------------------
(* While the prompt and the question stay, an ask gets one answer: the     *)
(* release that ends a long press, the other button and a second press     *)
(* add nothing (main.cpp:2485-2489, 2623, 2681).                           *)
OneAnswerPerShowing ==
  [][Prompted => \A event \in ButtonEvents : \A i \in DOMAIN Replies(event) : Presses(event) =>
       /\ Changed \/ Replies(event)[i].ask \notin answered
       /\ \A j \in DOMAIN Replies(event) : Replies(event)[i] = Replies(event)[j] => i = j
    ]_pressVars

(* One press of A never gives two answers, even when the prompt changes    *)
(* under the finger: a long press that approved is over (main.cpp:2624).   *)
OneAnswerPerPressOfA == given <= 1

(* A press of A that woke the screen answers nothing, however long it is   *)
(* held and whatever arrives while it is held (main.cpp:2598-2601).        *)
WakingPressOfASwallowed == woke => given = 0

(* One press of A gives at most one answer, and none if it woke the screen. *)
PressOfAAnswersOnce == OneAnswerPerPressOfA /\ WakingPressOfASwallowed

(* A released and B pressed act on what the screen shows, not on the       *)
(* prompt a question hides (main.cpp:2682, 2733, 1874-1884).               *)
ShortPressAnswersShown ==
  [][Prompted => \A event \in ButtonEvents : \A i \in DOMAIN Replies(event) : Presses(event) =>
       (Replies(event)[i].answer # "always" => Replies(event)[i].ask = OnScreen)
    ]_pressVars

(* README.md:139 says that holding A on a question opens the menu; so no   *)
(* answer may go to a prompt that the question hides.                      *)
HoldAOnQuestionAnswersNothing ==
  [][Prompted => \A event \in ButtonEvents : \A i \in DOMAIN Replies(event) : Presses(event) =>
       (Replies(event)[i].answer = "always" => Replies(event)[i].ask = OnScreen)
    ]_pressVars
================================================================================
