----------------------------- MODULE DeviceMenus -----------------------------
(***************************************************************************)
(* The panels of the device and what its two buttons do with them          *)
(* (main.cpp: applySetting, applyReset, applyWifiMenuAction, menuConfirm,  *)
(* the button handlers of loop(); settings_menu_logic.h).  Panels are      *)
(* flags of their own, so that which one a press is for is decided by the  *)
(* order a handler asks in.                                                *)
(***************************************************************************)
EXTENDS Naturals, Sequences, SequencesExt

CONSTANT ResetWindow  \* ticks in which a second tap confirms

ASSUME MenusAssumption == ResetWindow \in Nat

VARIABLES
  mode,      \* displayMode
  open,      \* the panels whose flag is set
  sel,       \* menuSel, wifiMenuSel or resetSel of the panel on top
  settingsSel,
  asking,    \* inPrompt, and whether it is a question
  update,    \* the OTA transaction as the user interface sees it
  wifi,      \* provisioned, and whether the portal is up
  armed,     \* resetConfirmIdx
  armedFor,  \* ticks to resetConfirmUntil
  wiped,     \* what a reset erased before its restart
  taps       \* history: presses of B on an item of the reset panel, since
             \* anything else, with the ticks since

menuVars == <<mode, open, sel, settingsSel, asking, update, wifi, armed, armedFor, wiped, taps>>

Modes == {"normal", "pet", "info"}
NextMode == CASE mode = "normal" -> "pet" [] mode = "pet" -> "info" [] mode = "info" -> "normal"
Panels == {"receive", "wifiStatus", "wifiMenu", "reset", "settings", "menu"}

MenuItems == <<"settings", "turn off", "help", "about", "demo", "close">>
SettingsItems == <<"brightness", "sound", "bluetooth", "wifi", "led", "clock rot", "pet",
                   "auto ota", "ota update", "reset", "back">>
WifiItems == IF wifi.provisioned THEN <<"status", "change", "forget", "back">> ELSE <<"setup", "back">>
ResetItems == <<"delete char", "factory reset", "back">>

(* Which panel is drawn, and which each press is for. *)
DrawOrder == <<"receive", "wifiStatus", "wifiMenu", "reset", "settings", "menu">>
\* For comparison: the settings asked before the reset panel that lies on them.
SettingsFirst == <<"receive", "settings", "reset", "wifiMenu", "wifiStatus", "menu">>
ShortAOrder == <<"receive", "reset", "wifiMenu", "wifiStatus", "settings", "menu">>
LongAOrder == <<"receive", "wifiStatus", "wifiMenu", "reset", "settings", "menu">>
BOrder == <<"receive", "wifiStatus", "wifiMenu", "reset", "settings", "menu">>

IsFirstOpen(order, i) == order[i] \in open /\ \A j \in 1..(i - 1) : order[j] \notin open
Top(order) == IF open = {} THEN "none" ELSE order[CHOOSE i \in DOMAIN order : IsFirstOpen(order, i)]

UpdateActive == update \in {"confirm", "running", "committed", "automatic"}
Compact == update = "automatic" /\ asking = "no"
Cancellable == update \in {"confirm", "running"}

Unarmed == "none"

(***************************************************************************)
(* The parts of the presses.                                               *)
(***************************************************************************)

CancelUpdate == update' = IF Cancellable THEN "none" ELSE update
Keep == UNCHANGED <<mode, asking, wiped>>

OpenSettings(panels) == open' = panels \cup {"settings"}

(* wifiStatus left, cancelling a portal that is up. *)
LeaveStatus ==
  /\ open' = (open \ {"wifiStatus"}) \cup {"wifiMenu"} /\ sel' = 0
  /\ wifi' = [wifi EXCEPT !.portal = FALSE]

(* The receive window: an update is cancelled, else the window is closed. *)
LeaveReceive ==
  IF UpdateActive THEN CancelUpdate /\ UNCHANGED open
  ELSE update' = "none" /\ OpenSettings(open \ {"receive"})

(* menuConfirm; turning off ends everything. *)
MenuConfirm(item) ==
  /\ item # "turn off"
  /\ open' = CASE item = "settings" -> (open \ {"menu"}) \cup {"settings"}
               [] item \in {"help", "about", "close"} -> open \ {"menu"}
               [] item = "demo" -> open
  /\ mode' = IF item \in {"help", "about"} THEN "info" ELSE mode
  /\ settingsSel' = IF item = "settings" THEN 0 ELSE settingsSel
  /\ UNCHANGED <<sel, asking, update, wifi, armed, armedFor, wiped, taps>>

(* applySetting; a value that is toggled is saved and opens nothing. *)
ApplySetting(item) ==
  /\ LET toWifi == item = "wifi" \/ (item = "ota update" /\ ~wifi.provisioned)
     IN  open' = IF toWifi THEN (open \ {"settings"}) \cup {"wifiMenu"}
                 ELSE CASE item = "ota update" -> (open \ {"settings"}) \cup {"receive"}
                        [] item = "reset" -> open \cup {"reset"}
                        [] item = "back" -> open \ {"settings"}
                        [] OTHER -> open
  /\ sel' = IF open' = open THEN sel ELSE 0
  /\ update' = IF "receive" \in open' \ open /\ update = "none" THEN "window" ELSE update
  /\ armed' = IF item = "reset" THEN Unarmed ELSE armed
  /\ Keep /\ UNCHANGED <<settingsSel, wifi, armedFor, taps>>

(* applyWifiMenuAction *)
ApplyWifiMenu(item) ==
  /\ open' = (open \ {"wifiMenu"}) \cup {IF item = "back" THEN "settings" ELSE "wifiStatus"}
  /\ wifi' = CASE item \in {"change", "setup"} -> [wifi EXCEPT !.portal = TRUE]
               [] item = "forget" -> [provisioned |-> FALSE, portal |-> FALSE]
               [] OTHER -> wifi
  /\ Keep /\ UNCHANGED <<sel, settingsSel, update, armed, armedFor, taps>>

(* applyReset: a second tap on the same item in time erases and restarts.  *)
Confirmed(item) == armed = item /\ armedFor > 0

ApplyReset(item) ==
  /\ CASE item = "back" -> open' = open \ {"reset"} /\ UNCHANGED <<armed, armedFor, wiped, taps>>
       [] item # "back" /\ ~Confirmed(item) ->
            /\ armed' = item /\ armedFor' = ResetWindow
            /\ taps' = <<[item |-> item, age |-> 0]>>
            /\ UNCHANGED <<open, wiped>>
       [] item # "back" /\ Confirmed(item) ->
            /\ wiped' = item /\ taps' = Append(taps, [item |-> item, age |-> 0])
            /\ UNCHANGED <<open, armed, armedFor>>
  /\ UNCHANGED <<mode, sel, settingsSel, asking, update, wifi>>

(***************************************************************************)
(* The presses, when no prompt has the buttons.                            *)
(***************************************************************************)

Pressable == asking = "no"
Items(panel) ==
  CASE panel = "menu" -> MenuItems [] panel = "settings" -> SettingsItems
    [] panel = "wifiMenu" -> WifiItems [] panel = "reset" -> ResetItems
    [] OTHER -> <<>>

(* A confirms an update, moves the selection or turns to the next screen. *)
ShortA ==
  /\ Pressable /\ ~Compact
  /\ LET top == Top(ShortAOrder)
         next(i) == (i + 1) % Len(Items(top))
     IN  /\ update' = IF top = "receive" /\ update = "confirm" THEN "running" ELSE update
         /\ sel' = IF top \in {"menu", "wifiMenu", "reset"} THEN next(sel) ELSE sel
         /\ settingsSel' = IF top = "settings" THEN next(settingsSel) ELSE settingsSel
         /\ armed' = IF top = "reset" THEN Unarmed ELSE armed
         /\ mode' = IF top = "none" THEN NextMode ELSE mode
  /\ taps' = <<>>
  /\ UNCHANGED <<open, asking, wifi, armedFor, wiped>>

(* Long A goes back: to the panel before, to the menu and out of it; it    *)
(* answers an approval, and a question lets it through to what is under it. *)
HoldA ==
  /\ asking # "approval"
  /\ LET top == Top(LongAOrder)
     IN  CASE Compact -> CancelUpdate /\ UNCHANGED <<open, sel, wifi>>
           [] ~Compact /\ top = "receive" -> LeaveReceive /\ UNCHANGED <<sel, wifi>>
           [] ~Compact /\ top = "wifiStatus" -> LeaveStatus /\ UNCHANGED update
           [] ~Compact /\ top = "wifiMenu" -> OpenSettings(open \ {"wifiMenu"}) /\ UNCHANGED <<sel, update, wifi>>
           [] ~Compact /\ top \in {"reset", "settings"} -> open' = open \ {top} /\ UNCHANGED <<sel, update, wifi>>
           [] ~Compact /\ top = "menu" -> open' = open \ {"menu"} /\ sel' = 0 /\ UNCHANGED <<update, wifi>>
           [] ~Compact /\ top = "none" -> open' = {"menu"} /\ sel' = 0 /\ UNCHANGED <<update, wifi>>
  /\ taps' = <<>>
  /\ Keep /\ UNCHANGED <<settingsSel, armed, armedFor>>

(* B chooses; a Wi-Fi item that is no longer there does nothing.  Without  *)
(* a panel it turns the page of the screen.                                *)
ClickB ==
  /\ Pressable /\ (Compact \/ open # {})
  /\ LET top == Top(BOrder)
     IN  CASE Compact -> CancelUpdate /\ Keep /\ UNCHANGED <<open, sel, settingsSel, wifi, armed, armedFor, taps>>
           [] ~Compact /\ top = "receive" ->
                LeaveReceive /\ Keep /\ UNCHANGED <<sel, settingsSel, wifi, armed, armedFor, taps>>
           [] ~Compact /\ top = "wifiStatus" ->
                LeaveStatus /\ Keep /\ UNCHANGED <<settingsSel, update, armed, armedFor, taps>>
           [] ~Compact /\ top = "wifiMenu" -> sel < Len(WifiItems) /\ ApplyWifiMenu(WifiItems[sel + 1])
           [] ~Compact /\ top = "reset" -> ApplyReset(ResetItems[sel + 1])
           [] ~Compact /\ top = "settings" -> ApplySetting(SettingsItems[settingsSel + 1])
           [] ~Compact /\ top = "menu" -> MenuConfirm(MenuItems[sel + 1])

(***************************************************************************)
(* What happens to the panels meanwhile.                                   *)
(***************************************************************************)

PromptComes ==
  /\ asking' \in {"approval", "question"}
  /\ open' = open \cap {"wifiMenu", "wifiStatus"}
  /\ update' = IF update = "committed" THEN update ELSE "none"
  /\ mode' = "normal" /\ taps' = <<>>
  /\ UNCHANGED <<sel, settingsSel, wifi, armed, armedFor, wiped>>

PromptGoes ==
  /\ asking # "no" /\ asking' = "no"
  /\ UNCHANGED <<mode, open, sel, settingsSel, update, wifi, armed, armedFor, wiped, taps>>

(* An offer is verified: an automatic one puts all panels away, another    *)
(* one brings its confirmation forward.                                    *)
OfferComes ==
  /\ ~UpdateActive
  /\ \/ update' = (IF asking = "no" THEN "automatic" ELSE update) /\ open' = {} /\ mode' = "normal"
     \/ asking = "no" /\ update' = "confirm" /\ open' = {"receive"}
        /\ mode' = IF "receive" \in open THEN mode ELSE "normal"
  /\ taps' = <<>>
  /\ UNCHANGED <<sel, settingsSel, asking, wifi, armed, armedFor, wiped>>

UpdateGoesOn ==
  /\ UpdateActive
  /\ update' \in IF update = "running" THEN {"committed", "none"} ELSE {"none"}
  /\ UNCHANGED <<mode, open, sel, settingsSel, asking, wifi, armed, armedFor, wiped, taps>>

(* The receive window is over. *)
ReceiveOver ==
  /\ "receive" \in open /\ ~UpdateActive
  /\ open' = open \ {"receive"} /\ update' = "none" /\ taps' = <<>>
  /\ Keep /\ UNCHANGED <<sel, settingsSel, wifi, armed, armedFor>>

(* The portal saved a network, or the saved one is lost. *)
WifiChanges ==
  /\ wifi' \in {[provisioned |-> TRUE, portal |-> FALSE]} \cup
               (IF wifi.portal THEN {} ELSE {[provisioned |-> FALSE, portal |-> FALSE]})
  /\ UNCHANGED <<mode, open, sel, settingsSel, asking, update, armed, armedFor, wiped, taps>>

ResetTick ==
  /\ armedFor > 0
  /\ armedFor' = armedFor - 1
  /\ taps' = [i \in DOMAIN taps |-> [taps[i] EXCEPT !.age = @ + 1]]
  /\ Keep /\ UNCHANGED <<open, sel, settingsSel, update, wifi, armed>>

(* The reset ends with a restart. *)
RestartAfterReset ==
  /\ wiped # "none" /\ wiped' = "none"
  /\ mode' = "normal" /\ open' = {} /\ sel' = 0 /\ settingsSel' = 0
  /\ asking' = "no" /\ update' = "none"
  /\ wifi' = [provisioned |-> wifi.provisioned /\ wiped # "factory reset", portal |-> FALSE]
  /\ armed' = Unarmed /\ armedFor' = 0 /\ taps' = <<>>

MenusInit ==
  /\ mode = "normal" /\ open = {} /\ sel = 0 /\ settingsSel = 0
  /\ asking = "no" /\ update = "none"
  /\ wifi \in [provisioned : BOOLEAN, portal : {FALSE}]
  /\ armed = Unarmed /\ armedFor = 0 /\ wiped = "none" /\ taps = <<>>

MenusNext ==
  \/ /\ wiped = "none"
     /\ \/ ShortA \/ HoldA \/ ClickB
        \/ PromptComes \/ PromptGoes \/ OfferComes \/ UpdateGoesOn \/ ReceiveOver
        \/ WifiChanges \/ ResetTick
  \/ RestartAfterReset

MenusSpec == MenusInit /\ [][MenusNext]_menuVars

MenusTypeOK ==
  /\ mode \in Modes /\ open \subseteq Panels
  /\ sel \in 0..5 /\ settingsSel \in 0..10
  /\ asking \in {"no", "approval", "question"}
  /\ update \in {"none", "window", "confirm", "running", "committed", "automatic"}
  /\ wifi \in [provisioned : BOOLEAN, portal : BOOLEAN]
  /\ armed \in ToSet(ResetItems) \cup {Unarmed} /\ armedFor \in 0..ResetWindow
  /\ wiped \in ToSet(ResetItems) \cup {"none"}

(* A press is for the panel that is drawn: the handlers, which ask for the *)
(* panels in orders of their own, agree with the screen in every           *)
(* combination of panels that can be open.                                 *)
DrawnIsHandled ==
  \A order \in {ShortAOrder, LongAOrder, BOrder} : Top(order) = Top(DrawOrder)

(* Nothing is erased but after two taps on its item, the second in time,   *)
(* with no other press, prompt or offer between them (applyReset).         *)
ErasedOnPurpose ==
  wiped # "none" =>
    /\ Len(taps) = 2 /\ \A i \in 1..2 : taps[i].item = wiped
    /\ taps[1].age < ResetWindow

(* While an update waits to be confirmed its panel is the one on top: A    *)
(* confirms what is shown.                                                 *)
ConfirmIsShown == update = "confirm" => Top(DrawOrder) = "receive"

(* The three of them: what a button does is what the screen says it does.  *)
PanelsObeyed == DrawnIsHandled /\ ErasedOnPurpose /\ ConfirmIsShown
==============================================================================
