----------------------------- MODULE DeviceSleep -----------------------------
(***************************************************************************)
(* When the display is lit (main.cpp: wake, the nap, the power key, the    *)
(* thirty seconds).  One step is one loop of the device, in the order of   *)
(* its code: what arrived, the buttons, the frame, the nap, the time out.  *)
(***************************************************************************)
EXTENDS Integers

CONSTANT ScreenOff  \* SCREEN_OFF_MS, in ticks

ASSUME SleepAssumption == ScreenOff \in Nat

VARIABLES
  napping, displayOff, dimmed,
  light,     \* the brightness: full, or the 8 percent of a nap
  lit,       \* compatSetDisplayEnabled
  faceDown,      \* faceDownFrames
  lying,     \* isFaceDown
  prompted,    \* inPrompt
  working,   \* an update or the setup portal is active, or USB power
  idleFor,   \* ticks since lastInteractMs
  putOut     \* history: the power key put the display out while asking

sleepVars == <<napping, displayOff, dimmed, light, lit, faceDown, lying, prompted, working, idleFor, putOut>>

(* wake *)
Woken(s) ==
  [nap |-> s.nap, off |-> FALSE, dim |-> FALSE, lit |-> s.lit \/ s.off,
   light |-> IF s.off \/ s.dim THEN "full" ELSE s.light, idle |-> 0]

(* A prompt that arrives and an update end a nap. *)
Roused(s) == Woken([s EXCEPT !.nap = FALSE])

(* The key at the side of the device. *)
PowerKey(s) ==
  IF working' = "update" \/ s.off THEN Woken(s) ELSE [s EXCEPT !.lit = FALSE, !.off = TRUE]

(* The count of frames on its face stands still while a prompt is shown. *)
CountDown ==
  IF prompted' \/ working' = "update" THEN faceDown
  ELSE IF lying THEN (IF faceDown < 20 THEN faceDown + 1 ELSE faceDown)
  ELSE (IF faceDown > -10 THEN faceDown - 1 ELSE faceDown)

Nap(s, count) ==
  IF ~s.nap /\ count >= 15 THEN [s EXCEPT !.nap = TRUE, !.light = "low", !.dim = TRUE]
  ELSE IF s.nap /\ count <= -8 THEN Woken([s EXCEPT !.nap = FALSE])
  ELSE s

TimeOut(s) ==
  IF ~s.off /\ ~prompted' /\ working' = "no" /\ s.idle > ScreenOff
  THEN [s EXCEPT !.lit = FALSE, !.off = TRUE] ELSE s

State == [nap |-> napping, off |-> displayOff, dim |-> dimmed, light |-> light, lit |-> lit, idle |-> idleFor]

(* One loop: a new prompt or none, and which button, if any. *)
SleepLoop(new, button) ==
  LET arrived == IF new THEN Roused(State) ELSE State
      updated == IF working' = "update" THEN Roused(arrived) ELSE arrived
      pressed == CASE button = "power" -> PowerKey(updated)
                   [] button = "press" -> Woken(updated)
                   [] button = "none" -> updated
      end == TimeOut(Nap(pressed, CountDown))
  IN  /\ faceDown' = CountDown
      /\ napping' = end.nap /\ displayOff' = end.off /\ dimmed' = end.dim
      /\ light' = end.light /\ lit' = end.lit /\ idleFor' = end.idle
      /\ putOut' = (prompted' /\ (button = "power" \/ (putOut /\ ~new)))
      /\ UNCHANGED lying

Loop ==
  \E new \in BOOLEAN, button \in {"none", "press", "power"} :
    /\ prompted' \in (IF new THEN {TRUE} ELSE {prompted, FALSE})
    /\ working' \in {"no", "powered", "update"}
    /\ SleepLoop(new, button)

Turned ==
  /\ lying' = ~lying
  /\ UNCHANGED <<napping, displayOff, dimmed, light, lit, faceDown, prompted, working, idleFor, putOut>>

SleepTick ==
  /\ idleFor <= ScreenOff /\ idleFor' = idleFor + 1
  /\ UNCHANGED <<napping, displayOff, dimmed, light, lit, faceDown, lying, prompted, working, putOut>>

SleepInit ==
  /\ napping = FALSE /\ displayOff = FALSE /\ dimmed = FALSE /\ light = "full" /\ lit = TRUE
  /\ faceDown = 0 /\ lying \in BOOLEAN /\ prompted = FALSE /\ working = "no" /\ idleFor = 0
  /\ putOut = FALSE

SleepNext == Loop \/ Turned \/ SleepTick

SleepSpec == SleepInit /\ [][SleepNext]_sleepVars

SleepTypeOK ==
  /\ {napping, displayOff, dimmed, lit, lying, prompted, putOut} \subseteq BOOLEAN
  /\ light \in {"full", "low"} /\ faceDown \in -10..20
  /\ working \in {"no", "powered", "update"} /\ idleFor \in 0..(ScreenOff + 1)

(* The display is as the flags say: it is never left dim after a nap,      *)
(* whatever ended it, nor off when the device believes it is on.           *)
LightAsBelieved == lit = ~displayOff /\ (light = "low" => dimmed /\ napping)

(* A prompt is never in the dark unless the user put the display out while *)
(* it was there.                                                           *)
PromptLit == prompted /\ ~lit => putOut

(* A device that was picked up is awake after half a second, unless an     *)
(* approval or an update keeps it from looking.                            *)
PickedUpWakes == faceDown <= -8 => ~napping

(* The display is lit as the flags say, for an approval, and when the      *)
(* device is picked up.                                                    *)
PromptIsLit == LightAsBelieved /\ PromptLit /\ PickedUpWakes
==============================================================================
