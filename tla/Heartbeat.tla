------------------------------ MODULE Heartbeat ------------------------------
(***************************************************************************)
(* The heartbeat of the landscape face: how many tokens were used in each  *)
(* bin of the last twenty seconds, or in which of those seconds a session  *)
(* was active, scrolling out to the left (token_heartbeat_logic.h,         *)
(* landscape_dashboard_logic.h, drawLandscapeDashboardHeartbeat).  The     *)
(* host sends one picture now and then, the device ages it, and paints it  *)
(* again only when a token of the frame says it would look different.      *)
(***************************************************************************)
EXTENDS Integers, Sequences

CONSTANTS
  Pitch,    \* pixels a second is wide (..._HEARTBEAT_SAMPLE_PITCH); a step is a pixel
  Seconds,  \* seconds of the window
  Bins,     \* bins of the token samples in the window
  WrapMs      \* millis() wraps after this many steps

Window == Seconds * Pitch

ASSUME HeartbeatAssumption ==
  /\ {Pitch, Seconds, Bins, WrapMs} \subseteq Nat \ {0}
  /\ Window < WrapMs

VARIABLES
  nowMs,
  tokens,    \* TokenHeartbeatState
  activity,  \* hasActivity20, activity20 and -ReceivedAt
  link,      \* dataConnected()
  age,       \* how long ago each of the two really came
  ready,     \* landscapeHeartbeatSpriteReady
  last,      \* the statics of drawLandscapeDashboardHeartbeat
  strip,     \* what that part of the display shows
  painted    \* the last step was a frame

heartVars == <<nowMs, tokens, activity, link, age, ready, last, strip, painted>>

Bars == [1..Bins -> 0..1]
Masks == [1..Seconds -> BOOLEAN]
Flat == [i \in 1..Bins |-> 0]
Silent == [i \in 1..Seconds |-> FALSE]

Elapsed(at) == (nowMs - at) % WrapMs

(* A series whose first n entries have left the window at its left end.    *)
Shifted(series, n, empty) ==
  [i \in DOMAIN series |-> IF i + n \in DOMAIN series THEN series[i + n] ELSE empty]

(* tokenHeartbeatAgedIntensities *)
AgedIntensities ==
  IF ~tokens.valid \/ Elapsed(tokens.at) >= Window THEN Flat
  ELSE Shifted(tokens.intensities, (Elapsed(tokens.at) * Bins) \div Window, 0)

(* landscapeDashboardActivityMaskAt *)
ActivityMaskAt ==
  IF Elapsed(activity.at) >= Window THEN Silent
  ELSE Shifted(activity.mask, Elapsed(activity.at) \div Pitch, FALSE)

(* landscapeDashboardHeartbeatSource *)
Source == IF tokens.valid THEN "token" ELSE IF activity.has THEN "activity" ELSE "none"

(* The frame tokens: bins, or pixels, that have gone by.                   *)
FrameToken ==
  CASE Source = "token" ->
         IF Elapsed(tokens.at) >= Window THEN Bins ELSE (Elapsed(tokens.at) * Bins) \div Window
    [] Source = "activity" ->
         IF Elapsed(activity.at) >= Window THEN Window ELSE Elapsed(activity.at)
    [] OTHER -> 0

(* What the two curves are drawn from; a silent one is no curve at all.    *)
Curve ==
  CASE Source = "token" -> <<"token", AgedIntensities>>
    [] Source = "activity" /\ ActivityMaskAt # Silent ->
         <<"activity", ActivityMaskAt, FrameToken % Pitch>>
    [] OTHER -> <<"line">>

Key == [frame |-> FrameToken, activity |-> activity.at, token |-> tokens.at, source |-> Source]

(* A frame; a full repaint of the face forces it, on a display that was    *)
(* cleared.                                                                *)
Beat(force) ==
  /\ ready /\ (force \/ Key # last)
  /\ last' = Key /\ strip' = Curve

DrawHeartbeat ==
  /\ ~painted /\ painted' = TRUE
  /\ \E force \in BOOLEAN :
       \/ Beat(force)
       \/ /\ ~ready \/ (~force /\ Key = last)
          /\ strip' = (IF force THEN <<"blank">> ELSE strip) /\ UNCHANGED last
  /\ UNCHANGED <<nowMs, tokens, activity, link, age, ready>>

(***************************************************************************)
(* The poll of the next loop, in which any number of lines may arrive.     *)
(***************************************************************************)

Aged(n) == IF n < WrapMs THEN n + 1 ELSE n

(* Without the host every poll forgets the activity, and not the tokens.   *)
PollStarts ==
  /\ painted /\ painted' = FALSE
  /\ nowMs' = (nowMs + 1) % WrapMs
  /\ age' = [token |-> IF tokens.valid THEN Aged(age.token) ELSE 0,
             activity |-> IF activity.has THEN Aged(age.activity) ELSE 0]
  /\ activity' = IF link THEN activity ELSE [activity EXCEPT !.at = nowMs']
  /\ UNCHANGED <<tokens, link, ready, last, strip>>

(* token20v1 in a snapshot: one that does not decode leaves what there is. *)
TokensArrive ==
  /\ ~painted /\ link' = TRUE
  /\ \E s \in Bars : tokens' = [valid |-> TRUE, intensities |-> s, at |-> nowMs]
  /\ age' = [age EXCEPT !.token = 0]
  /\ UNCHANGED <<nowMs, activity, ready, last, strip, painted>>

(* activity20 in a snapshot.                                               *)
ActivityArrives ==
  /\ ~painted /\ link' = TRUE
  /\ \E m \in Masks : activity' = [has |-> TRUE, mask |-> m, at |-> nowMs]
  /\ age' = [age EXCEPT !.activity = 0]
  /\ UNCHANGED <<nowMs, tokens, ready, last, strip, painted>>

(* Nothing was heard of the host for thirty seconds (dataPoll).            *)
HostSilent ==
  /\ ~painted /\ link /\ link' = FALSE
  /\ activity' = [has |-> FALSE, mask |-> Silent, at |-> nowMs]
  /\ age' = [age EXCEPT !.activity = 0]
  /\ UNCHANGED <<nowMs, tokens, ready, last, strip, painted>>

HeartbeatInit ==
  /\ nowMs = 0 /\ link = FALSE
  /\ tokens = [valid |-> FALSE, intensities |-> Flat, at |-> 0]
  /\ activity = [has |-> FALSE, mask |-> Silent, at |-> 0]
  /\ age = [token |-> 0, activity |-> 0]
  /\ ready \in BOOLEAN
  /\ last = [frame |-> -1, activity |-> -1, token |-> -1, source |-> "none"]
  /\ strip = <<"blank">> /\ painted = FALSE

HeartbeatNext == DrawHeartbeat \/ PollStarts \/ TokensArrive \/ ActivityArrives \/ HostSilent
HeartbeatSpec == HeartbeatInit /\ [][HeartbeatNext]_heartVars

HeartbeatTypeOK ==
  /\ nowMs \in 0..(WrapMs - 1) /\ {link, ready, painted} \subseteq BOOLEAN
  /\ tokens.intensities \in Bars /\ activity.mask \in Masks
  /\ {age.token, age.activity} \subseteq 0..WrapMs

(* A frame that is left out would have looked the same: the strip is the   *)
(* curve of the data aged to now, although only receipts and the token of  *)
(* the frame are compared.                                                 *)
HeartbeatIsCurrent == painted /\ ready => strip = Curve

(* Pulses that left the window are gone, also when the host is.  Only a    *)
(* picture that is older than the counter of milliseconds comes back.      *)
PulsesFade ==
  painted /\ ready =>
    /\ tokens.valid /\ age.token \in Window..(WrapMs - 1) => strip = <<"token", Flat>>
    /\ activity.has /\ ~tokens.valid /\ age.activity \in Window..(WrapMs - 1) => strip = <<"line">>
    /\ ~link /\ ~tokens.valid => strip = <<"line">>
==============================================================================
