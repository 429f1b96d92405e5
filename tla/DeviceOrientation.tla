-------------------------- MODULE DeviceOrientation --------------------------
(***************************************************************************)
(* Which way up a screen is drawn (clock_orient_logic.h): one sample of    *)
(* the accelerometer a frame, with hysteresis, so that a screen that is    *)
(* looked at does not flip back and forth.  A sample says how much of      *)
(* gravity lies along the long side of the device, and to which end.       *)
(***************************************************************************)
EXTENDS Integers

VARIABLES
  orient,    \* ClockOrientationState
  lock,      \* settings().clockRot: automatic, portrait or landscape
  eligible,  \* the surface is on the screen
  asked      \* history: samples that asked for another turn than the one it has,
             \* since the surface came on or went from upright to sideways or back

orientVars == <<orient, lock, eligible, asked>>

Orientations == {0, 1, 3}
Unsettled == 9
Locks == {0, 1, 2}
Samples == {[along |-> a, end |-> e] : a \in {"weak", "half", "most"}, e \in {1, 3}}
             \cup {[along |-> "across", end |-> 1], [along |-> "flat", end |-> 1]}

\* For comparison: the counter of sideways samples left as it was.
SettleSwaps(o) == [o EXCEPT !.swaps = 0]
Settle(o) == [o EXCEPT !.frames = 0, !.swaps = 0]

(* clockOrientRemember *)
Remember(o, turn) == [o EXCEPT !.turn = turn, !.stable = turn, !.resolved = TRUE]

(* clockOrientBeginAutoSurface *)
BeginSurface(o) ==
  [Settle(o) EXCEPT !.resolved = FALSE, !.turn = IF o.stable = Unsettled THEN o.turn ELSE o.stable]

(* clockOrientResolveInitialForStickS3 *)
Resolve(o, s) ==
  CASE lock = 1 -> Settle(Remember(o, 0))
    [] lock = 2 -> Settle(Remember(o, IF s.along \in {"half", "most"} \/ o.turn = 0 THEN s.end ELSE o.turn))
    [] lock = 0 /\ s.along = "most" -> Settle(Remember(o, s.end))
    [] lock = 0 /\ s.along = "across" -> Settle(Remember(o, 0))
    [] lock = 0 /\ s.along \notin {"most", "across"} /\ o.stable # Unsettled ->
         Settle([o EXCEPT !.turn = o.stable, !.resolved = TRUE])
    [] OTHER -> [o EXCEPT !.resolved = FALSE]

(* clockOrientUpdateStateForStickS3: the counter of sideways samples, then *)
(* what it has reached.                                                    *)
Sideways(o, s) == IF o.turn = 0 THEN s.along = "most" ELSE s.along \in {"weak", "half", "most"}
Counted(o, s) ==
  [o EXCEPT !.frames = IF Sideways(o, s) THEN (IF @ < 20 THEN @ + 1 ELSE @)
                       ELSE (IF @ > -10 THEN @ - 1 ELSE @)]

Swapped(c, s) ==
  IF s.end = c.turn THEN [c EXCEPT !.swaps = 0]
  ELSE IF c.swaps + 1 >= 8 THEN [Remember(c, s.end) EXCEPT !.swaps = 0]
  ELSE [c EXCEPT !.swaps = @ + 1]

Follow(o, s) ==
  LET c == Counted(o, s)
  IN  IF o.turn = 0 /\ c.frames >= 15 THEN Remember(c, s.end)
      ELSE IF o.turn # 0 /\ c.frames <= -8 THEN Remember(c, 0)
      ELSE IF o.turn # 0 /\ Sideways(o, s) THEN Swapped(c, s)
      ELSE c

Update(o, s) == IF ~o.resolved \/ lock # 0 THEN Resolve(o, s) ELSE Follow(o, s)

Upright(o) == o.turn = 0
AsksFor(o, s) == IF Upright(o) THEN Sideways(o, s) ELSE ~Sideways(o, s)

(* One frame: the surface is entered, or another mode of it, and sampled. *)
Sample ==
  \E on \in BOOLEAN, s \in Samples :
    LET entered == on /\ ~eligible
        o == IF entered THEN BeginSurface(orient) ELSE orient
    IN  /\ eligible' = on
        /\ orient' = IF on THEN Update(o, s) ELSE o
        /\ UNCHANGED lock
        /\ asked' = IF ~on \/ entered \/ ~orient.resolved \/ lock # 0 \/ Upright(orient') # Upright(orient)
                    THEN 0
                    ELSE IF AsksFor(orient, s) /\ asked < 15 THEN asked + 1 ELSE asked

(* The setting is behind a panel, which takes the surface off the screen. *)
SetLock == ~eligible /\ lock' = (lock + 1) % 3 /\ UNCHANGED <<orient, eligible, asked>>

OrientInit ==
  /\ orient = [turn |-> 0, stable |-> Unsettled, frames |-> 0, swaps |-> 0, resolved |-> FALSE]
  /\ lock \in Locks /\ eligible = FALSE /\ asked = 0

OrientNext == Sample \/ SetLock

OrientSpec == OrientInit /\ [][OrientNext]_orientVars

(* A surface that is on the screen and free to turn goes from upright to   *)
(* sideways only after 15 samples that ask for it, back only after 8,      *)
(* whatever comes between them and whatever the counters held at first.    *)
TurnsSlowly ==
  [][eligible /\ eligible' /\ orient.resolved /\ lock = 0 /\ Upright(orient') # Upright(orient)
       => asked >= (IF Upright(orient) THEN 14 ELSE 7)]_orientVars

(* A surface is drawn the way that was last settled on, and a locked one   *)
(* the way it was locked, from its first sample.                           *)
DrawnAsSettled ==
  /\ orient.resolved => orient.stable = orient.turn
  /\ orient.frames \in -10..20 /\ orient.swaps \in 0..7
==============================================================================
