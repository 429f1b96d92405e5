------------------------------ MODULE ClockFace ------------------------------
(***************************************************************************)
(* The face the display shows most of the time: clock, date, counts of the *)
(* sessions and the meter of the remaining usage (drawSharedClockFaceTo in *)
(* main.cpp, clock_display_logic.h, shared_clock_face_logic.h,             *)
(* usage_meter_logic.h).  A frame paints only what two caches say has      *)
(* changed.  The canvas is what is really there; DeviceScreens says which  *)
(* screen is shown and when the caches are reset.                          *)
(***************************************************************************)
EXTENDS Integers

CONSTANTS
  Clocks,     \* what the clock may read: [trusted, hour, minute, second, weekday, month, date]
  Snapshots,  \* what the host may say: [connected, running, waiting, unread, five, seven]
  Personas,   \* the states of the pet
  PetEvery,   \* SHARED_CLOCK_PET_FRAME_INTERVAL_MS, in steps of the wave
  Gaps        \* what a loop may take, in the same steps

VARIABLES
  now,      \* millis(), in steps of the wave, modulo one turn of the wave
  clock,    \* _clkTm and _clkDt
  tama,     \* TamaState as far as the face shows it
  persona, faceOrient,
  faceCache,    \* SharedClockFaceCache
  meter,    \* UsageMeterRenderState
  canvas,   \* the picture
  faceDrawn,    \* the last step was a frame
  jumped,   \* the clock was set since the time was painted last
  late      \* history: for how long the canvas has shown another state of the pet

faceVars == <<now, clock, tama, persona, faceOrient, faceCache, meter, canvas, faceDrawn, jumped, late>>

Absent == -1
Still == -1
Steps == 16  \* LANDSCAPE_USAGE_METER_ANIMATION_STEPS
Band == 4    \* LANDSCAPE_USAGE_METER_SCROLL_BAND

ASSUME FaceAssumption ==
  /\ Clocks \subseteq [trusted : BOOLEAN, hour : Int, minute : Int, second : Int, weekday : Int,
                      month : Int, date : Int]
  /\ Snapshots \subseteq [connected : BOOLEAN, running : Nat, waiting : Nat,
                         unread : Nat \cup {Absent}, five : Int, seven : Int]
  /\ PetEvery \in Nat \ {0} /\ Gaps \subseteq Nat
  /\ \A gap \in Gaps : PetEvery + gap < Steps \div 2

Landscape == faceOrient # 0
Width == IF Landscape THEN 240 ELSE 135
Height == IF Landscape THEN 135 ELSE 240

(***************************************************************************)
(* The meter.                                                              *)
(***************************************************************************)

(* usageMeterApply: a report that is not valid as a whole changes nothing. *)
UsageAfter(usage, report) ==
  IF report = [five |-> Absent, seven |-> Absent]
     \/ ~({report.five, report.seven} \subseteq {Absent} \cup 0..100)
  THEN usage ELSE report

FillWidth(full, percent) == (full * percent) \div 100

(* Bars by the row they start at, and some that are painted over others.   *)
NoBars == [y \in {} |-> {}]
Over(above, below) ==
  [y \in DOMAIN above \cup DOMAIN below |-> IF y \in DOMAIN above THEN above[y] ELSE below[y]]

Bar(full, percent, colour) ==
  [full |-> full, fill |-> FillWidth(full, percent), colour |-> colour]

(* usageMeterRenderPlan: bars 6 pixels high.                               *)
PortraitPlan(usage) ==
  LET usable == Width - 4
      five == Bar(usable, usage.five, "bright")
      seven == Bar(usable, usage.seven, "dim")
      last == Height - 8
  IN  IF usage.five # Absent /\ usage.seven # Absent
      THEN [y \in {last - 8, last} |-> IF y = last THEN seven ELSE five]
      ELSE IF usage.five # Absent THEN [y \in {last} |-> five]
      ELSE IF usage.seven # Absent THEN [y \in {last} |-> seven]
      ELSE NoBars

(* usageMeterLandscapeSinglePlan: one grid of dots, 29 columns of 8 pixels,*)
(* for the longer of the windows that are known.                           *)
LandscapePlan(usage) ==
  LET columns == (Width - 8 + 2) \div 8
      shown == IF usage.seven # Absent THEN usage.seven ELSE usage.five
  IN  IF shown = Absent THEN NoBars
      ELSE [y \in {Height - 26} |-> Bar(columns, shown, "bright")]

Plan(usage) == IF Landscape THEN LandscapePlan(usage) ELSE PortraitPlan(usage)

(* What the render state keeps of the usage: in landscape one window.      *)
Metered(usage) ==
  IF Landscape /\ usage.seven # Absent THEN [usage EXCEPT !.five = Absent] ELSE usage

(* The dots move while a session runs and there is a dot to move.          *)
Animated(usage) ==
  /\ Landscape /\ tama.running > 0
  /\ \E y \in DOMAIN Plan(usage) : Plan(usage)[y].fill > 0

Hidden == [five |-> Absent, seven |-> Absent, wave |-> Still]

(* usageMeterRenderTransition, and the frame it decides on.                *)
MeterFrame(state, usage, wave, force) ==
  LET visible == Plan(usage) # NoBars
      next == IF ~visible THEN Hidden
              ELSE [five |-> Metered(usage).five, seven |-> Metered(usage).seven,
                    wave |-> IF Animated(usage) THEN wave ELSE Still]
      wasVisible == state.five # Absent \/ state.seven # Absent
      layoutChanged == \/ (state.five = Absent) # (next.five = Absent)
                       \/ (state.seven = Absent) # (next.seven = Absent)
  IN  [state |-> next,
       draw |-> visible /\ (force \/ next # state),
       clear |-> wasVisible /\ layoutChanged]

(* usageMeterDiagonalBrightness, in percent.                               *)
Brightness(row, column, frame) ==
  LET phase == ((row + column) % Band) * (Steps \div Band)
      progress == (frame + Steps - phase) % Steps
  IN  IF progress = 0 THEN 100
      ELSE IF progress <= 7 THEN 100 - (32 * progress) \div 7
      ELSE IF progress = 15 THEN 75 ELSE 68

(***************************************************************************)
(* The text.                                                               *)
(***************************************************************************)

(* clockSharedFieldsValid *)
FieldsValid(c) ==
  /\ c.trusted
  /\ c.hour \in 0..23 /\ c.minute \in 0..59 /\ c.second \in 0..59
  /\ c.weekday \in 0..6 /\ c.month \in 1..12 /\ c.date \in 1..31

NoText == << >>  \* dashes
TimeText(c) == IF FieldsValid(c) THEN <<c.hour, c.minute, c.second>> ELSE NoText
DateText(c) ==
  IF ~FieldsValid(c) THEN NoText
  ELSE IF Landscape THEN <<c.month, c.date, c.weekday>> ELSE <<c.month, c.date>>

SecondKey(c) == IF FieldsValid(c) THEN c.second ELSE -1

(* clockSharedDateKey: three, four and five bits.                          *)
DateKey(c) ==
  LET Key(weekday, month, date) == (weekday % 8) * 512 + (month % 16) * 32 + (date % 32)
  IN  IF FieldsValid(c) THEN Key(c.weekday, c.month, c.date) ELSE Key(-1, -1, -1)

Counts(t) == [running |-> t.running, waiting |-> t.waiting,
              unread |-> IF t.unread = Absent THEN 0 ELSE t.unread]

(* landscapeDashboardStatus *)
Status(t) ==
  IF ~t.connected THEN "offline" ELSE IF t.waiting > 0 THEN "waiting"
  ELSE IF t.running > 0 THEN "running" ELSE "idle"

(* The layer of the pet: in landscape the status stands in its place.      *)
PetLayer == IF Landscape THEN Status(tama) ELSE persona

(***************************************************************************)
(* A frame.                                                                *)
(***************************************************************************)

NoFaceCache == [init |-> FALSE]
Blank == [by |-> -1, time |-> <<-1>>, date |-> <<-1>>, cards |-> <<-1>>,
          pet |-> "none", bars |-> NoBars, wave |-> Still]

(* sharedClockPetFrameDue: a signed difference of a counter that wraps.    *)
PetFrameDue(t, next) == (t - next) % Steps < Steps \div 2

CacheSays(key, value) == faceCache.init /\ faceCache[key] = value

\* For comparison: another persona is taken for a change of the pet only.
RepaintsOnTurn == ~CacheSays("orient", faceOrient)

(* sharedClockFaceFullRepaint *)
FullRepaint == ~(CacheSays("orient", faceOrient) /\ CacheSays("persona", persona))

(* A GIF that is opened for another state clears the sprite.               *)
Beneath == IF ~Landscape /\ ~CacheSays("persona", persona) THEN Blank ELSE canvas

FaceFrame ==
  \E gap \in Gaps :
    LET t == (now + gap) % Steps
        usage == [five |-> tama.five, seven |-> tama.seven]
        m == IF FullRepaint THEN MeterFrame(Hidden, usage, t, TRUE)
             ELSE MeterFrame(meter, usage, t, FALSE)
        under == IF FullRepaint THEN [Blank EXCEPT !.by = faceOrient] ELSE Beneath
        drawTime == FullRepaint \/ ~CacheSays("second", SecondKey(clock))
        drawDate == FullRepaint \/ ~CacheSays("date", DateKey(clock))
        drawStatus == Landscape /\ (FullRepaint \/ ~CacheSays("status", Counts(tama)))
        drawPet == FullRepaint \/ PetFrameDue(t, faceCache.nextPet)
        kept == IF m.clear THEN NoBars ELSE under.bars
    IN  /\ now' = t
        /\ canvas' =
             [by |-> under.by,
              time |-> IF drawTime THEN TimeText(clock) ELSE under.time,
              date |-> IF drawDate THEN DateText(clock) ELSE under.date,
              cards |-> IF drawStatus THEN Counts(tama) ELSE under.cards,
              pet |-> IF drawPet THEN PetLayer ELSE under.pet,
              bars |-> IF m.draw THEN Over(Plan(usage), kept) ELSE kept,
              wave |-> IF m.draw THEN m.state.wave ELSE under.wave]
        /\ meter' = m.state
        /\ faceCache' = [init |-> TRUE, orient |-> faceOrient, persona |-> persona,
                     second |-> SecondKey(clock), date |-> DateKey(clock),
                     status |-> Counts(tama),
                     nextPet |-> IF drawPet THEN (t + PetEvery) % Steps ELSE faceCache.nextPet]
        /\ faceDrawn' = TRUE /\ jumped' = (jumped /\ ~drawTime)
        /\ late' = IF canvas'.pet = PetLayer THEN 0 ELSE late + gap
        /\ UNCHANGED <<clock, tama, persona, faceOrient>>

(***************************************************************************)
(* Between frames, one thing at a time.                                    *)
(***************************************************************************)

Between == faceDrawn /\ faceDrawn' = FALSE /\ UNCHANGED <<now, late>>

(* A line of the host, or the end of its connection.                       *)
SnapshotArrives ==
  /\ Between
  /\ \E s \in Snapshots :
       LET usage == UsageAfter([five |-> tama.five, seven |-> tama.seven],
                               [five |-> s.five, seven |-> s.seven])
       IN  tama' = [s EXCEPT !.five = usage.five, !.seven = usage.seven,
                             !.unread = IF s.unread = Absent THEN tama.unread ELSE s.unread]
  /\ UNCHANGED <<clock, persona, faceOrient, faceCache, meter, canvas, jumped>>

(* clockRefreshRtc: a second later, or after a time sync any other time.   *)
ClockRead ==
  /\ Between
  /\ clock' \in Clocks
  /\ jumped' = (jumped \/ (SecondKey(clock') = SecondKey(clock) /\ clock' # clock))
  /\ UNCHANGED <<tama, persona, faceOrient, faceCache, meter, canvas>>

PetChanges ==
  /\ Between
  /\ persona' \in Personas
  /\ UNCHANGED <<clock, tama, faceOrient, faceCache, meter, canvas, jumped>>

(* Turned over in landscape; between portrait and landscape loop() resets  *)
(* both caches, and the other canvas holds whatever it held.               *)
Turn ==
  /\ Between
  /\ faceOrient' \in {0, 1, 3} \ {faceOrient}
  /\ IF faceOrient # 0 /\ faceOrient' # 0 THEN UNCHANGED <<faceCache, meter, canvas>>
     ELSE faceCache' = NoFaceCache /\ meter' = Hidden /\ canvas' = Blank
  /\ UNCHANGED <<clock, tama, persona, jumped>>

(* Another screen is shown for a while.                                    *)
Leave ==
  /\ Between
  /\ faceCache' = NoFaceCache /\ meter' = Hidden
  /\ canvas' = [Blank EXCEPT !.by = faceOrient]
  /\ UNCHANGED <<clock, tama, persona, faceOrient, jumped>>

QuietTama == [connected |-> FALSE, running |-> 0, waiting |-> 0, unread |-> Absent,
          five |-> Absent, seven |-> Absent]

FaceInit ==
  /\ now = 0 /\ clock \in Clocks /\ tama = QuietTama
  /\ persona \in Personas /\ faceOrient = 0
  /\ faceCache = NoFaceCache /\ meter = Hidden /\ canvas = Blank
  /\ faceDrawn = TRUE /\ jumped = FALSE /\ late = 0

FaceNext == FaceFrame \/ SnapshotArrives \/ ClockRead \/ PetChanges \/ Turn \/ Leave
FaceSpec == FaceInit /\ [][FaceNext]_faceVars

(***************************************************************************)
(* Correctness.                                                            *)
(***************************************************************************)

FaceTypeOK ==
  /\ now \in 0..(Steps - 1) /\ clock \in Clocks /\ persona \in Personas
  /\ faceOrient \in {0, 1, 3} /\ faceDrawn \in BOOLEAN /\ jumped \in BOOLEAN
  /\ DOMAIN meter = DOMAIN Hidden /\ DOMAIN canvas = DOMAIN Blank
  /\ faceCache.init \in BOOLEAN

Painted == faceDrawn /\ faceCache.init

(* What a frame leaves out is on the canvas already: time, date, counts    *)
(* are those of now, the minutes unless the clock was set to the same      *)
(* second of another minute (clockSharedFaceSchedule compares seconds), and *)
(* the pet, or the status in its place, is never another for an interval.  *)
FaceIsCurrent ==
  Painted =>
    /\ canvas.by = faceOrient
    /\ canvas.time = TimeText(clock) \/ jumped
    /\ canvas.date = DateText(clock)
    /\ Landscape => canvas.cards = Counts(tama)
    /\ late < PetEvery

(* The bars on the canvas are those of the windows the host reported, each *)
(* once, in their order, within a pixel of what remains, apart from each   *)
(* other and on the screen, and the dots are those of this moment          *)
(* (usageMeterRenderTransition decides without looking at the canvas).     *)
MeterIsCurrent ==
  Painted =>
    LET known == {w \in {"five", "seven"} : tama[w] # Absent}
        windows == IF Landscape /\ "seven" \in known THEN {"seven"} ELSE known
        high == IF Landscape THEN 22 ELSE 6
    IN  /\ \E row \in [windows -> DOMAIN canvas.bars] :
             /\ \A y \in DOMAIN canvas.bars : \E w \in windows : row[w] = y
             /\ \A w \in windows :
                  LET bar == canvas.bars[row[w]]
                  IN  /\ tama[w] * bar.full - bar.fill * 100 \in 0..99
                      /\ row[w] + high <= Height
             /\ windows = {"five", "seven"} => row["five"] + high < row["seven"]
        /\ canvas.wave = IF tama.running > 0 /\ Landscape
                            /\ \E y \in DOMAIN canvas.bars : canvas.bars[y].fill > 0
                         THEN now ELSE Still

(* The wave runs along the dots without a jump: a quarter of its period    *)
(* later every dot has the brightness its left neighbour had, over the end *)
(* of the period too (the comment in usageMeterDiagonalBrightness).        *)
WaveIsSeamless ==
  \A row \in 0..2, column \in 0..28, frame \in 0..(Steps - 1) :
    Brightness(row, column + 1, (frame + Steps \div Band) % Steps)
      = Brightness(row, column, frame)
==============================================================================
