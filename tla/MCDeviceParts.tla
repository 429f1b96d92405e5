---------------------------- MODULE MCDeviceParts -----------------------------
(***************************************************************************)
(* Small instances of the parts of the device a user touches and sees: the *)
(* buttons and the prompt, the panels, what is painted, the turning of the *)
(* display, the clock faces, the pet's numbers and mood, and the lines of  *)
(* the host it all comes from.  None of these modules reads a variable of  *)
(* another: a behaviour moves one part, its scope, and leaves the others   *)
(* as they start.                                                          *)
(***************************************************************************)
EXTENDS MCDevice, DeviceScreens, DeviceMenus, DeviceOrientation,
        DeviceSleep, DeviceTime, ClockFace, Heartbeat, DeviceStats, PetMood, BleLines

VARIABLE scope

partVars == <<scope, pressVars, surfaceVars, menuVars, orientVars,
              sleepVars, timeVars, faceVars, heartVars, statsVars, moodVars, lineVars>>

Scopes == {"presses", "screens", "menus", "orientation", "sleep", "time", "face",
           "heartbeat", "stats", "mood", "lines"}

(* Three clocks that share parts of what is painted, one of them nearly    *)
(* the next minute; three snapshots with and without meters and counts.    *)
At(m, s, d) == [trusted |-> TRUE, hour |-> 9, minute |-> m, second |-> s, weekday |-> 1,
                month |-> 2, date |-> d]
SomeClocks == {At(1, 0, 1), At(2, 0, 17), At(2, 60, 17)}
Say(c, r, w, u, f, s) ==
  [connected |-> c, running |-> r, waiting |-> w, unread |-> u, five |-> f, seven |-> s]
SomeSnapshots == {Say(TRUE, 1, 0, Absent, 60, Absent), Say(TRUE, 1, 1, 1, 0, 30),
                  Say(FALSE, 0, 0, 0, 101, 100)}

(* The parts that may start in several ways start in one outside of their scope. *)
AtRest ==
  /\ scope = "menus" \/ wifi.provisioned
  /\ scope = "orientation" \/ lock = 0
  /\ scope = "sleep" \/ ~lying
  /\ scope = "face" \/ (clock = At(1, 0, 1) /\ persona = "idle")
  /\ scope = "heartbeat" \/ ready

PartsInit ==
  /\ scope \in Scopes
  /\ PressesInit /\ ScreensInit /\ MenusInit /\ OrientInit /\ SleepInit /\ TimeInit
  /\ FaceInit /\ HeartbeatInit /\ StatsInit /\ MoodInit /\ LinesInit
  /\ AtRest

PartsNext ==
  /\ UNCHANGED scope
  /\ \/ scope = "presses" /\ PressesNext
     \/ scope # "presses" /\ UNCHANGED pressVars
  /\ \/ scope = "screens" /\ ScreensNext
     \/ scope # "screens" /\ UNCHANGED surfaceVars
  /\ \/ scope = "menus" /\ MenusNext
     \/ scope # "menus" /\ UNCHANGED menuVars
  /\ \/ scope = "orientation" /\ OrientNext
     \/ scope # "orientation" /\ UNCHANGED orientVars
  /\ \/ scope = "sleep" /\ SleepNext
     \/ scope # "sleep" /\ UNCHANGED sleepVars
  /\ \/ scope = "time" /\ TimeNext
     \/ scope # "time" /\ UNCHANGED timeVars
  /\ \/ scope = "face" /\ FaceNext
     \/ scope # "face" /\ UNCHANGED faceVars
  /\ \/ scope = "heartbeat" /\ HeartbeatNext
     \/ scope # "heartbeat" /\ UNCHANGED heartVars
  /\ \/ scope = "stats" /\ StatsNext
     \/ scope # "stats" /\ UNCHANGED statsVars
  /\ \/ scope = "mood" /\ MoodNext
     \/ scope # "mood" /\ UNCHANGED moodVars
  /\ \/ scope = "lines" /\ LinesNext
     \/ scope # "lines" /\ UNCHANGED lineVars

PartsSpec == PartsInit /\ [][PartsNext]_partVars

--------------------------------------------------------------------------------
(* Every variable has values of its kind.                                  *)
PartsTypeOK ==
  /\ scope = "presses" => DeviceTypeOK
  /\ scope = "screens" => ScreensTypeOK
  /\ scope = "menus" => MenusTypeOK
  /\ scope = "sleep" => SleepTypeOK
  /\ scope = "time" => TimeTypeOK
  /\ scope = "face" => FaceTypeOK
  /\ scope = "heartbeat" => HeartbeatTypeOK
  /\ scope = "stats" => StatsTypeOK
  /\ scope = "lines" => LinesTypeOK

(* An approval is seen: painted in whatever pose and over whatever was     *)
(* there, gone when it is over, and lit unless the user put the display    *)
(* out while it was shown.                                                 *)
ApprovalIsSeen == PromptIsSeen /\ PromptIsLit

(* What is kept from frame to frame instead of being painted again is what *)
(* would be painted: the clock face and its meters, the graph of the       *)
(* heartbeat, the rotation of the surface.                                 *)
PicturesAreCurrent ==
  /\ scope = "face" => FaceIsCurrent /\ MeterIsCurrent /\ WaveIsSeamless
  /\ scope = "heartbeat" => HeartbeatIsCurrent /\ PulsesFade
  /\ scope = "orientation" => DrawnAsSettled

(* The pet keeps what it has eaten, and once, over restarts of both sides, *)
(* and feels what its ring and its clock stand for: the last answers, and  *)
(* the hours since the last nap.                                           *)
PetRemembers ==
  /\ scope = "stats" => NothingCreditedTwice /\ AtMostALevelLost /\ LevelFollowsTokens
  /\ scope = "mood" => MedianOfLast /\ EnergyDrains

(* No jumps: a surface turns only when it was asked to again and again,    *)
(* and a denial takes the mood down or leaves it.                          *)
StepByStep == TurnsSlowly /\ DenialNeverCheers

(* What the host says gets through: lines are lost where bytes are, parsed *)
(* once, and in order.                                                     *)
LinesAreKept == scope = "lines" => LossIsLocal /\ HeardWasSent
================================================================================
