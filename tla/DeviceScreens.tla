---------------------------- MODULE DeviceScreens ----------------------------
(***************************************************************************)
(* What the display of the device shows (the rendering half of loop() in   *)
(* main.cpp, screen_orient_logic.h, shared_clock_face_logic.h).  Portrait   *)
(* screens are painted over each other in a sprite that is pushed to the   *)
(* LCD; landscape ones are painted on the LCD itself.  Caches leave out    *)
(* what is believed to be there already.  A picture is the set of layers   *)
(* one could see in it; Frame is one pass of the rendering code, the other *)
(* actions are what happens in a loop before it, one thing a loop.         *)
(***************************************************************************)
CONSTANT Landscapes  \* the landscape rotations

ASSUME ScreensAssumption == Landscapes \cap {"unknown", "none", "portrait"} = {}

VARIABLES
  page,      \* displayMode is INFO or PET
  panel,     \* the panel that is open: any menu, a Wi-Fi one, or none
  prompt,    \* inPrompt
  special,   \* blePasskey, or a transfer that has the screen
  ota,       \* an automatic update is on its way
  compact,   \* otaCompactOverlay of the last frame
  busy, idleClock,  \* sessions are active; the clock may be shown otherwise
  dark,      \* napping or screenOff
  pose,      \* orientation of the clock's and of the runtime's surface
  before,    \* the previous... flags of loop()
  cache,     \* SharedClockFaceCache of each face: the rotation it was painted in
  overlay,   \* runtimeLandscapeRenderState, -PromptVisible, paintedRuntimeOrient
  sprite, lcd,  \* the pictures
  wanted,    \* layers the last frame was to show; none if it was to show nothing, or
             \* something changed since
  drawn      \* the last frame came after the last change

inputVars == <<page, panel, prompt, special, ota, busy, idleClock, dark>>
frameVars == <<pose, before, cache, overlay, lcd, compact>>
surfaceVars == <<inputVars, frameVars, sprite, wanted, drawn>>

Poses == {"unknown", "portrait"} \cup Landscapes
Layers == {"pet", "page", "panel", "prompt", "clock", "face", "passkey", "overlay"}
Faces == {"clock", "face"}

NoCache == "none"
NoOverlay == [init |-> FALSE, prompt |-> FALSE, turned |-> "portrait"]

(***************************************************************************)
(* Before a frame.                                                         *)
(***************************************************************************)

Change == drawn /\ drawn' = FALSE /\ wanted' = {} /\ UNCHANGED frameVars

(* invalidatePortraitSurface *)
Invalidate == sprite' = {}

(* A new prompt closes everything but the Wi-Fi screens, wakes the device  *)
(* and cancels an update that is not beyond cancelling.                    *)
PromptArrives ==
  /\ Change /\ prompt' = TRUE
  /\ page' = FALSE /\ panel' = IF panel = "wifi" THEN "wifi" ELSE "none"
  /\ dark' = FALSE /\ ota' \in {ota, FALSE}
  /\ Invalidate
  /\ UNCHANGED <<special, busy, idleClock>>

PromptEnds ==
  /\ Change /\ prompt /\ prompt' = FALSE
  /\ UNCHANGED <<page, panel, special, ota, busy, idleClock, dark, sprite>>

ButtonsFree == ~prompt /\ ~ota
\* A question lets a long press of A through to the panels.
LongAFree == prompt \/ ~ota

(* The menu opens over what is there; every other panel clears the sprite. *)
OpenPanel ==
  /\ Change /\ LongAFree
  /\ \/ panel = "none" /\ panel' = "menu" /\ UNCHANGED sprite
     \/ panel # "none" /\ panel' \in {"menu", "wifi"} /\ Invalidate
  /\ UNCHANGED <<page, prompt, special, ota, busy, idleClock, dark>>

(* Closed, for a page of the menu (menuConfirm) or for what was under it. *)
ClosePanel ==
  /\ Change /\ LongAFree /\ panel # "none" /\ panel' = "none"
  /\ page' \in {page, TRUE} /\ (prompt => page' = page)
  /\ Invalidate
  /\ UNCHANGED <<prompt, special, ota, busy, idleClock, dark>>

(* applyDisplayMode, and the other page of the pet. *)
TurnPage ==
  /\ Change /\ ButtonsFree /\ panel = "none"
  /\ page' \in BOOLEAN /\ (page \/ page') /\ Invalidate
  /\ UNCHANGED <<panel, prompt, special, ota, busy, idleClock, dark>>

(* A verified offer that waits for its confirmation brings its panel up. *)
ReceiveOpens ==
  /\ Change /\ ~ota
  /\ page' = FALSE /\ panel' = "menu" /\ Invalidate
  /\ UNCHANGED <<prompt, special, ota, busy, idleClock, dark>>

(* An automatic one puts every page and panel away. *)
AutomaticOta ==
  /\ Change /\ ~ota /\ ota' = TRUE
  /\ page' = FALSE /\ panel' = "none" /\ dark' = FALSE
  /\ UNCHANGED <<prompt, special, busy, idleClock, sprite>>

OtaEnds ==
  /\ Change /\ ota /\ ota' = FALSE
  /\ UNCHANGED <<page, panel, prompt, special, busy, idleClock, dark, sprite>>

(* A passkey wakes the device. *)
SpecialChanges ==
  /\ Change
  /\ special' \in {"none", "passkey", "transfer"} \ {special}
  /\ dark' = (dark /\ special' # "passkey")
  /\ UNCHANGED <<page, panel, prompt, ota, busy, idleClock, sprite>>

SessionsChange ==
  /\ Change
  /\ \/ busy' = ~busy /\ UNCHANGED idleClock
     \/ idleClock' = ~idleClock /\ UNCHANGED busy
  /\ UNCHANGED <<page, panel, prompt, special, ota, dark, sprite>>

DarkChanges ==
  /\ Change /\ dark' = ~dark
  /\ UNCHANGED <<page, panel, prompt, special, ota, busy, idleClock, sprite>>

(***************************************************************************)
(* A frame.                                                                *)
(***************************************************************************)

(* sharedClockFaceSelected *)
FaceSelected == ~page /\ panel = "none" /\ special = "none" /\ ~prompt
Clocking == ~busy /\ idleClock /\ FaceSelected
RuntimeFace == busy /\ FaceSelected
(* screenOrientRuntimeEligible *)
RuntimeOrienting == ~page /\ panel = "none" /\ (RuntimeFace \/ prompt)

(* A pose that has been known stays known. *)
PoseAfter(p, active) ==
  IF ~active THEN {p} ELSE IF p = "unknown" THEN Poses ELSE Poses \ {"unknown"}

Flags(c, r) ==
  [clock |-> Clocking, landClock |-> Clocking /\ c \in Landscapes,
   face |-> RuntimeFace, landRun |-> RuntimeOrienting /\ r \in Landscapes,
   prompt |-> prompt]

Awaiting(c, r) == (Clocking /\ c = "unknown") \/ (RuntimeOrienting /\ r = "unknown")

(* What the comparisons with the previous flags reset before painting.  b  *)
(* and f are the flags of the last frame and of this one.                  *)
ClockSwitch(b, f) == f.clock # b.clock \/ f.landClock # b.landClock
PromptExited(b, f) == b.prompt /\ ~f.prompt
OverlayLost == compact /\ ~(ota /\ ~prompt)

StandbyReset(b, f) ==
  OverlayLost \/ (ClockSwitch(b, f) /\ (~f.landClock \/ ~b.landClock))
\* For comparison: the face's cache kept when another face comes on.
RuntimeResetOnTurn(b, f) == OverlayLost \/ f.landRun # b.landRun
RuntimeReset(b, f) == OverlayLost \/ f.face # b.face \/ f.landRun # b.landRun
OverlayReset(b, f) == (b.landRun /\ ~f.landRun) \/ PromptExited(b, f)
SpriteCleared(b, f) ==
  \/ OverlayLost
  \/ ClockSwitch(b, f) /\ ~(f.clock /\ ~f.landClock)
  \/ b.face /\ ~f.face
  \/ b.landRun /\ ~f.landRun
  \/ PromptExited(b, f) /\ ~f.landRun

CacheReset(b, f) ==
  [clock |-> IF StandbyReset(b, f) THEN NoCache ELSE cache.clock,
   face |-> IF RuntimeReset(b, f) THEN NoCache ELSE cache.face]
OverlayAfterReset(b, f) ==
  IF PromptExited(b, f) THEN NoOverlay
  ELSE IF OverlayReset(b, f) THEN [overlay EXCEPT !.init = FALSE, !.prompt = FALSE]
  ELSE overlay

CompactLayer == IF ota /\ ~prompt THEN {"overlay"} ELSE {}

(* drawSharedClockFaceTo: a first entry or another orientation clears the  *)
(* surface and paints everything, else only what changed is painted.       *)
FaceOn(picture, face, cached, turned) ==
  IF cached # turned THEN {face} ELSE picture

(* The pet is painted into the sprite by its own clock. *)
PetTicks(f, c, r) ==
  /\ ~dark /\ (~Awaiting(c, r) \/ prompt)
  /\ ~f.clock /\ ~f.landRun
  /\ ~(RuntimeOrienting /\ r = "portrait")

(* The screens of the sprite that are no face; a passkey fills it. *)
SpriteScreen(s) ==
  (IF special = "passkey" THEN {"passkey"} ELSE s \cup (IF page THEN {"page"} ELSE {}))
     \cup (IF panel # "none" THEN {"panel"} ELSE {}) \cup CompactLayer

HomeWanted ==
  (IF special = "passkey" THEN {"passkey"} ELSE {"pet"} \cup (IF page THEN {"page"} ELSE {}))
     \cup (IF panel # "none" THEN {"panel"} ELSE {}) \cup CompactLayer

(* drawRuntimeLandscape with a prompt: everything when it is new or turned *)
(* (runtimeLandscapeSchedule), else the seconds it waits.                  *)
LandscapePrompt(o, turned) ==
  IF o.turned # turned \/ ~o.prompt \/ ~o.init
  THEN {"pet", "prompt"} ELSE lcd \cup {"prompt"}

(* The sprite when this frame begins to paint. *)
FrameSprite(f, c, r) ==
  LET cleared == IF SpriteCleared(before, f) THEN {} ELSE sprite
  IN  IF PetTicks(f, c, r) THEN cleared \cup {"pet"} ELSE cleared

(* The screen a frame paints, an approval before everything else. *)
FrameScreen(f, c, r) ==
  IF Awaiting(c, r) /\ ~prompt THEN "nothing"
  ELSE IF f.landRun /\ ~dark THEN IF prompt THEN "landscapePrompt" ELSE "landscapeFace"
  ELSE IF prompt THEN "prompt"
  ELSE IF f.landClock THEN "landscapeClock"
  ELSE IF dark THEN "nothing"
  ELSE IF f.clock THEN "clock" ELSE IF f.face THEN "face" ELSE "home"

(* A screen is painted over what the caches k and the overlay o leave. *)
Paint(shown, s, k, o, c, r) ==
  /\ sprite' =
       CASE shown = "prompt" -> s \cup {"prompt"}
         [] shown = "clock" -> FaceOn(s, "clock", k.clock, "portrait") \cup CompactLayer
         [] shown = "face" -> FaceOn(s, "face", k.face, "portrait") \cup CompactLayer
         [] shown = "home" -> SpriteScreen(s)
         [] OTHER -> s
  /\ lcd' =
       CASE shown = "landscapePrompt" -> LandscapePrompt(o, r)
         [] shown = "landscapeFace" -> FaceOn(lcd, "face", k.face, r) \cup CompactLayer
         [] shown = "landscapeClock" -> FaceOn(lcd, "clock", k.clock, c) \cup CompactLayer
         [] shown = "nothing" -> lcd
         [] OTHER -> sprite'
  /\ cache' =
       [clock |-> CASE shown = "clock" -> "portrait"
                    [] shown = "landscapeClock" -> c [] OTHER -> k.clock,
        face |-> CASE shown = "face" -> "portrait"
                   [] shown = "landscapeFace" -> r [] OTHER -> k.face]
  /\ overlay' = IF shown = "landscapePrompt"
                THEN [init |-> TRUE, prompt |-> TRUE, turned |-> r] ELSE o
  /\ wanted' =
       CASE shown \in {"landscapePrompt", "prompt"} -> {"prompt"}
         [] shown \in {"landscapeFace", "face"} -> {"face"} \cup CompactLayer
         [] shown \in {"landscapeClock", "clock"} -> {"clock"} \cup CompactLayer
         [] shown = "home" -> HomeWanted
         [] shown = "nothing" -> {}

Frame ==
  \E c \in PoseAfter(pose.clock, Clocking), r \in PoseAfter(pose.run, RuntimeOrienting) :
    /\ pose' = [clock |-> c, run |-> r]
    /\ before' = Flags(c, r)
    /\ \E shown \in {FrameScreen(before', c, r)}, s \in {FrameSprite(before', c, r)},
          k \in {CacheReset(before, before')}, o \in {OverlayAfterReset(before, before')} :
         Paint(shown, s, k, o, c, r)
    /\ compact' = (ota /\ ~prompt)
    /\ drawn' = TRUE
    /\ UNCHANGED inputVars

ScreensInit ==
  /\ page = FALSE /\ panel = "none" /\ prompt = FALSE /\ special = "none"
  /\ ota = FALSE /\ compact = FALSE /\ busy = FALSE /\ idleClock = FALSE /\ dark = FALSE
  /\ pose = [clock |-> "unknown", run |-> "unknown"]
  /\ before = [clock |-> FALSE, landClock |-> FALSE, face |-> FALSE, landRun |-> FALSE,
               prompt |-> FALSE]
  /\ cache = [clock |-> NoCache, face |-> NoCache]
  /\ overlay = NoOverlay
  /\ sprite = {} /\ lcd = {} /\ wanted = {} /\ drawn = TRUE

ScreensNext ==
  \/ PromptArrives \/ PromptEnds
  \/ OpenPanel \/ ClosePanel \/ TurnPage \/ ReceiveOpens
  \/ AutomaticOta \/ OtaEnds
  \/ SpecialChanges \/ SessionsChange \/ DarkChanges
  \/ Frame

ScreensSpec == ScreensInit /\ [][ScreensNext]_surfaceVars

ScreensTypeOK ==
  /\ {page, prompt, ota, compact, busy, idleClock, dark, drawn} \subseteq BOOLEAN
  /\ panel \in {"none", "menu", "wifi"} /\ special \in {"none", "passkey", "transfer"}
  /\ {pose.clock, pose.run} \subseteq Poses
  /\ {cache.clock, cache.face} \subseteq {NoCache, "portrait"} \cup Landscapes
  /\ sprite \subseteq Layers /\ lcd \subseteq Layers /\ wanted \subseteq Layers

(* Whatever was on the screen, a frame with an approval shows it, even in  *)
(* the dark and before the pose of the device is known: nobody answers     *)
(* blind (screenOrientRenderSurface).                                      *)
PromptPainted == drawn /\ prompt => "prompt" \in lcd

(* The caches never keep a frame from being painted: all it is to show is  *)
(* on the LCD (the resets at main.cpp 2543-2549 and 2854-2911).            *)
FrameComplete == drawn => wanted \subseteq lcd

(* An approval that is over leaves the screen with the next frame that     *)
(* paints anything (runtimeNeedsFullRepaintOnPromptExit).                  *)
PromptLeaves == drawn /\ wanted # {} /\ ~prompt => "prompt" \notin lcd

(* No pixels of a panel or page remain when it was left, unless an         *)
(* automatic update closed it: that path (main.cpp 2496-2502) does not     *)
(* clear the sprite, and the compact overlay has the panel around it.      *)
PanelLeaves ==
  drawn /\ wanted # {} /\ ~prompt /\ ~compact =>
    lcd \cap {"panel", "page"} \subseteq wanted

(* An approval is seen, and nothing is in its place when it is over.       *)
PromptIsSeen == PromptPainted /\ FrameComplete /\ PromptLeaves /\ PanelLeaves
==============================================================================
