CONSTANTS
  Sessions = {s1}
  Perms = {p1}
  Questions = {q1}
  SessionOf <- OneSession
  RequestOf <- OneRequest
  Options <- OneOption
  c1 = c1
  c2 = c2
  None = None
  ButtonEvents <- AllEvents
  MaxRx = 1
  MaxUp = 1
  Landscapes = {"left", "right"}
  ResetWindow = 2
  Clocks <- SomeClocks
  Snapshots <- SomeSnapshots
  Personas = {"idle", "busy"}
  PetEvery = 4
  Gaps = {2}
  Pitch = 2
  Seconds = 2
  Bins = 2
  WrapMs = 6
  ScreenOff = 1
  Wrap = 6
  MaxAge = 1
  HostFresh = 1
  Retry = 1
  PerLevel = 2
  Levels = 4
  MaxTokens = 9
  MaxPowerCuts = 2
  Slots = 2
  Times = {0, 20, 90}
  MaxAnswers = 3
  MaxHours = 12
  Length = 3
  Piece = 2
  RX_CAP = 4
  LineCap = 4
  MaxLines = 3
  MaxCuts = 2
SPECIFICATION PartsSpec
INVARIANTS
  PartsTypeOK PressOfAAnswersOnce
   PanelsObeyed  PicturesAreCurrent
  PetRemembers LinesAreKept
PROPERTIES
  OneAnswerPerShowing ShortPressAnswersShown 
CHECK_DEADLOCK FALSE
