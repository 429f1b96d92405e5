CONSTANTS
  Sessions = {s1}
  Perms = {p1}
  Questions = {q1}
  SessionOf <- OneSession
  RequestOf <- OneRequest
  Options <- OneOption
  c1 = c1
  c2 = c2
  None = None
  ButtonEvents <- AllEvents
  MaxRx = 1
  MaxUp = 1
SPECIFICATION PressesSpec
PROPERTY HoldAOnQuestionAnswersNothing
