CONSTANTS
  Sessions = {s1}
  Perms = {p1}
  Questions = {}
  SessionOf <- OneSession
  RequestOf <- OneRequest
  PartsOf <- OneRequestParts
  Options <- OneOption
  Scopes <- PermsOrQuestions
  c1 = c1
  c2 = c2
  None = None
  Legacy = {}
  Busy = {}
  MaxQueue = 1
  ButtonEvents <- TapsAndDeny
  MaxRx = 1
  MaxUp = 1
  MaxDrops = 0
  MaxCrashes = 0
SPECIFICATION SystemSpec
PROPERTY AnswerDecides
