CONSTANTS
  Sessions = {s1}
  Perms = {p1, p2, p3}
  Questions = {q1, q2}
  SessionOf <- OneSession
  RequestOf <- OneRequest
  PartsOf <- OneRequestParts
  Options <- OneOption
  Scopes <- LegacyAlone
  c1 = c1
  c2 = c2
  None = None
  Legacy = {p1}
  Busy = {}
  MaxQueue = 1
  ButtonEvents <- Taps
  MaxRx = 1
  MaxUp = 1
  MaxDrops = 0
  MaxCrashes = 0
SPECIFICATION SystemSpec
INVARIANT RepliesWerePressed
