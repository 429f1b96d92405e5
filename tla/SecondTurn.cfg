CONSTANTS
  OpenSessions = {"s1"}
  DedupeLimit = 2
  SeqModulus = 8
  MaxTurns = 2
  MaxLines = 2
  MaxMishaps = 0
SPECIFICATION ChimeSpec
INVARIANT EveryTurnRings
CHECK_DEADLOCK FALSE
