CONSTANTS
  n1 = n1
  n2 = n2
  Networks = {n1, n2}
  NoNetwork = NoNetwork
  MaxFaults = 1
  MaxUpsets = 1
  FormNetworks = {n1}
  PollBytes = 2
  MaxRequestLine = 1
  MaxHeaderLine = 2
  MaxHeaderBytes = 9
  MaxHeaders = 2
  MaxBody = 2
  IdleTimeout = 1
  TotalTimeout = 2
  MaxFields = 4
  LastSession = 2
  Offers = 2
  Depth = 1
  MaxLosses = 1
  Direct = FALSE
  pa = pa
  pb = pb
  Packs = {pa, pb}
  NoPack = NoPack
  Sizes <- TwoSizes
  Flash = 5
  Headroom = 1
  MaxTrouble = 2
  MaxText = 5
  HintSizes <- SomeSizes
  HintCap = 12
  Hold = 1
  Step = 2
  s1 = s1
  s2 = s2
  OpenSessions = {s1, s2}
  DedupeLimit = 1
  SeqModulus = 2
  MaxTurns = 2
  MaxLines = 2
  MaxMishaps = 2
SPECIFICATION ServicesSpec
INVARIANTS
  ServicesTypeOK  PortalJudges PushIsTrue  ChimeIsTrue
PROPERTIES
  HintIsTold WhatBeginsEnds
CHECK_DEADLOCK FALSE
