CONSTANTS
  Offers = {o1}
  o1 = o1
  o2 = o2
  NoOffer = NoOffer
  ImageSize = 2
  ChunkSize = 2
  RestartTries = 1
  Timeout = 1
SPECIFICATION FairDeviceSpec
INVARIANT OtaTypeOK
INVARIANT SafeToCutPower
INVARIANT CancelHonoured
 
INVARIANT NoHandleLeak
INVARIANT OneDecision
INVARIANT ReasonReported
PROPERTY PendingDecided
PROPERTY UpdateEnds
