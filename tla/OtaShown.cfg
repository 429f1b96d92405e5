CONSTANTS
  Offers = {o1, o2}
  o1 = o1
  o2 = o2
  NoOffer = NoOffer
  ImageSize = 1
  ChunkSize = 1
  RestartTries = 0
  Timeout = 1
SPECIFICATION DeviceSpec
INVARIANT ShownIsInstalled
