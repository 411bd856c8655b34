SPECIFICATION TransportSpec
CONSTANTS
  SeqMod = 28
  MaxPacketAge = 4
  MaxNackPackets = 3
  MaxNackRetries = 2
  DefaultRtt = 1
  MaxRtt = 1
  BlpBits = 1
  MaxNackItems = 1
  ProbeEvery = 1
  UpdateEvery = 1
  ProbeMod = 1
  FirstPacket = 25
  LastPacket = 30
  MaxDelay = 2
  MaxFaults = 2
  MaxInFlight = 5
  Carried = {"data", "nack"}
INVARIANTS
  LastSeqIsNewest
  NackedIsMissing
  RequestHitsLost
PROPERTIES
  ImplementsStreamDelivery
