SPECIFICATION TransportFairSpec
CONSTANTS
  SeqMod = 12
  MaxPacketAge = 5
  MaxNackPackets = 4
  MaxNackRetries = 5
  DefaultRtt = 1
  MaxRtt = 2
  BlpBits = 1
  MaxNackItems = 1
  ProbeEvery = 1
  UpdateEvery = 1
  ProbeMod = 1
  FirstPacket = 5
  LastPacket = 9
  MaxDelay = 1
  MaxFaults = 3
  MaxInFlight = 5
  Carried = {"data", "nack"}
PROPERTIES
  GapsRecovered
