SPECIFICATION MCFairSpec
CONSTANTS
  SeqMod = 8
  MaxPacketAge = 3
  MaxNackPackets = 2
  MaxNackRetries = 4
  DefaultRtt = 1
  MaxRtt = 3
  BlpBits = 1
  MaxNackItems = 1
  ProbeEvery = 1
  UpdateEvery = 2
  ProbeMod = 4
  FirstPacket = 1
  LastPacket = 1
  MaxDelay = 1
  MaxFaults = 3
  MaxInFlight = 4
  Carried = {"probe", "echo"}
INVARIANTS
  TypeOK
  ListBounded
  ListWindow
  MeasurementSound
PROPERTIES
  RetriesNeverReset
  LossesSettle
