SPECIFICATION MCSpec
CONSTANTS
  FecK = 2
  FecN = 4
  MaxGroups = 2
  MaxFaults = 2
  Garbage = Garbage
  SeqSpace = 32
  MaxPacketAge = 7
  MaxNackPackets = 4
  MaxNackRetries = 2
  FirstGroups = {0, 4}
  Columns = 5
  Window = 2
  Sleeps = {1, 3}
  PacketSizes = {1, 3}
  Height = 3
  MaxCaptured = 3
INVARIANTS
  AnyKSuffice
  OnceInOrder
  TrueUnlessLate
  StreamAccounted
  MonitorExact
CHECK_DEADLOCK FALSE
