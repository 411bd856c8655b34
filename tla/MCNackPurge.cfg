SPECIFICATION Spec
CONSTANTS
  SeqMod = 8
  MaxPacketAge = 3
  MaxNackPackets = 2
  MaxNackRetries = 2
  DefaultRtt = 1
  MaxRtt = 2

PROPERTIES
  OnlyOldRemoved
