SPECIFICATION MCSpec
CONSTANTS
  SeqSpace = 32
  MaxMediaPackets = 3
  MaxFecPackets = 2
  BigIds = {0, 4}
  MinMediaPackets = 2
  Params <- ParamsOf
  MaxQueue = 2
  RedBits = {1, 2}
  Starts <- StartsOf
  Modes <- Receiver85
  Handles = {1, 2}
  Chunks <- ChunksOf
  Junk = 9
  MaxSize = 3
  MaxUses = 4
  MaxWindow = 3
  Counts = {1, 2}
  MaxTime = 6
  MaxSamples = 3
INVARIANTS
  PayloadInserted
CHECK_DEADLOCK FALSE
