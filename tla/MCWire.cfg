SPECIFICATION Spec
CONSTANTS
  Payload = Payload
  None = None
  PidSpace = 9
  BlpBits = 2
  MaxNackItems = 2
  Media = {1, 2, 3, 4, 5, 6, 7, 8, 9, 10, 11, 12, 13, 16, 17, 24, 47, 48}
  Important = {0, 1, 4, 20}
  Gaps = {0, 6, 33}
  Gapped = {2, 9, 17}
  NumberSpace = 16
  Types <- MCTypes
  Maps <- MCMaps
  Wires <- MCWires
  Values <- MCValues
  Capacity = 48
  MaxCalls = 3
INVARIANTS
  EveryPacketProtected
  BurstsRecoverable
  HeaderRoundTrip
  NumbersWrap
  RequestsExact
  ExtensionRoundTrip
  WireAgrees
  SizePredicted
  ReadersAgree
PROPERTIES
  ExtensionsKept
  ProtectionStable
CHECK_DEADLOCK FALSE
