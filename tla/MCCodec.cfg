SPECIFICATION CodecSpec
CONSTANTS
  GfBits = 3
  Pp = {0, 1}
  Ks = {1, 2, 3}
  Ns = {2, 8}
  Symbols = {{}, {0, 2}}
  Npar = 4
  Messages <- MCMessages
  Damage = {{}, {0}, {1, 2}}
  MaxDamage = 4
  GroupSize = 3
  Redundant = 3
  Band = 1
  WordBits = 15
  Factor = 1763689789
  Payloads <- TwoGroups
INVARIANTS
  FieldTables
  DecodeRecovers
  ErrorsCorrected
  PayloadDelivered
PROPERTIES
  DecodeReturns
CHECK_DEADLOCK FALSE
