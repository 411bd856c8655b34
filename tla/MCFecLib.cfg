SPECIFICATION CodecSpec
CONSTANTS
  GfBits = 3
  Pp = {0, 1}
  Ks = {1}
  Ns = {2}
  Symbols = {{}, {0, 2}}
  Npar = 4
  Messages <- MCMessages
  Damage = {{}, {0}, {1, 2}}
  MaxDamage = 0
  GroupSize = 3
  Redundant = 2
  Band = 1
  WordBits = 15
  Factor = 1763689789
  Payloads <- OneGroup
INVARIANTS
  PayloadCheck
CHECK_DEADLOCK FALSE
