SPECIFICATION Spec
CONSTANTS
  FecK = 2
  FecN = 4
  MaxGroups = 2
  MaxFaults = 3
  Garbage = Garbage
INVARIANTS
  DeliveredTrue
CHECK_DEADLOCK FALSE
