SPECIFICATION Spec
CONSTANTS
  Ip = {i1, i2}
  Call = {c1, c2}
  MaxAttempts = 1
  BanAfter = 3
  Window = 3
  BanDuration = 4
  SweepEvery = 2
  Stall = 1
  MaxTime = 6
  MaxRecords = 7
SYMMETRY Symmetry
\* It stops only at the bounds MaxTime and MaxRecords.
CHECK_DEADLOCK FALSE
INVARIANTS
  TypeOK
  AllowedPerWindow
  BanServed
  AttemptsBounded
