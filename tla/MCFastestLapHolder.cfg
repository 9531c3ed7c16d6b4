SPECIFICATION Spec
CONSTANTS
  Claimers = {t1, t2}
  Drivers = {d1, d2}
  NoDriver = NoDriver
  MaxTime = 3
  MaxClaims = 1
CHECK_DEADLOCK FALSE
INVARIANTS
  HolderSetTheTime
