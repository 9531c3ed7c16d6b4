SPECIFICATION Spec
CONSTANTS
  Workers = {w1}
  Drivers = 1
  Nobody = Nobody
  CheckPeriod = 1
  WeatherGap = 5
  Warnings = 1
  Pitting = {1}
  Offenders = {1}
  MaxTicks = 3
CHECK_DEADLOCK FALSE
INVARIANTS
  PenaltyServedInPits
