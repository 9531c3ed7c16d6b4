SPECIFICATION Spec
CONSTANTS
  Workers = {w1, w2}
  Drivers = 2
  Nobody = Nobody
  CheckPeriod = 1
  WeatherGap = 1
  Warnings = 1
  Pitting = {}
  Offenders = {1}
  MaxTicks = 2
CHECK_DEADLOCK FALSE
SYMMETRY Symmetry
INVARIANTS
  SingleFlight
  CheckSeesOneTick
  WeatherChangesApart
  LineIsConsistent
  ShutdownInOrder
  LateEventsOfOneCheck
PROPERTIES
  SummaryIsFinal
