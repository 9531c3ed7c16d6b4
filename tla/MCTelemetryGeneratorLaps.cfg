SPECIFICATION Spec
CONSTANTS
  Cars = 2
  LapLength = 6
  Stagger = 1
  Speeds <- MCSpeeds
  DrsBoost = 1
  MaxSpeed = 4
  PitSpeed = 1
  SIM_S_PER_TICK = 2
  TOTAL_LAPS = 2
  PIT_STOP_TICKS = 2
  FirstPitLap = 2
  MaxTicks = 7
CHECK_DEADLOCK FALSE
INVARIANTS
  RaceLapIsOneOfTheRace
