SPECIFICATION FairSpec
CONSTANTS
  ver = ver
  ham = ham
  None = None
  Grid <- MCGrid
  LapTimes <- MCLapTimes
  Bound = 2
  MaxTicks = 2
CHECK_DEADLOCK FALSE
INVARIANTS
  SummaryCountsQueuedLaps
  SummaryAgreesWithBestLaps
PROPERTIES
  SummaryReached
