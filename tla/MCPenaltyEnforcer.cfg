SPECIFICATION FairSpec
CONSTANTS
  Workers = {w1, w2}
  Drivers = {d1, d2}
  NoDriver = NoDriver
  MaxEvents = 4
INVARIANTS
  WarningsCounted
  OnePenaltyForThreeWarnings
  AnnouncementsLeft
  SurePrefixProcessed
PROPERTIES
  PenaltyFollows
