SPECIFICATION FairSpec
CONSTANTS
  Pushers = {w1, w2, gen}
  Consumer = gen
  Sentinel = Sentinel
  Null = Null
  MaxPushes = 4
CHECK_DEADLOCK FALSE
INVARIANTS
  TypeOK
  NoUseAfterFree
  NoDataRace
  RealTimeOrder
  NoLeak
PROPERTIES
  ImplementsChannel
  EveryPushDelivered
