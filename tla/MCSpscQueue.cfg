SPECIFICATION FairSpec
CONSTANTS
  Capacity = 4
  Items = {f1, f2}
  NoItem = NoItem
  MaxItems = 6
INVARIANTS
  TypeOK
  NoDataRace
  FifoOrder
PROPERTIES
  RefusalIsJustified
  ImplementsChannel
  EverythingDelivered
