SPECIFICATION FairSpec
CONSTANTS
  call1 = call1
  Slot <- OneCall
  QueueSize = 1
  MaxEpoch = 2
  MaxEvent = 2
  MaxIncident = 2
PROPERTIES
  RefreshIsFresh
  ScreenCatchesUp
