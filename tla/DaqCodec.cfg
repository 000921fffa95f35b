SPECIFICATION MCSpec
CONSTANTS
  Channels = 2
  Capacity = 64
  MarkCapacity = 8
  SyncPeriods = {1, 3}
  BufSize = 13
  BlockCapacity = 4
  Samples <- MCSamples
  MaxSamples = 8
INVARIANTS
  BlocksAreTrue
  BlocksInOrder
  ReserveSuffices
  BlocksFit
PROPERTIES
  EverythingArrives
  BackpressureEnds
CHECK_DEADLOCK FALSE
