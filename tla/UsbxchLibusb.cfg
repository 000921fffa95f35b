SPECIFICATION FairSpec
CONSTANTS
  MaxPacket = 2
  Transfer = 4
  RingSize = 3
  ReadMax = 2
  MaxBytes = 7
  MaxUnplugs = 2
  MaxErrors = 1
INVARIANTS
  IInv
  ThreadIsSound
  NothingRepeated
  ConnectedIsServed
  LostIsReported
PROPERTY Recovers
CHECK_DEADLOCK FALSE
