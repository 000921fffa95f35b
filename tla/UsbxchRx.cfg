SPECIFICATION FairSpec
CONSTANTS
  Capacity = 8
  MaxPacket = 3
  MaxBytes = 20
  MaxResets = 2
INVARIANTS
  IInv
  WindowIsFree
PROPERTIES
  ImplementsPipe
  ReceivedIsRead
CHECK_DEADLOCK FALSE
