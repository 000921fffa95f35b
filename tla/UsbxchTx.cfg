SPECIFICATION FairSpec
CONSTANTS
  Capacity = 8
  MaxPacket = 3
  MaxBytes = 20
  MaxResets = 1
  Prompt = FALSE
INVARIANTS
  IInv
  InFlightIntact
  BusyTracksTransfer
PROPERTIES
  ImplementsPipe
  PendingIsSent
CHECK_DEADLOCK FALSE
