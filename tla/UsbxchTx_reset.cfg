SPECIFICATION FairSpec
CONSTANTS
  Capacity = 4
  MaxPacket = 2
  MaxBytes = 6
  MaxResets = 2
  Prompt = FALSE
PROPERTY PendingIsSent
CHECK_DEADLOCK FALSE
