SPECIFICATION FairSpec
CONSTANTS
  ByteMod <- MCByteMod
  Crc8 <- MCCrc8
  Services = {1}
  Payloads <- MCPayloads
  Capacities = {2, 3}
  ReadMax = 8
  Shared = FALSE
  Drops = {"header"}
  MaxFrames = 2
INVARIANTS
  TypeOK
  DeliveredInOrder
  TooLongAreReported
PROPERTY AllDelivered
CHECK_DEADLOCK FALSE
