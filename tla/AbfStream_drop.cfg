SPECIFICATION Spec
CONSTANTS
  ByteMod <- MCByteMod
  Crc8 <- MCCrc8
  Services = {1}
  Payloads <- MCFewPayloads
  Capacities = {2, 3}
  ReadMax = 8
  Shared = FALSE
  Drops = {"header", "payload"}
  MaxFrames = 3
INVARIANT LossIsLocal
CHECK_DEADLOCK FALSE
