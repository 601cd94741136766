SPECIFICATION FairSpec
CONSTANTS
  Banks = {0, 1}
  Offsets = {0, 1}
  Registers = {0}
  Bytes = {1}
  DisabledWrites = FALSE
  UnsetClock = TRUE
  MaxAccesses = 2
PROPERTIES
  AccessesEnd
CHECK_DEADLOCK FALSE
