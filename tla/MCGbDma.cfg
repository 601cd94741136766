SPECIFICATION FairSpec
CONSTANTS
  Banks = {0, 1}
  Offsets = {0, 1}
  Registers = {0, 1}
  Bytes = {1}
  DisabledWrites = FALSE
  UnsetClock = FALSE
  MaxAccesses = 2
INVARIANTS
  TypeOK
  TransfersHaveTargets
  ReadsAreServed
  WritesLand
PROPERTIES
  AccessesEnd
CHECK_DEADLOCK FALSE
