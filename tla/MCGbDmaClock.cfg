SPECIFICATION Spec
CONSTANTS
  Banks = {0, 1}
  Offsets = {0, 1}
  Registers = {0}
  Bytes = {1}
  DisabledWrites = FALSE
  UnsetClock = TRUE
  MaxAccesses = 2
INVARIANTS
  TransfersHaveTargets
CHECK_DEADLOCK FALSE
