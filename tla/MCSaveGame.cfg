SPECIFICATION Spec
CONSTANTS
  NCells = 2
  Kinds = {TRUE, FALSE}
  SetTimes = {0}
  MaxWrites = 2
  MaxNow = 2
  MaxBoots = 2
  MaxFaults = 1
INVARIANTS
  TypeOK
  SaveComesBack
  ClockContinues
CHECK_DEADLOCK FALSE
