SPECIFICATION Spec
CONSTANTS
  NCells = 1
  Kinds = {TRUE}
  SetTimes = {60}
  MaxWrites = 1
  MaxNow = 2
  MaxBoots = 2
  MaxFaults = 0
INVARIANTS
  SaveComesBackByTheClock
CHECK_DEADLOCK FALSE
