SPECIFICATION Spec
CONSTANTS
  NCells = 1
  Kinds = {TRUE}
  SetTimes = {}
  MaxWrites = 1
  MaxNow = 2
  MaxBoots = 2
  MaxFaults = 1
INVARIANTS
  SaveOutlivesBattery
CHECK_DEADLOCK FALSE
