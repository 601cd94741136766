SPECIFICATION FairSpec
CONSTANTS
  Starts <- MCStarts
  BuiltTime <- MCBuiltTime
  Hashes = {"Valid", "Invalid", "NotConfigured"}
  PageRows = 2
  IdMod = 3
  MaxPresses = 2
  MaxFaults = 1
INVARIANTS
  TypeOK
  GameRunsWhole
PROPERTIES
  TimeComesBack
  RunningCodeIsStill
  MenuAnswers
CHECK_DEADLOCK FALSE
