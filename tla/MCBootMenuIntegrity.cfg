SPECIFICATION Spec
CONSTANTS
  Starts <- MCStarts
  BuiltTime <- MCBuiltTime
  Hashes = {"Valid", "Invalid", "NotConfigured"}
  PageRows = 2
  IdMod = 3
  MaxPresses = 2
  MaxFaults = 1
INVARIANT IntegrityGuardsWallet
CHECK_DEADLOCK FALSE
