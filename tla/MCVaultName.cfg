SPECIFICATION Spec
CONSTANTS
  Seeds <- MCSeeds
  BadPins <- MCBadPins
  Pins = {"1234", "00000000"}
  SeedNameFits = FALSE
  CardFails = FALSE
  U8_MAX = 12
INVARIANT StoreSucceeds
CHECK_DEADLOCK FALSE
