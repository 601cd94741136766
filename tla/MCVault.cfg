SPECIFICATION Spec
CONSTANTS
  Seeds <- MCSeeds
  BadPins <- MCBadPins
  Pins = {"1234", "00000000"}
  SeedNameFits = TRUE
  CardFails = TRUE
  U8_MAX = 12
INVARIANTS
  TypeOK
  SecretsOnlyUnlocked
  CardHoldsLastStore
  GuessesAreSlow
CHECK_DEADLOCK FALSE
