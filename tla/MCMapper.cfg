SPECIFICATION Spec
CONSTANTS
  Mappers <- AllMappers
  Writes <- MCWrites
  MaxWrites = 5
INVARIANTS
  TypeOK
  RomBankFollowsWrites
  AccessFollowsWrites
  RamBankFollowsWrites
  LatchesOncePerEdge
PROPERTIES
  WindowOpensOnSelection
CHECK_DEADLOCK FALSE
