SPECIFICATION Spec
CONSTANTS
  Mappers = {"Mbc5"}
  Writes <- RamWrites
  MaxWrites = 2
INVARIANTS
  RamBankOf128k
CHECK_DEADLOCK FALSE
