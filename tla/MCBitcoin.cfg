SPECIFICATION Spec
CONSTANTS
  Txs <- MCTxs
  Amounts = {0, 3, 5}
  U64 = 8
  CAPACITY = 2
  MAX_SIGNED = 5
  MaxItems = 7
  ORDER = 5
  HARDENED = 2
  Lefts = {0, 1, 4}
  Texts <- MCTexts
  MaxQuestions = 4
  FULL = 3
  CHARS = 5
  Payloads <- MCPayloads
  Entropies <- MCEntropies
INVARIANTS
  TypeOK
  FeeIsInputsMinusOutputs
  PathsNameKeys
  ChildrenShareLineage
  Base58KeepsValue
  WordsSpellEntropy
CHECK_DEADLOCK FALSE
