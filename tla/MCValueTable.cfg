SPECIFICATION MCSpec
CONSTANTS
  QNameID = {q1, q2}
  Str = {1, 2, 3, 4, 5}
  INDEX_MAX = 9
  Capacity = 3
  HashTable = TRUE
  hashfn <- MCHash
  primes <- MCPrimes
  MAX_HASH_TABLE_SIZE = 4
  INITIAL_HASH_TABLE_SIZE = 1
  MaxLocalIds = 5
INVARIANTS
  TypeOK
  SlotOrder
  UniqueValues
  HashMirrorsTable
  ValueToVx
  VxToValue
  ChainsHoldPairs
PROPERTIES
  LocalIdsPermanent
  ImplementsRecentValues
