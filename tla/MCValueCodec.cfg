SPECIFICATION Spec
CONSTANTS
  s1 = s1
  s2 = s2
  s3 = s3
  long = long
  empty = empty
  QNameID = {q1, q2}
  Str <- MCStr
  Length <- MCLength
  ValueMaxLength = 4
  INDEX_MAX = 9
  Capacity = 2
  EncHashTable = TRUE
  MaxInFlight = 2
  MaxLocalIds = 3
INVARIANTS
  TablesAgree
  ParserStoresOnce
PROPERTIES
  DeliversEveryValue
