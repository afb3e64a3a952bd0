SPECIFICATION Spec
CONSTANTS
  IntegerBits = 10
  ExponentBits = 6
  CodePointBits = 9
  INT_MIN <- MCIntMin
  Alignments = {"BIT_PACKED", "BYTE_ALIGNMENT"}
  SimpleTypes <- MCSimpleTypes
  IntegerValues <- MCIntegers
  Floats <- MCFloats
  Decimals <- MCDecimals
  DateTimes <- MCDateTimes
  Booleans = {TRUE, FALSE}
  Binaries <- MCBinaries
  Strings <- MCBinaries
INVARIANTS
  FieldsInStep
  TypedValuesArrive
CHECK_DEADLOCK FALSE
