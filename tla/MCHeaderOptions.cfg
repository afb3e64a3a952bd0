SPECIFICATION Spec
CONSTANTS
  Inputs <- MCInputs
  INDEX_MAX = 20
  UIntRange = 8
  DefaultBlockSize = 5
  MaxOptionEvents = 60
INVARIANTS TypeOK EveryHeaderIsWritten HeaderIsReadThrough OptionsAgree SameSchema
CHECK_DEADLOCK FALSE
