SPECIFICATION Spec
CONSTANTS
  Kinds = {"SE", "EE", "CHint", "CHstring"}
  BufLen = 4
  MaxPending = 4
INVARIANTS
  NeverStuck
  NothingSkipped
PROPERTIES
  DeliversOnce
