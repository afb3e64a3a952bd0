SPECIFICATION Spec
CONSTANTS
  Kinds = {"SE", "EE", "ATstring", "CHlist"}
  BufLen = 10
  MaxPending = 3
INVARIANTS
  EffectsOnce
