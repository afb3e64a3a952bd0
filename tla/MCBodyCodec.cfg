SPECIFICATION MCSpec
CONSTANTS
  ElemNames <- MCElemNames
  AttrNames <- MCAttrNames
  TypeNames <- MCTypeNames
  Namespaces <- MCNamespaces
  Values <- MCValues
  OptionSets <- MCOptionSets
  MaxDepth = 3
  MaxInFlight = 2
  MaxEvents = 5
INVARIANTS
  InStep
  LearnedOnce
  LearnedElementsHaveGrammars
  NamesStoredOnce
PROPERTIES
  DeliversEveryEvent
CHECK_DEADLOCK FALSE
