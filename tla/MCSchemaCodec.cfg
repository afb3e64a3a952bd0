SPECIFICATION MCSpec
CONSTANTS
  Schemas <- MCSchemas
  Elements <- MCElements
  Attributes <- MCAttributes
  TypeNames <- MCTypeNames
  Namespaces <- MCNamespaces
  Values <- MCValues
  OptionSets <- MCOptionSets
  ListLengths = {0, 2}
  MaxDepth = 3
  MaxInFlight = 2
  MaxEvents = 4
INVARIANTS
  InStep
PROPERTIES
  DeliversEveryEvent
CHECK_DEADLOCK FALSE
