SPECIFICATION Spec
CONSTANTS
  StaticNames = {e1, e2, local, attr}
  GlobalElements = {e1, e2}
  NewNames = {n1}
  StaticGrCount = 2
  GlobalGrammar <- MCGlobalGrammar
  Declared <- MCDeclared
  e1 = e1
  e2 = e2
  local = local
  attr = attr
  ArrayEntries = 2
  ChunkEntries = 1
  INDEX_MAX = 99
  MaxDepth = 3
INVARIANTS
  ElemGrammarValid
  OpenElementsHaveGrammars
  SchemaRestored
