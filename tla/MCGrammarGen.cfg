SPECIFICATION Spec
CONSTANTS
  Schemas <- MCSchemas
  Parsed <- MCParsed
  Tree <- MCTree
  Refused <- MCRefused
  Lexicon <- MCLexicon
  WordBound = 5
CHECK_DEADLOCK FALSE
INVARIANTS
  GrammarsAcceptTheirTypes
  DocumentStartsWithAnyGlobalElement
  StaticOptionsMatch
  RefusedForAReason
