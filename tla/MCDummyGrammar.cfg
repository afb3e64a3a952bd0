SPECIFICATION Spec
CONSTANTS
  Schemas <- AnonymousInBase
  Parsed <- MCParsed
  Tree <- MCTree
  Refused <- MCRefused
  Lexicon <- MCLexicon
  WordBound = 5
CHECK_DEADLOCK FALSE
INVARIANT DummyGrammarsReplaced
