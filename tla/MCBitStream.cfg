SPECIFICATION Spec
CONSTANTS
  BufLen = 4
  Widths = {10, 18}
  StreamModes = {TRUE, FALSE}
  MaxBits = 48
INVARIANTS
  TypeOK
  NoBitLost
PROPERTIES
  ReadsWhatWasWritten
  EverythingIsRead
CHECK_DEADLOCK FALSE
