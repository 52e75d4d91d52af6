SPECIFICATION Spec
CONSTANTS
  MaxLen = 8
  RecLens <- NearTheEnd
  MaxWrites = 2
  MaxOpens = 1
  Nul = nul
  CR = cr
  Garbage = garbage
INVARIANT ReaderSeesNoDirt
CHECK_DEADLOCK FALSE
