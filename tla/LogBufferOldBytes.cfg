SPECIFICATION Spec
CONSTANTS
  MaxLen = 12
  RecLens <- Extremes
  MaxWrites = 3
  MaxOpens = 2
  Nul = nul
  CR = cr
  Garbage = garbage
INVARIANT FlushedStaysFlushed
CHECK_DEADLOCK FALSE
