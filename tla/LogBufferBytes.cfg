SPECIFICATION Spec
CONSTANTS
  MaxLen = 10
  RecLens <- ShortAndLong
  MaxWrites = 4
  MaxOpens = 3
  Nul = nul
  CR = cr
  Garbage = garbage
INVARIANT TypeOK
INVARIANT FirstByteSignalsData
INVARIANT ReaderSeesLive
INVARIANT ReaderMissesNothing
INVARIANT GarbageOnlyAtHeapOpen
PROPERTY ImplementsByteLog
CHECK_DEADLOCK FALSE
