SPECIFICATION Spec
CONSTANTS
  TempLen = 24
  HeaderCap = 8
  Reserve = 2
  BlockLen = 140
  Unit = 16
  FormatCap = 6
  Headers <- HeaderLengths
  Bodies <- LoggedBodies
  NoBody = nobody
  ErrorText <- ErrorBytes
  Message <- MessageBytes
  Nul = nul
  CR = cr
  Char <- Letters
  NL = nl
  HeaderByte = h
  Other = other
  Bulk <- FillingCalls
  MaxAny = 2
  MaxAppends = 8
INVARIANT TypeOK
INVARIANT TextAsAsked
INVARIANT LinesWhole
INVARIANT ReaderFindsLines
PROPERTY WholeLinesComeOut
CHECK_DEADLOCK FALSE
