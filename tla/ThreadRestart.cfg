SPECIFICATION Spec
CONSTANTS
  Starters = {s1}
  Joiner = joiner
  MaxStarts = 2
  Kinds <- EveryKind
  Kills = FALSE
  CanFail = FALSE
INVARIANT NoDetachUnderJoin
CHECK_DEADLOCK FALSE
