SPECIFICATION FairSpec
CONSTANTS
  Starters = {s1}
  Joiner = joiner
  MaxStarts = 3
  Kinds <- EveryKind
  Kills = TRUE
  CanFail = TRUE
INVARIANT TypeOK
INVARIANT DeletedByTheLast
INVARIANT OneAtATime
INVARIANT EndedOnce
INVARIANT NoOldCancel
PROPERTY CancelEnds
PROPERTY JoinReturns
CHECK_DEADLOCK FALSE
