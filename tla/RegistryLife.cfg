SPECIFICATION FairSpec
CONSTANTS
  Users = {u1, u2}
  Worker = worker
  NoThread = none
  Nil = nil
  MaxCreates = 2
  MaxAppends = 2
  Limit = 1
  Full = 1
  Failing = {1}
INVARIANT TypeOK
INVARIANT DestroyedIsSaved
INVARIANT WorkerOnLive
INVARIANT FaultsNeedOverlap
PROPERTY WorkerDrains
PROPERTY CallsReturn
CHECK_DEADLOCK FALSE
