SPECIFICATION Spec
CONSTANTS
  Clients = {c1, c2}
  Owner = owner
  Worker = worker
  NoThread = none
  UseShareThread = TRUE
  BlockLen = 3
  MaxAppends = 2
  MaxOpens = 2
  LeftOver = {0, 1}
  ClientOps = {"append", "flush_sync", "setmode"}
  OpenModes = {"async"}
  CanCrash = FALSE
  CanFail = FALSE
  Nul = nul
  Overflow = overflow
  Junk = junk
CHECK_DEADLOCK FALSE
SYMMETRY ClientSymmetry
INVARIANT Accounted
INVARIANT NoRecordTwice
INVARIANT CloseKeepsPromised
PROPERTY ImplementsDelivery
