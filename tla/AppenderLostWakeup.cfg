SPECIFICATION Spec
CONSTANTS
  Clients = {c1}
  Owner = owner
  Worker = worker
  NoThread = none
  UseShareThread = FALSE
  BlockLen = 3
  MaxAppends = 2
  MaxOpens = 1
  LeftOver = {0}
  ClientOps = {"append"}
  OpenModes = {"async"}
  CanCrash = FALSE
  CanFail = FALSE
  Nul = nul
  Overflow = overflow
  Junk = junk
INVARIANT FullBlockKeepsWorkerAwake
CHECK_DEADLOCK FALSE
