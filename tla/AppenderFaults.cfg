SPECIFICATION Spec
CONSTANTS
  Clients = {c1}
  Owner = owner
  Worker = worker
  NoThread = none
  UseShareThread = TRUE
  BlockLen = 2
  MaxAppends = 2
  MaxOpens = 2
  LeftOver = {0, 1}
  ClientOps = {"append"}
  OpenModes = {"async", "sync"}
  CanCrash = TRUE
  CanFail = TRUE
  Nul = nul
  Overflow = overflow
  Junk = junk
INVARIANT Accounted
PROPERTY ImplementsDelivery
CHECK_DEADLOCK FALSE
