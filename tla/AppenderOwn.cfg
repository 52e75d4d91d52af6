SPECIFICATION FairSpec
CONSTANTS
  Clients = {c1}
  Owner = owner
  Worker = worker
  NoThread = none
  UseShareThread = FALSE
  BlockLen = 2
  MaxAppends = 3
  MaxOpens = 2
  LeftOver = {0}
  ClientOps = {"append", "append_fatal", "flush", "flush_sync"}
  OpenModes = {"async"}
  CanCrash = FALSE
  CanFail = FALSE
  Nul = nul
  Overflow = overflow
  Junk = junk
CHECK_DEADLOCK FALSE
INVARIANT TypeOK
INVARIANT OrderKept
INVARIANT NoNullFlush
INVARIANT NoFileLeftOpen
PROPERTY ReachesFile
PROPERTY CallsReturn
