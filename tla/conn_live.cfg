SPECIFICATION FairSpec
CONSTANTS
  Threads = {t1, t2}
  Keeper = keeper
  PoolSize = 1
  Handles = {h1}
  Ops <- FileOps
  KeepLink = TRUE
  MaxFaults = 1
  None = none
PROPERTY LockReleased
