SPECIFICATION Spec
CONSTANTS
  Threads = {t1, t2}
  Keeper = keeper
  PoolSize = 1
  Handles = {h1}
  Ops <- FileOps
  KeepLink = TRUE
  MaxFaults = 2
  None = none
INVARIANT OpsReturn
