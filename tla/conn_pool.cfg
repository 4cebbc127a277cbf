SPECIFICATION Spec
CONSTANTS
  Threads = {t1, t2}
  Keeper = keeper
  PoolSize = 2
  Handles = {h1}
  Ops <- AllOps
  KeepLink = FALSE
  MaxFaults = 2
  None = none
SYMMETRY Symmetry
INVARIANTS RetryRunsHealed PinOnlyInRetry LostReported
