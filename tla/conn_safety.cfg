SPECIFICATION Spec
CONSTANTS
  Threads = {t1, t2}
  Keeper = keeper
  PoolSize = 1
  Handles = {h1, h2}
  Ops <- AllOps
  KeepLink = TRUE
  MaxFaults = 2
  None = none
SYMMETRY Symmetry
INVARIANTS
  TypeOK RegistryExact NoDangling HandleAlive StaleExact IInv
PROPERTY FreshSessionKept
