SPECIFICATION MCSpec
CONSTANTS
  Threads = {t1, t2}
  Paths = {p1}
  PoolSizes = {1, 3, 5}
  LongMax = 3
  MaxPicks = 18
  MaxExpiries = 2
  NoPath = none
  Blocks = {b1, b2, b3}
  Nil = nil
  Garbage = {nil, b1}
INVARIANTS PicksSpread OneEntry WalkExact
PROPERTY RegistryRefined
