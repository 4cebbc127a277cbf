SPECIFICATION Spec
CONSTANTS
  Threads = {t1, t2}
  Main = main
  Nobody = nobody
  Path = path
  Other = other
  Backups = {b1, b2}
  Linked = TRUE
  OutMax = 3
  MaxNoise = 1
  MaxOpens = 1
  MaxDrops = 1
INVARIANTS TypeOK OwnAnswer OthersKept DataNamed PathBack
CHECK_DEADLOCK FALSE
