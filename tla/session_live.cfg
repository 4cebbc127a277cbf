SPECIFICATION Spec
CONSTANTS
  Requested = 2
  PoolMin = 1
  PoolMax = 16
  Addresses = 2
  ReconnectMax = 3
  BaseMs = 2
  CapMs = 3
  Ticks = {14}
  KeyTypes = {{k1}}
  NoKey = none
  MaxReconnects = 1
  MaxRekeys = 0
INVARIANTS SleepBounded
PROPERTIES ReconnectEnds ShutdownEnds
CHECK_DEADLOCK FALSE
