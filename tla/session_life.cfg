SPECIFICATION Spec
CONSTANTS
  Requested = 2
  PoolMin = 1
  PoolMax = 16
  Addresses = 1
  ReconnectMax = 2
  BaseMs = 2
  CapMs = 3
  Ticks = {1}
  KeyTypes = {{k1, k2}, {k3}}
  NoKey = none
  MaxReconnects = 1
  MaxRekeys = 2
SYMMETRY Symmetry
INVARIANTS Ledger WholeOrDown NothingLeft PinnedKey
PROPERTIES FreedInOrder
CHECK_DEADLOCK FALSE
