SPECIFICATION Spec
CHECK_DEADLOCK FALSE
CONSTANTS
  Names = {a, b}
  Tmp = tmp
  Conns = {c1, c2}
  MaxNew = 2
  MaxFaults = 3
  MaxForeign = 1
  None = None
SYMMETRY Symmetry
INVARIANTS TypeOK SuccessHolds NoBogusError RenameSafe
