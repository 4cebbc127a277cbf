SPECIFICATION Spec
CHECK_DEADLOCK FALSE
CONSTANTS
  Modes = {{}, {"CREAT", "EXCL"}, {"CREAT", "TRUNC"}}
  MaxSize = 2
  MaxNodes = 2
  MaxFaults = 2
  MaxForeign = 1
INVARIANTS TypeOK AckedKept NoShrunkResume
PROPERTIES ReopenInert RefusedOnlyIfCut
