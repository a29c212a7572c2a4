CONSTANTS
  RegCount = 4
  Accu = 2
  ISets = 2
  DSets = 4
  DZeroed = 2
  Ways = 2
  IWaySets = 1
  DWaySets = 1
  TagMod = 8
  TagGarbage = {2, 3}
  FlagGarbage = {0, 6}
  Programs <- MCPrograms
  MaxBandwidth = 2200
SPECIFICATION Spec
INVARIANTS TypeOK MissesExplained
PROPERTY NoEarlyRead
CHECK_DEADLOCK FALSE
