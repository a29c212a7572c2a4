SPECIFICATION Spec
CONSTANTS
  CellBits = 4
  ImmBits = 3
  MoveixBits = 4
  IntBits = 6
  UpShift = 1
  And <- BitAnd
  Or <- BitOr
  Xor <- BitXor
  Mask <- BitAnd
  IO_BEGIN = 4
  RegionSize <- MCRegionSize
INVARIANT OperandReach
INVARIANT MoveReach
INVARIANT CompareOrders
INVARIANT FlatMemory
