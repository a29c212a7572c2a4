SPECIFICATION Spec
CONSTANTS
  Half = 8
  ImmRadix = 8
  CountMod = 1
  RegCount = 4
  B = 16
  Loc <- MCLoc
  Decode <- ControlDecode
  Alu <- MCAlu
  Src2 <- MCSrc2
  Addr <- MCAddr
  Map <- MCMap
  Images <- MCImages
  Entry <- MCEntry
  Chars <- MCChars
  StartSets <- MCStartSets
INVARIANT TypeOK
INVARIANT TrapPending
PROPERTY AlignmentPreserved
CHECK_DEADLOCK FALSE
