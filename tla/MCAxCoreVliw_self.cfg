SPECIFICATION Spec
CONSTANTS
  Half = 8
  ImmRadix = 8
  CountMod = 1
  RegCount = 4
  B = 16
  Loc <- MCLoc
  Decode <- ControlDecode
  Alu <- MCAlu
  Src2 <- MCSrc2
  Addr <- MCAddr
  Map <- MCMap
  Images <- LoopImages
  Entry <- LoopEntry
  Chars <- MCChars
  StartSets <- MCStartSets
PROPERTY JumpLands
CHECK_DEADLOCK FALSE
