SPECIFICATION FairSpec
CONSTANTS
  Half = 8
  ImmRadix = 8
  CountMod = 1
  RegCount = 4
  B = 16
  Loc <- MCLoc
  Decode <- MixDecode
  Alu <- MCAlu
  Src2 <- MCSrc2
  Addr <- MCAddr
  Map <- MCMap
  Images <- MixImages
  Entry <- MixEntry
  Chars <- MCChars
  StartSets <- MCStartSets
PROPERTY ImplementsVliw
PROPERTY CallServed
CHECK_DEADLOCK FALSE
