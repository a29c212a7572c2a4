SPECIFICATION Spec
CONSTANTS
  Half = 8
  ImmRadix = 8
  CountMod = 1
  RegCount = 4
  B = 16
  Loc <- MCLoc
  Decode <- HostedDecode
  Alu <- MCAlu
  Src2 <- MCSrc2
  Addr <- MCAddr
  Map <- MCMap
  Images <- HostedImages
  Entry <- HostedEntry
  Chars <- MCChars
  StartSets <- MCStartSets
INVARIANT HostedExits
CHECK_DEADLOCK FALSE
