SPECIFICATION Spec
CONSTANTS
  PcMod = 16
  FlagMod = 16
  CountMod = 1
  B = 32
  WordMod = 512
  RegCount = 8
  LoopReg = 3
  SysReg = 4
  ImmSpan = 8
  InfoWord = 6
  MaxStall = 0
  Loc <- MCLoc
  Decode <- MCDecode
  Alu <- MCAlu
  FlagBits <- MCFlagBits
  Fpu <- MCFpu
  Addr <- MCAddr
  Map <- MCMap
  CpuInfo <- MCCpuInfo
  Images <- MCImages
  Entry <- MCEntry
  Garbage <- MCGarbage
  Handles <- MCHandles
  Chars <- MCChars
  Formats <- MCFormats
  StartSets <- MCStartSets
INVARIANT TypeOK
INVARIANT BranchPending
INVARIANT TrapPending
PROPERTY AlignmentPreserved
CHECK_DEADLOCK FALSE
