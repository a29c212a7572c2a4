SPECIFICATION Spec
CONSTANTS
  AddrMod = 256
  WramBegin = 64
  Unit = 4
  Page = 4
  StackSize = 16
  Pointer = 2
  WordBytes = 2
  EntryLen = 4
  DefaultWram = 4
  Commands <- MCCommands
  BadArgs <- MCBadArgs
  Files <- MCFiles
  Mask <- MCMask
INVARIANT CommandHonoured
INVARIANT LayoutIntact
INVARIANT RefusedForCause
PROPERTY LoadEnds
CHECK_DEADLOCK FALSE
