CONSTANTS
  Addr <- MCAddr
  Data <- MCData
  X = X
SPECIFICATION Spec
PROPERTY ReadsLastWrite
