CONSTANTS
  BufSize = 5
  MinBuf = 3
  File <- DosFiles
SPECIFICATION Spec
PROPERTY ImplementsLogical
