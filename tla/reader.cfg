CONSTANTS
  BufSize = 4
  MinBuf = 3
  File <- AllFiles
SPECIFICATION FairSpec
INVARIANTS TypeOK BufferFits
PROPERTIES ImplementsLogical Terminates
