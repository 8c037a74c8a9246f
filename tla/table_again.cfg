CONSTANTS
  Type <- Types
  NoType = NoType
  TSize <- Sizes
  Chunk = 2
  IdxMax = 6
  Junk = Junk
  Value = {7, 70, 71}
  Cols = 2
  ColType <- Columns
  Tok <- Tokens
  Reads <- Readings
  Bad = Bad
  Line <- Lines
  Reused = TRUE
  MaxTables = 2
SPECIFICATION Spec
INVARIANTS NotStale
