CONSTANTS
  Type <- Types
  TSize <- Sizes
  Chunk = 2
  IdxMax = 8
  NoType = NoType
  Junk = Junk
  Value = {10, 11}
SPECIFICATION Spec
INVARIANTS TypeOK BlockFits
PROPERTIES ImplementsList
