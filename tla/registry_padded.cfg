CONSTANTS
  Name <- Padded
  Lower <- LowerPadded
  Trim <- TrimPadded
  MaxSec = 1
  MaxReg = 2
  Grow = 2
SPECIFICATION Spec
INVARIANT CheckedKeysUnique
