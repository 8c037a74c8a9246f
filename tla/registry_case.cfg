CONSTANTS
  Name <- Plain
  Lower <- LowerPlain
  Trim <- TrimPlain
  MaxSec = 2
  MaxReg = 1
  Grow = 2
SPECIFICATION Spec
PROPERTY RegisteredSectionIsFound
