CONSTANTS
  Name <- Plain
  Lower <- LowerPlain
  Trim <- TrimPlain
  MaxSec = 3
  MaxReg = 3
  Grow = 2
SPECIFICATION Spec
INVARIANTS TypeOK SortedSound OwnershipTree CapacityOK CheckedKeysUnique UnsortedIsUnchecked
PROPERTIES RegistrationsSurvive ImplementsStore
