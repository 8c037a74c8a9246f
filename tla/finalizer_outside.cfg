CONSTANTS
  Kw <- StrKw
  Section <- StrSection
  Top = "top"
  Schema <- StrSchema
  ItemOrder <- StrOrder
  Str = {"a", "b"}
  Inside = {"a"}
  Converts = {}
  MaxLines = 8
  MaxUser = 0
  MaxParses = 1
  MaxFinals = 1
SPECIFICATION FinSpec
INVARIANTS StaysInside
