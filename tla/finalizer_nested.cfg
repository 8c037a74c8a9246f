CONSTANTS
  Kw <- DeepKw
  Section <- DeepSection
  Top = "top"
  Schema <- DeepSchema
  ItemOrder <- DeepOrder
  Str = {"a"}
  Inside <- DeepKw
  Converts = {}
  MaxLines = 6
  MaxUser = 0
  MaxParses = 1
  MaxFinals = 1
SPECIFICATION FinSpec
INVARIANTS NoDangling
