CONSTANTS
  Kw <- TreeKw
  Section <- TreeSection
  Top = "top"
  Schema <- TreeSchema
  ItemOrder <- TreeOrder
  Base0 <- TreeBase
  Wild = Wild
  Converts = {"sub"}
  Shows = {"sub"}
  MaxLines = 6
  MaxUser = 0
  MaxParses = 1
SPECIFICATION PrSpec
INVARIANT NothingWild
