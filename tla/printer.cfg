CONSTANTS
  Kw <- TreeKw
  Section <- TreeSection
  Top = "top"
  Schema <- TreeSchema
  ItemOrder <- TreeOrder
  Base0 <- TreeBase
  Wild = Wild
  Converts = {"sub"}
  Shows = {"sub"}
  MaxLines = 8
  MaxUser = 0
  MaxParses = 2
SPECIFICATION PrSpec
INVARIANTS TypeOK MarksTellTruth DuplicateIsReal LastElementsShown BaseRestored
