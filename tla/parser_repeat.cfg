CONSTANTS
  Kw <- TreeKw
  Section <- TreeSection
  Top = "top"
  Schema <- TreeSchema
  Converts = {"sub"}
  MaxLines = 4
  MaxUser = 1
  MaxParses = 1
SPECIFICATION Spec
INVARIANT LastOneApplied
