CONSTANTS
  Kw <- DeepKw
  Section <- DeepSection
  Top = "top"
  Schema <- NestSchema
  Converts = {}
  MaxLines = 8
  MaxUser = 0
  MaxParses = 1
SPECIFICATION Spec
INVARIANT DuplicateIsReal
