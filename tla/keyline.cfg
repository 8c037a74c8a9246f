CONSTANTS
  Text <- TwoLines
  MaxLines = 2
  Size = 8
  Lower <- Lowers
  Digit = {"1"}
  CmtMark = "#"
  SeMark <- Slash
SPECIFICATION Spec
INVARIANTS TrimExact LinesTold KeyAndValue WordsInOrder
