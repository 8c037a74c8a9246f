CONSTANTS
  Text <- OneLine
  MaxLines = 1
  Size = 8
  Lower <- Lowers
  Digit = {"1"}
  CmtMark = "#"
  SeMark <- Slash
SPECIFICATION Spec
INVARIANT ValueIsThere
