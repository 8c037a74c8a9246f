CONSTANTS
  PerfSize = 10
  Elements = 8
  MatrixRows = 100
  MatrixNnz = 460
SPECIFICATION Spec
INVARIANTS CutFileAccepted EveryLineCounts PrintsWhatWasGiven NoLeak
