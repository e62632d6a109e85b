SPECIFICATION Spec
CONSTANTS
  Modes <- AllLayouts
  StartMark = "AUTO"
  EndMark = "AUTO"
  IndentWidth = 2
  MaxDepth = 4
  MaxDocs = 2
  MaxStrays = 1
INVARIANTS
  Accepts
  Lookahead
  IndentsNest
  DocumentsSeparated
PROPERTY
  WritesWellNested
CHECK_DEADLOCK FALSE
