SPECIFICATION Spec
CONSTANTS
  WalkDepth = 16
  MaxParses = 2
  Paths <- MCPaths
  Again <- MCAgain
  Docs <- MCDocs
INVARIANTS
  OperandsKept
  ParsesRight
PROPERTY
  Finishes
