CONSTANTS
  Chars <- ResetText
  MaxColumn = 1
  MaxFlow = 1
  MaxQueue = 3
  Sloppy = FALSE
  MaxInputs = 1
SPECIFICATION MCResetSpec
CHECK_DEADLOCK FALSE
INVARIANTS
  ResetForgetsStream
