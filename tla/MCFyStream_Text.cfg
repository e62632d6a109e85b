CONSTANTS
  Chars <- Text
  MaxColumn = 2
  MaxFlow = 1
  MaxQueue = 3
  Sloppy = FALSE
  MaxInputs = 1
SPECIFICATION MCFairSpec
CHECK_DEADLOCK FALSE
INVARIANTS
  StacksAgree
  FlowDepth
  AheadWithinDocument
PROPERTIES
  StreamEndDelivered
  StreamEnds
