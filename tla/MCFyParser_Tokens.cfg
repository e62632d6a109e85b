CONSTANTS
  Supply <- BodyTokens
  MaxDepth = 3
  MaxInputs = 2
SPECIFICATION MCFairSpec
INVARIANTS
  TypeOK
  StackDiscipline
PROPERTIES
  JsonNoEmptyNodes
  WellNested
  StreamEnds
