CONSTANTS
  Supply <- Nesting
  MaxDepth = 2
  MaxInputs = 1
SPECIFICATION MCFairSpec
INVARIANTS
  IndentlessEntryMayBeEmpty
