CONSTANTS
  Chars <- MixedText
  MaxColumn = 1
  MaxFlow = 2
  MaxQueue = 3
  Sloppy = FALSE
SPECIFICATION Spec
CHECK_DEADLOCK FALSE
INVARIANTS
  TypeOK
  KeysAnchored
  IndentsIncrease
  Balanced
