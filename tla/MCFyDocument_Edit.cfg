SPECIFICATION Spec
CONSTANTS
  Nodes = {n1,n2,n3,n4,n5}
  NULL = NULL
  MaxScalars = 3
  MaxNamed = 2
  MaxCollections = 2
  MaxHeld = 2
  Texts = {"", "a"}
  Names = {"x"}
SYMMETRY PlaceSymmetry
INVARIANTS
  Tree
  AttachedIsLinked
  ParentsRight
  KeysUnique
  AnchorsLive
CHECK_DEADLOCK FALSE
