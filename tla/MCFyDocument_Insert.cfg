SPECIFICATION Spec
CONSTANTS
  Nodes = {n1, n2, n3, n4, n5}
  NULL = NULL
  MaxScalars = 2
  MaxNamed = 3
  MaxCollections = 2
  MaxHeld = 3
  Texts = {"", "a"}
  Names = {"x"}
SYMMETRY PlaceSymmetry
INVARIANTS
  NoFunkinessOnRoot
CHECK_DEADLOCK FALSE
