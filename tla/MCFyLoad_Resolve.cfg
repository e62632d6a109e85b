SPECIFICATION Spec
CONSTANTS
  WalkDepth = 16
  Fragments <- MCFragments
  Names = {"a", "b"}
  RootNames = {"b"}
  MaxItems = 3
  MaxBuilt = 1
  DepthLimit = 4
INVARIANTS
  NothingLeft
  WholeTree
  LookupsAgree
  ResolvedStays
  ResolveRight
  PathsLeadBack
  FollowAgrees
