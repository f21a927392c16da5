SPECIFICATION MCSpec
CONSTANTS
  Key = {1, 2, 3, 4, 5}
  NoKey = NoKey
  Size = {2, 3}
  LeafCapacity = 6
  InternalCapacity = 2
  MaxPages = 11
  Start = {2}
  End = {4}
  MaxChanges = 1
INVARIANTS LeavesChained
PROPERTIES ImplementsOrderedIndex ScanMissesNothing SplitMakesRoom
