SPECIFICATION UniqueSpec
CONSTANTS
  Key = {1, 2, 3, 4, 5}
  NoKey = NoKey
  Size = {1}
  LeafCapacity = 2
  InternalCapacity = 2
  MaxPages = 6
  Start = {1, 3}
  End = {4}
  MaxChanges = 1
INVARIANTS EveryRecordFound
