CONSTANTS
  PageSize = 9
  HeaderSize = 2
  SlotSize = 1
  Word = 16
  Name = {"a", "b"}
  Size = {1, 2}
SPECIFICATION MCSpec
INVARIANTS
  SpaceAccounted
PROPERTIES
  InsertsWhereAsked
  ImplementsRecordList
