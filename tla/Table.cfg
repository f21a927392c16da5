CONSTANTS
  Key = {1, 2}
  Field = {1, 2}
  FieldValue = {0, 1}
  DefaultValue = 0
  MaxRows = 2
  MaxEntries = 3
SPECIFICATION Spec
INVARIANTS
  IndexesAgree
