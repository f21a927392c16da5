CONSTANTS
  BitsPerByte = 4
  NaN = NaN
  FloatExact = 4
  CrcBits = 16
  Polynomial = {15, 10, 3}
  AppendBufferSize = 280
  MaxRows = 3
  Txn = 5
  Page = 3
SPECIFICATION Spec
INVARIANTS
  RowsReadBack
  KeysInOrder
  LogReadsBack
PROPERTIES
  DamageDetected
