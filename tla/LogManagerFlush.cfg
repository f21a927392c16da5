SPECIFICATION Spec
CONSTANTS
  Thread = {t1}
  Size = {1}
  BufferSize = 2
  MaxLSN = 2
PROPERTY RequestedRecordIsDurable
