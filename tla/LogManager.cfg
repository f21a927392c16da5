SPECIFICATION Spec
CONSTANTS
  Thread = {t1, t2, t3}
  Size = {1, 2}
  BufferSize = 2
  MaxLSN = 3
INVARIANTS TypeOK OneLeader NoLostWakeup LogIsWhole FlushedSurvives
PROPERTIES ImplementsDurableLog FlushReturns
