SPECIFICATION Spec
CONSTANTS
  Client = {c1, c2}
  MaxPage = 1
  d1 = d1
  d2 = d2
  Data <- MCData
  Workload <- MCWorkload
  MaxCalls = 1
INVARIANTS OneFuturePerRequest NoLostWakeup
PROPERTIES ImplementsAtomicDisk CallsReturn
