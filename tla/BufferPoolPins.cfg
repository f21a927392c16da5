SPECIFICATION Spec
CONSTANTS
  Thread = {t1}
  NoThread = NoThread
  Data = {d1}
  Page = {0, 1}
  NumFrames = 1
  MaxTarget = 3
  MaxCalls = 4
  MaxGuards = 2
  MaxFailures = 0
INVARIANT EvictableIffUnguarded
