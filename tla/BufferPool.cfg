SPECIFICATION MCSpec
CONSTANTS
  Thread = {t1, t2}
  Page <- MCPage
  NoThread = NoThread
  d1 = d1
  d2 = d2
  Data <- MCData
  NumFrames = 2
  MaxTarget = 3
  MaxCalls = 3
  MaxGuards = 2
  MaxFailures = 1
INVARIANTS TypeOK FramesAccounted CallsAreDefined CleanPagesSaved
PROPERTIES ImplementsPageCells CallsReturn
