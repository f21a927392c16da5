SPECIFICATION MCSpec
CONSTANTS
  NumFrames = 2
  Page = {p1, p2, p3, p4, p5}
  MaxTarget = 3
INVARIANTS TypeOK ListsMatchMaps ArcLimits SizeCountsVictims
PROPERTY LeastRecentlyUsedFirst
