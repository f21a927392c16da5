SPECIFICATION Spec
CONSTANTS
  MaxPage = 4
  MAX_FREE_IDS = 1
  OffsetWrap = 4
  Data = {d1}
  MaxCrashes = 2
  MaxFaults = 1
INVARIANTS TypeOK NeverLiveAndFree CrashSafe LeakBoundedByCrashes
PROPERTY ImplementsPageStore
CONSTRAINT StopAtDamage
