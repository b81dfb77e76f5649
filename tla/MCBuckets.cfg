CONSTANTS
  MaxId = 7
  InitialBuckets = 2
  MaxLoad = 1
  MaxUsage = 2
  MinLoad = 3
  Null = Null
SPECIFICATION Spec
CHECK_DEADLOCK FALSE
INVARIANTS
  TypeOK
  PointersAgree
  ChainsAreListed
  ListedAreFound
  CounterIsExact
  UsageCoversChains
