SPECIFICATION BooksSpec
CONSTANTS
  Order <- MCOrder
  TierOf <- MCTierOf
  Parallelism <- MCParallelism
  Global = 2
  MaxDemand = 2
  MaxAdopted = 1
  MaxCrashes = 1
  MaxServings = 3
  TrailBudget = 2
  TrailResolves = 2
  Jobs = {"j1", "j2", "j3"}
  PoolOf <- MCPoolOf
  MaxLanes = 1
  LaneSize <- MCLaneSize
  TargetBytes = 1
INVARIANTS RemoteWithinLimits BooksAgree PlanIsFair
  TrailIsTrue
  LanesAreSafe
PROPERTIES
  EveryoneLooks
  CollectionIsExact
CHECK_DEADLOCK FALSE
