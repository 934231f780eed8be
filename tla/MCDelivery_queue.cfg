SPECIFICATION FairSpec
CONSTANTS
  w1 = w1
  w2 = w2
  Workloads <- OneWorkload
  MaxMessages = 2
  MaxQueue = 2
  MaxOffers = 0
  MaxReports = 0
  MaxCrashes = 1
  ReopenAfter = 3
INVARIANTS TypeOK
PROPERTIES QueueAdvances
CHECK_DEADLOCK FALSE
