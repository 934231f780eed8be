SPECIFICATION Spec
CONSTANTS
  w1 = w1
  w2 = w2
  Workloads <- OneWorkload
  MaxMessages = 3
  MaxQueue = 1
  MaxOffers = 0
  MaxReports = 1
  MaxCrashes = 0
  ReopenAfter = 1
INVARIANTS OneOpenAttempt
PROPERTIES DeletedIsDurable CancelHitsItsRun
CHECK_DEADLOCK FALSE
