SPECIFICATION Spec
CONSTANTS
  w1 = w1
  w2 = w2
  Workloads <- TwoWorkloads
  MaxMessages = 2
  MaxQueue = 1
  MaxOffers = 0
  MaxReports = 1
  MaxCrashes = 0
  ReopenAfter = 1
PROPERTIES CancelNamesItsWorkload
CHECK_DEADLOCK FALSE
