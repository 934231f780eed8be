SPECIFICATION Spec
CONSTANTS
  w1 = w1
  w2 = w2
  Workloads <- TwoWorkloads
  MaxMessages = 2
  MaxQueue = 1
  MaxOffers = 1
  MaxReports = 0
  MaxCrashes = 1
  ReopenAfter = 1
SYMMETRY Symmetry
INVARIANTS SupersededHasSuccessor ConfirmedIsDeleted NoFalseDrift
CHECK_DEADLOCK FALSE
