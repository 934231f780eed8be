SPECIFICATION FairSpec
CONSTANTS
  Attempts = {a1}
  Leases = {l1}
  NoAttempt = NoAttempt
  NoLease = NoLease
  Reconciler = Reconciler
  Parallelism = 1
  RetryBudget = 1
  LateStart = FALSE
  Kills = TRUE
  MaxRestarts = 1
  MaxResolves = 0
  MaxStrays = 1
INVARIANT ReleasedIsClean
PROPERTIES LeaseResolves
