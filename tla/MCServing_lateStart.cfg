SPECIFICATION Spec
SYMMETRY Symmetry
CONSTANTS
  Attempts = {a1}
  Leases = {l1}
  NoAttempt = NoAttempt
  NoLease = NoLease
  Reconciler = Reconciler
  Parallelism = 1
  RetryBudget = 2
  LateStart = TRUE
  Kills = FALSE
  MaxRestarts = 1
  MaxResolves = 0
  MaxStrays = 1
PROPERTIES ObservedExitIsFinal
