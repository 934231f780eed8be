SPECIFICATION Spec
SYMMETRY Symmetry
CONSTANTS
  Attempts = {a1, a2}
  Leases = {l1, l2}
  NoAttempt = NoAttempt
  NoLease = NoLease
  Reconciler = Reconciler
  Parallelism = 1
  RetryBudget = 1
  LateStart = TRUE
  Kills = FALSE
  MaxRestarts = 0
  MaxResolves = 0
  MaxStrays = 0
INVARIANTS LiveHoldsCredit
  ServingsWithinBudget
