SPECIFICATION Spec
SYMMETRY Symmetry
CONSTANTS
  Attempts = {a1}
  Leases = {l1, l2}
  NoAttempt = NoAttempt
  NoLease = NoLease
  Reconciler = Reconciler
  Parallelism = 1
  RetryBudget = 2
  LateStart = FALSE
  Kills = FALSE
  MaxRestarts = 1
  MaxResolves = 1
  MaxStrays = 0
INVARIANTS AtMostOnce
  LiveHoldsCredit
  NoStranded
  OneDriver
  RowsTellWhatRan
PROPERTIES HonoursContract
