\* app.py: recovery does not reset session budgets. It writes back what it read.
SPECIFICATION Spec
CONSTANTS
  c1 = c1
  c2 = c2
  r1 = r1
  r2 = r2
  r3 = r3
  g1 = g1
  g2 = g2
  d1 = d1
  d2 = d2
  None = None
  At <- Spread
  Sweepers = {g2}
  Cids = {c1}
  Inherited = {c1}
  Reqs = {r1, r2}
  Gateways = {g1, g2}
  Daemon <- OneDaemon
  RequireSharedState = {g1, g2}
  MaxActive = 1
  MaxExecutions = 1
  IdleTimeout = 1
  Lifetime = 3
  Grace = 1
  ExecLease = 2
  GuardLease = 2
  RunTime = 1
  MaxHold = 1
  MaxStart = 1
  MaxNow = 4
  MaxCrashes = 1
INVARIANTS BudgetKept
