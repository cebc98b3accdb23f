\* Two gateways with daemons of their own, a crash.
SPECIFICATION FairSpec
CONSTANTS
  c1 = c1
  c2 = c2
  r1 = r1
  r2 = r2
  r3 = r3
  g1 = g1
  g2 = g2
  d1 = d1
  d2 = d2
  None = None
  At <- Spread
  Sweepers = {g1, g2}
  Cids = {c1, c2}
  Inherited = {c1}
  Reqs = {r1}
  Gateways = {g1, g2}
  Daemon <- OwnDaemons
  RequireSharedState = {g1, g2}
  MaxActive = 1
  MaxExecutions = 1
  IdleTimeout = 0
  Lifetime = 1
  Grace = 1
  ExecLease = 1
  GuardLease = 1
  RunTime = 1
  MaxHold = 1
  MaxStart = 1
  MaxNow = 2
  MaxCrashes = 1
PROPERTIES ContainersReclaimed StoreCleared
