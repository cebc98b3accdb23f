\* Two gateways, one daemon, two requests on one session; a gateway may die.
SPECIFICATION Spec
CONSTANTS
  c1 = c1
  c2 = c2
  r1 = r1
  r2 = r2
  r3 = r3
  g1 = g1
  g2 = g2
  d1 = d1
  d2 = d2
  None = None
  At <- Spread
  Sweepers = {g2}
  Cids = {c1}
  Inherited = {c1}
  Reqs = {r1, r2}
  Gateways = {g1, g2}
  Daemon <- OneDaemon
  RequireSharedState = {g1, g2}
  MaxActive = 1
  MaxExecutions = 2
  IdleTimeout = 3
  Lifetime = 4
  Grace = 1
  ExecLease = 3
  GuardLease = 2
  RunTime = 1
  MaxHold = 2
  MaxStart = 1
  MaxNow = 4
  MaxCrashes = 1
INVARIANTS TypeOK LeaseExclusion OneCode
