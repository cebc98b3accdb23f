\* Two gateways on one daemon create and clean up, one removes containers without a session,
\* as REQUIRE_SHARED_STATE says, the other recovers them from their labels.
SPECIFICATION Spec
CONSTANTS
  c1 = c1
  c2 = c2
  r1 = r1
  r2 = r2
  r3 = r3
  g1 = g1
  g2 = g2
  d1 = d1
  d2 = d2
  None = None
  At <- Spread
  Sweepers = {g1, g2}
  Cids = {c1, c2}
  Inherited = {}
  Reqs = {r1, r2}
  Gateways = {g1, g2}
  Daemon <- OneDaemon
  RequireSharedState = {g1}
  MaxActive = 1
  MaxExecutions = 2
  IdleTimeout = 1
  Lifetime = 2
  Grace = 1
  ExecLease = 2
  GuardLease = 2
  RunTime = 1
  MaxHold = 1
  MaxStart = 1
  MaxNow = 3
  MaxCrashes = 0
INVARIANTS SharedQuota
PROPERTIES CreatedUsable
