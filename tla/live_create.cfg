\* Fairness: two requests for one guard, two containers to create, cleanup, a
\* crash at any point and one docker failure.
SPECIFICATION FairSpec
CONSTANTS
  c1 = c1
  c2 = c2
  c3 = c3
  r1 = r1
  r2 = r2
  r3 = r3
  p1 = p1
  p2 = p2
  Cids = {c1, c2}
  Inherited = {}
  Reqs = {r1, r2}
  Reaper = Reaper
  None = None
  Principals = {p1}
  Subject <- OnePrincipal
  MaxConcurrent = 1
  MaxActive = 2
  MaxPerPrincipal = 2
  MaxExecutions = 1
  IdleTimeout = 0
  Lifetime = 1
  StartupListFails = TRUE
  ObjIds = {1, 2}
  LockIds = {1, 2}
  MaxNow = 1
  CreateUntil = 0
  MaxFaults = 1
  MaxRestarts = 1
PROPERTIES RequestsEnd RecordsDropped ContainersReclaimed
