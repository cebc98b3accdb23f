\* Fairness: three requests for two slots and for the lock of an old container, while a new
\* one may be created, one docker failure; the clock stands still.
SPECIFICATION FairSpec
CONSTANTS
  c1 = c1
  c2 = c2
  c3 = c3
  r1 = r1
  r2 = r2
  r3 = r3
  p1 = p1
  p2 = p2
  Cids = {c1, c2}
  Inherited = {c1}
  Reqs = {r1, r2, r3}
  Reaper = Reaper
  None = None
  Principals = {p1}
  Subject <- OnePrincipal
  MaxConcurrent = 2
  MaxActive = 2
  MaxPerPrincipal = 2
  MaxExecutions = 1
  IdleTimeout = 0
  Lifetime = 1
  StartupListFails = FALSE
  ObjIds = {1, 2}
  LockIds = {1, 2, 3, 4}
  MaxNow = 0
  CreateUntil = 0
  MaxFaults = 1
  MaxRestarts = 0
PROPERTIES RequestsEnd
