\* Two requests of one principal create containers while the cleanup task and the
\* clock run: one session per principal, two in all.
SPECIFICATION Spec
CONSTANTS
  c1 = c1
  c2 = c2
  c3 = c3
  r1 = r1
  r2 = r2
  r3 = r3
  p1 = p1
  p2 = p2
  Cids = {c1, c2}
  Inherited = {}
  Reqs = {r1, r2}
  Reaper = Reaper
  None = None
  Principals = {p1, p2}
  Subject <- OnePrincipal
  MaxConcurrent = 1
  MaxActive = 2
  MaxPerPrincipal = 1
  MaxExecutions = 1
  IdleTimeout = 1
  Lifetime = 3
  StartupListFails = FALSE
  ObjIds = {1, 2, 3, 4, 5}
  LockIds = {1, 2, 3, 4}
  MaxNow = 5
  CreateUntil = 2
  MaxFaults = 0
  MaxRestarts = 0
SYMMETRY RequestSymmetry
INVARIANTS YoungQuota
