\* One container left by an earlier process, three requests racing for it and
\* for two execution slots, the cleanup task, docker never fails.
SPECIFICATION Spec
CONSTANTS
  c1 = c1
  c2 = c2
  c3 = c3
  r1 = r1
  r2 = r2
  r3 = r3
  p1 = p1
  p2 = p2
  Cids = {c1}
  Inherited = {c1}
  Reqs = {r1, r2, r3}
  Reaper = Reaper
  None = None
  Principals = {p1}
  Subject <- OnePrincipal
  MaxConcurrent = 2
  MaxActive = 1
  MaxPerPrincipal = 1
  MaxExecutions = 2
  IdleTimeout = 0
  Lifetime = 2
  StartupListFails = FALSE
  ObjIds = {1, 2}
  LockIds = {1, 2, 3, 4}
  MaxNow = 2
  CreateUntil = 0
  MaxFaults = 0
  MaxRestarts = 0
SYMMETRY RequestSymmetry
INVARIANTS LockExclusion CodeExclusion RemovalClaims BudgetKept SlotsConserved
