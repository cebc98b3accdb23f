\* One container left by an earlier process, and one created, whose ids two requests
\* use, with one docker failure anywhere and a startup that may fail to list.
SPECIFICATION Spec
CONSTANTS
  c1 = c1
  c2 = c2
  c3 = c3
  r1 = r1
  r2 = r2
  r3 = r3
  p1 = p1
  p2 = p2
  Cids = {c1, c2}
  Inherited = {c1}
  Reqs = {r1, r2}
  Reaper = Reaper
  None = None
  Principals = {p1, p2}
  Subject <- OnePrincipal
  MaxConcurrent = 2
  MaxActive = 1
  MaxPerPrincipal = 1
  MaxExecutions = 1
  IdleTimeout = 0
  Lifetime = 1
  StartupListFails = TRUE
  ObjIds = {1, 2, 3, 4, 5}
  LockIds = {1, 2, 3, 4}
  MaxNow = 1
  CreateUntil = 0
  MaxFaults = 1
  MaxRestarts = 0
SYMMETRY RequestSymmetry
INVARIANTS Inductive
PROPERTIES ContractKept
