\* Two callers of one bucket, in memory or on Redis, clocks one apart and calls one late.
\* The clock and the members run out, so the system stops.
SPECIFICATION Spec
CONSTANTS
  c1 = c1
  c2 = c2
  c3 = c3
  m1 = m1
  m2 = m2
  m3 = m3
  m4 = m4
  m5 = m5
  Callers = {c1, c2}
  Members = {m1, m2, m3, m4}
  Limits = {0, 1, 2}
  Window = 4
  Margin = 1
  MaxSkew = 1
  MaxDelay = 1
  NoMember = NoMember
  MaxRetries = 1
  MaxNow = 6
CHECK_DEADLOCK FALSE
SYMMETRY LimiterSymmetry
INVARIANTS LimiterInv WindowBound ChargedOnce
PROPERTIES RefusalJustified
