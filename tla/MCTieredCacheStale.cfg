SPECIFICATION Spec
CONSTANTS
  r1 = r1
  r2 = r2
  p1 = p1
  p2 = p2
  Request = {r1, r2}
  Process = {p1, p2}
  Home <- TwoProcesses
  Second = 3
  DefaultTtl = 2
  Timeout = 1
  MaxLate = 0
INVARIANTS PersistedForCacheTtl
