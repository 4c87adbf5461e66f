SPECIFICATION FairSpec
CONSTANTS
  r1 = r1
  r2 = r2
  p1 = p1
  p2 = p2
  Request = {r1, r2}
  Process = {p1}
  Home <- OneProcess
  Second = 3
  DefaultTtl = 1
  Timeout = 2
  MaxLate = 1
INVARIANTS TypeOK ServedAgeBounded
PROPERTY MemoizeKept RequestsEnd
