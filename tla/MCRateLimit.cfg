SPECIFICATION FairSpec
CONSTANTS
  Request = {r1, r2, r3}
  Limit = 2
  Period = 2
  Second = 3
  Timeout = 1
  MaxLate = 1
  MaxFailures = 1
INVARIANTS TypeOK AdmittedWithinLimit UntimedCounterIsServed
PROPERTY WindowNotExtended CounterGetsTtl
