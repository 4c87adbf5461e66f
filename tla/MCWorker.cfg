SPECIFICATION WorkerSpec
CONSTANTS
  Request = {r1, r2, r3, r4}
  MaxInflight = 2
  Grace = 7
  Heartbeat = 3
  MaxDelay = 2
SYMMETRY RequestSymmetry
INVARIANTS TypeOK InflightExact OverloadEnds ServedByReadyServices
PROPERTY GraceKept
CHECK_DEADLOCK FALSE
