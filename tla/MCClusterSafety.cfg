SPECIFICATION Spec
CONSTANTS
  WorkerId = {w1, w2, w3}
  WorkerCount = 2
  Heartbeat = 1
  NoHeartbeat = 2
  Drain = 2
  CatastrophicRestarts = 3
  CatastrophicWindow = 2
  StartLimit = 1
  Faulty = {w1}
SYMMETRY WorkerSymmetry
INVARIANTS TypeOK CleanExitLeavesNoWorker HealthyNeverOverdue DrainGetsItsShare
PROPERTY RestartBudget
CHECK_DEADLOCK FALSE
