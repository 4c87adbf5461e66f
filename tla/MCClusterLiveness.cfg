SPECIFICATION MCFairSpec
CONSTANTS
  WorkerId = {w1, w2, w3}
  WorkerCount = 2
  Heartbeat = 1
  NoHeartbeat = 1
  Drain = 1
  CatastrophicRestarts = 2
  CatastrophicWindow = 1
  StartLimit = 1
  Faulty = {w1}
PROPERTY StuckWorkerIsReplaced ShutdownEnds
CHECK_DEADLOCK FALSE
