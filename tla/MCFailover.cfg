SPECIFICATION FailoverSpec
CONSTANTS
  Backends = 3
  Quorum = 1
  provider_stall_timeout_ms = 1
  provider_timeout_ms = 3
  MaxTime = 10
INVARIANT TimeoutsAsDocumented
CHECK_DEADLOCK FALSE
