CONSTANTS
  Clients = {"a", "b", "c"}
  FLOK_AGE_LIMIT = 0
  Threads = {"r", "s", "d"}
  Conns = {1, 2}
  FlushScenarios <- MCFlushScenarios
  LockPrograms <- MCLockPrograms
SPECIFICATION Spec
INVARIANT OnlyTheViewReceives
CHECK_DEADLOCK FALSE
