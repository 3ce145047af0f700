CONSTANTS
  Clients = {"a", "b", "c"}
  FLOK_AGE_LIMIT = 0
  Threads = {"r", "s", "d"}
  Conns = {1, 2}
  FlushScenarios <- MCFlushScenarios
  LockPrograms <- MCLockPrograms
SPECIFICATION FairSpec
INVARIANTS AssertsHold SendingView VirtualSynchrony ViewsExplained NoUseAfterFree
PROPERTIES EverythingInstalled
CHECK_DEADLOCK FALSE
