CONSTANTS
  BufRoom = 4
  MaxSessMess = 2
  MaxLocal = 2
  Stalled = {2}
  Proc = {1, 2, 3}
  Scenarios <- MCScenarios
SPECIFICATION FairSpec
INVARIANTS NeverFatal GroupsAgree NetworkIdsAreUnique ClientsSynchronous
PROPERTIES EverythingSettles
CHECK_DEADLOCK FALSE
