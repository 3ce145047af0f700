SPECIFICATION FairSpec
CONSTANTS
  Threads = {"t1", "t2"}
  Handles = {1, 2, 3, 4}
  MaxLib = 2
  Fds = {0, 1, 2}
  MaxListen = 1
  MaxBody = 4
  Room = 3
  MaxSessions = 2
  DFds = {0, 1, 2}
  MaxSessMess = 2
  MaxGroupsPerMessage = 2
  MaxLocal = 1
  Enabled = {"NULL", "IP"}
  Required = {}
  IpRefused = {"z"}
  Illegal = {"!"}
  RandomNames = {"r0"}
  Programs <- MCPrograms
CHECK_DEADLOCK FALSE
INVARIANTS
  NeverFatal
  SessionsAreFound
  MessagesWhole
PROPERTIES
  EverythingEnds
