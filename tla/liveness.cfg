SPECIFICATION FairSpec
CONSTANTS
  s1 = s1
  s2 = s2
  s3 = s3
  Servers = {s1, s2}
  Service = Service
  Threads = {t1, t2}
  Keys = {k1}
  Values = {v1}
  Empty = Empty
  NameDigit <- MCNameDigit
  NodeDigit <- MCNodeDigit
  Local = TRUE
  TestConflict = {s2}
  InitialServers = {s1, s2}
  Environments <- Restless
CHECK_DEADLOCK FALSE
PROPERTIES
  WaitsEnd
