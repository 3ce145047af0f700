SPECIFICATION Spec
CONSTANTS
  s1 = s1
  s2 = s2
  s3 = s3
  Servers = {s1, s2}
  Service = Service
  Threads = {t1, t2}
  Keys = {k1, k2}
  Values = {v1}
  Empty = Empty
  NameDigit <- MCNameDigit
  NodeDigit <- MCNodeDigit
  Local = TRUE
  TestConflict = {}
  InitialServers = {s1, s2}
  Environments <- AnyOrder
SYMMETRY Symmetry
CHECK_DEADLOCK FALSE
INVARIANTS
  CallbacksLive
  Provenance
