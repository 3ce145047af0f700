SPECIFICATION Spec
CONSTANTS
  s1 = s1
  s2 = s2
  s3 = s3
  Servers = {s1, s2, s3}
  Service = Service
  Threads = {t1, t2}
  Keys = {k1}
  Values = {v1, v2}
  Empty = Empty
  NameDigit <- MCNameDigit
  NodeDigit <- MCNodeDigit
  Local = FALSE
  TestConflict = {}
  InitialServers = {s1, s2, s3}
  Environments <- Replication
SYMMETRY ValueSymmetry
CHECK_DEADLOCK FALSE
INVARIANTS
  ReadsAreFresh
  ReplicasAgree
  WriterIsAlone
  ReplicasRecover
  SomeoneWins
PROPERTY
  ImplementsRegister
