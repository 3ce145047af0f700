CONSTANTS
  Proc = {1, 2, 3}
  Seg <- MCSeg
  Slots = 4
  MaxSeqGap = 2
  Window = 2
  PersonalWindow = 2
  PacketRoom = 3
  TokenRoom = 40
  ArqMod = 3
  RetransMod = 4
  Timeout <- MCTimeout
  MaxReps = 3
  MaxMembers = 4
  MaxFormReps = 3
  Scenarios <- MCScenarios
SPECIFICATION FairSpec
INVARIANTS NeverFatal ViewsAgree VirtualSynchrony TotalOrder OwnMessagesKept
PROPERTIES Stabilises
