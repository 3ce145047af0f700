SPECIFICATION FairSpec
CONSTANTS
  Proc = {1, 2, 3}
  Seg <- MCSeg
  Slots = 2
  MaxSeqGap = 1
  Window = 2
  PersonalWindow = 1
  PacketRoom = 3
  TokenRoom = 40
  Load <- MCLoad
  ArqMod = 3
  RetransMod = 4
  WaterMark = 2
  Timeout <- MCTimeout
  Scenarios <- MCScenarios
INVARIANTS
  NeverFatal
  DeliveriesSound
PROPERTIES
  ImplementsOrderedDelivery
  EverythingArrives
CHECK_DEADLOCK FALSE
