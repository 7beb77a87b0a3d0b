CONSTANTS
  Sockets = {s1, s2}
  NoSocket = none
  Total = 3
  SendAhead = 2
  MaxTimers = 1
  MaxLosses = 2
  UserActs = {"cancel", "pause"}
  LoadsAreShort = TRUE
SPECIFICATION FairTransferSpec
CHECK_DEADLOCK FALSE
INVARIANTS
  TransferTypeOK
  AckedIsStored
  WindowRespected
  CancelledIsDiscarded
PROPERTIES
  KeepsOrder
  FollowsLife
  StaysEnded
  Concludes
  Delivers
