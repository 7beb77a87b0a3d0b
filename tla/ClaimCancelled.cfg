CONSTANTS
  Sockets = {s1, s2}
  NoSocket = none
  Total = 2
  SendAhead = 2
  MaxTimers = 1
  MaxLosses = 1
  UserActs = {"cancel"}
  LoadsAreShort = TRUE
SPECIFICATION TransferSpec
CHECK_DEADLOCK FALSE
INVARIANT FinishedOrCancelled
