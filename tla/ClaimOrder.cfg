CONSTANTS
  Sockets = {s1, s2}
  NoSocket = none
  Total = 2
  SendAhead = 2
  MaxTimers = 2
  MaxLosses = 1
  UserActs = {"pause", "hurry"}
  LoadsAreShort = TRUE
SPECIFICATION TransferSpec
CHECK_DEADLOCK FALSE
INVARIANT StoredInOrder
