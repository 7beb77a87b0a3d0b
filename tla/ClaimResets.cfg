CONSTANTS
  Handlers = {h1}
  Cancellers = {}
  Finishers = {}
  Timer = timer
  Handover = handover
  NoThread = none
  ChunkSizes = {1}
  Sizes = {1, 2}
  AppReplies = {"done"}
  RemoveFileWhenFinished = TRUE
  RemoveMayFail = FALSE
  TimerMayExpire = TRUE
SPECIFICATION FairSpec
CHECK_DEADLOCK FALSE
PROPERTY ResetsReturn
