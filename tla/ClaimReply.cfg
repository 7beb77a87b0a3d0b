CONSTANTS
  Handlers = {h1}
  Cancellers = {}
  Finishers = {}
  Timer = timer
  Handover = handover
  NoThread = none
  ChunkSizes = {1}
  Sizes = {1}
  AppReplies = {"done", "short"}
  RemoveFileWhenFinished = TRUE
  RemoveMayFail = FALSE
  TimerMayExpire = FALSE
SPECIFICATION FairSpec
CHECK_DEADLOCK FALSE
PROPERTY AnsweredHandoverEnds
