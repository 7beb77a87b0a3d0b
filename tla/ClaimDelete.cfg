CONSTANTS
  Handlers = {h1}
  Cancellers = {}
  Finishers = {}
  Timer = timer
  Handover = handover
  NoThread = none
  ChunkSizes = {1}
  Sizes = {1, 2}
  AppReplies = {"done", "wait", "bad"}
  RemoveFileWhenFinished = TRUE
  RemoveMayFail = FALSE
  TimerMayExpire = FALSE
SPECIFICATION Spec
CHECK_DEADLOCK FALSE
INVARIANT FailedHandoverDeletesFile
