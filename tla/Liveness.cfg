CONSTANTS
  Handlers = {h1}
  Cancellers = {c1}
  Finishers = {f1}
  Timer = timer
  Handover = handover
  NoThread = none
  ChunkSizes = {0, 1}
  Sizes = {1, 2}
  AppReplies = {"done", "wait", "bad"}
  RemoveFileWhenFinished = TRUE
  RemoveMayFail = FALSE
  TimerMayExpire = FALSE
SPECIFICATION FairSpec
CHECK_DEADLOCK FALSE
PROPERTIES
  HandoverConcludes
  WaitingSessionEnds
  RequestsAnswered
  CancelledIsCleanedUp
