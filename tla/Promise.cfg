CONSTANTS
  Handlers = {h1, h2}
  Cancellers = {c1}
  Finishers = {f1}
  Timer = timer
  Handover = handover
  NoThread = none
  ChunkSizes = {1, 2}
  Sizes <- SizesWithNegative
  AppReplies = {"done", "wait", "bad", "short", "unsized"}
  RemoveFileWhenFinished = FALSE
  RemoveMayFail = TRUE
  TimerMayExpire = TRUE
SPECIFICATION Spec
SYMMETRY Symmetry
CHECK_DEADLOCK FALSE
INVARIANTS
  OneHandler
  CompleteBeforeHandover
  FileThereDuringHandover
PROPERTIES
  EndsOnce
  ProgressIsKept
  KeepsPromise
  FollowsLife
