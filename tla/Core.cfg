CONSTANTS
  Handlers = {h1, h2}
  Cancellers = {c1}
  Finishers = {f1}
  Timer = timer
  Handover = handover
  NoThread = none
  ChunkSizes = {1, 2}
  Sizes = {1, 2}
  AppReplies = {"done", "wait", "bad"}
  RemoveFileWhenFinished = TRUE
  RemoveMayFail = FALSE
  TimerMayExpire = TRUE
SPECIFICATION Spec
SYMMETRY Symmetry
CHECK_DEADLOCK FALSE
INVARIANTS
  TypeOK
  OneHandler
  AppToldOnce
  CompleteBeforeHandover
  FileThereDuringHandover
  AcceptedMeansFinished
  FileOpenIffReceiving
  CleanedUpLeavesNoFile
  ChannelsClosedOnce
  TimerNeverWaitsForItself
