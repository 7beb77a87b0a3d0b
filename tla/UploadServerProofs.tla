-------------------------- MODULE UploadServerProofs --------------------------
(***************************************************************************)
(* Type correctness of UploadServer for every number of connections and    *)
(* requests, every file and chunk size and every set of replies.           *)
(*                                                                         *)
(* The type invariant is proved in three parts, each by the actions that   *)
(* touch its variables: the control part (program counters and u.lock),    *)
(* the numbers (state, size, position) and the flags.                      *)
(***************************************************************************)
EXTENDS UploadServer, TLAPS

ControlOK == /\ lock \in Threads \cup {NoThread}
             /\ pc \in [Threads -> Labels]
             /\ after \in [Threads -> Labels]

\* Types alone are not inductive: a declared size must not fall behind what has
\* been received, and SetFileSize is accepted in the initial state.
NumbersOK == /\ state \in StateInit..StateCleanedUp
             /\ fileSize \in Int
             /\ filePos \in Nat
             /\ filePos > 0 => filePos <= fileSize
             /\ state = StateInit => filePos = 0

CountersOK == posts \in [handed : Nat, cancelled : Nat]

SwitchesOK == /\ bound \in BOOLEAN
              /\ fd \in BOOLEAN
              /\ canResetTimeout \in BOOLEAN
              /\ armed \in BOOLEAN
              /\ tick \in BOOLEAN
              /\ timeoutClosed \in BOOLEAN
              /\ waitClosed \in BOOLEAN
              /\ inPool \in BOOLEAN
              /\ accepted \in BOOLEAN
              /\ allDone \in BOOLEAN

NamesOK == /\ path \in {"", "part", "final"}
           /\ disk \in {"none", "part", "final", "taken"}
           /\ outcome \in {"open", "finished", "cancelled"}

FlagsOK == SwitchesOK /\ NamesOK

TypeInv == ControlOK /\ NumbersOK /\ CountersOK /\ FlagsOK

-----------------------------------------------------------------------------
(* Control.                                                                  *)

\* The control operators keep the types when they are given labels.
LEMMA ControlType ==
  ASSUME ControlOK, NEW t \in Threads, NEW label \in Labels
  PROVE  /\ Goto(t, label) => ControlOK'
         /\ KeepLock(t, label) => ControlOK'
<1>1. "reset" \in Labels
      BY DEF Labels
<1>2. QED
      BY <1>1 DEF ControlOK, Goto, KeepLock

LEMMA LockToResetControl ==
  ASSUME ControlOK, NEW t \in Threads, NEW from, NEW next \in Labels,
         LockToReset(t, from, next)
  PROVE  ControlOK'
BY ControlType DEF LockToReset

LEMMA ResetControl ==
  ASSUME ControlOK, NEW t \in Threads, ResetTimeout(t)
  PROVE  ControlOK'
BY DEF ControlOK, ResetTimeout

LEMMA CancelControl ==
  ASSUME ControlOK, NEW t \in Threads, NEW tellApp \in BOOLEAN,
         NEW ok \in Labels, NEW failed \in Labels,
         Cancel(t, tellApp, ok, failed)
  PROVE  ControlOK'
<1>1. "tell" \in Labels
      BY DEF Labels, SessionLabels
<1>2. QED
      BY <1>1, ControlType DEF Cancel

LEMMA StepControl ==
  ASSUME ControlOK, NEW t \in Threads, NEW from, NEW next \in Labels,
         Step(t, from, next)
  PROVE  ControlOK'
BY ControlType DEF Step

LEMMA DiesControl == ControlOK /\ ProcessDies => ControlOK'
<1>1. "dead" \in Labels
      BY DEF Labels
<1>2. QED
      BY <1>1 DEF ControlOK, ProcessDies

LEMMA HandlerControl ==
  ASSUME ControlOK, NEW h \in Handlers, WebsocketHandler(h)
  PROVE  ControlOK'
<1> h \in Threads
    BY DEF Threads, Requests
<1> USE DEF Labels, SessionLabels
<1>1. CASE UploadRequest(h)
      BY <1>1, StepControl DEF UploadRequest
<1>2. CASE Bind(h)
      BY <1>2, ControlType DEF Bind, BindToSocketHandler
<1>3. CASE ReadState(h)
      BY <1>3, StepControl DEF ReadState
<1>4. CASE DeclareSize(h)
      BY <1>4, ControlType DEF DeclareSize, SetFileSize
<1>5. CASE DeclareName(h)
      BY <1>5, ControlType DEF DeclareName, SetFileName
<1>6. CASE CompareSize(h)
      BY <1>6, StepControl DEF CompareSize
<1>7. CASE Configure(h)
      BY <1>7, StepControl DEF Configure
<1>8. CASE ReceivedAll(h)
      BY <1>8, StepControl DEF ReceivedAll
<1>9. CASE ReceiveChunk(h)
      BY <1>9, ControlType
      DEF ReceiveChunk, ConsumeFileChunk, ChunkRefused, OpenFails,
          ChunkNotWritten, ChunkWritten
<1>10. CASE ReceivePause(h)
      BY <1>10, ControlType DEF ReceivePause, Pause
<1>11. CASE ReceiveCancelOrError(h)
      BY <1>11, StepControl DEF ReceiveCancelOrError
<1>12. CASE ReceiveFails(h)
      BY <1>12, StepControl DEF ReceiveFails
<1>13. CASE ChunkError(h)
      BY <1>13, StepControl DEF ChunkError
<1>14. CASE HandFileToApp(h)
  <2>1. CASE pc[h] = "handover" /\ Goto(h, "start handover")
        BY <2>1, ControlType
  <2>2. CASE pc[h] = "start handover" /\ Goto(h, "wait")
        BY <2>2, ControlType
  <2>3. CASE /\ pc' = [pc EXCEPT ![h] = "wait", ![Handover] = "announce"]
             /\ UNCHANGED <<lock, after>>
        BY <2>3 DEF ControlOK
  <2>4. QED
        BY <1>14, <2>1, <2>2, <2>3 DEF HandFileToApp
<1>15. CASE WaitDelivered(h)
      BY <1>15 DEF WaitDelivered, HandoverDelivers, ControlOK, Threads
<1>16. CASE WaitClosed(h)
      BY <1>16, StepControl DEF WaitClosed
<1>17. CASE WaitIgnores(h) \/ WaitLost(h)
      BY <1>17, StepControl DEF WaitIgnores, WaitLost
<1>18. CASE SendError(h)
      BY <1>18, StepControl DEF SendError
<1>19. CASE SendFails(h)
      BY <1>19, StepControl DEF SendFails
<1>20. CASE Cancel(h, TRUE, "cleanup", "cleanup")
      BY <1>20, CancelControl
<1>21. CASE CancelTell(h)
      BY <1>21, ControlType DEF CancelTell
<1>22. CASE CancelAnswered(h)
      BY <1>22, ControlType DEF CancelAnswered
<1>23. CASE CancelPanics(h)
      BY <1>23, StepControl DEF CancelPanics
<1>24. CASE LockToReset(h, "answered", "cleanup")
      BY <1>24, LockToResetControl
<1>25. CASE CleanUp(h, "unbind")
      BY <1>25, ControlType DEF CleanUp
<1>26. CASE ResetTimeout(h)
      BY <1>26, ResetControl
<1>27. CASE pc[h] = "unbind" /\ UnbindFromSocketHandler(h, "idle")
      BY <1>27, ControlType DEF UnbindFromSocketHandler
<1>28. CASE SendAllDone(h)
      BY <1>28, StepControl DEF SendAllDone
<1>29. QED
      BY <1>1, <1>2, <1>3, <1>4, <1>5, <1>6, <1>7, <1>8, <1>9, <1>10, <1>11,
         <1>12, <1>13, <1>14, <1>15, <1>16, <1>17, <1>18, <1>19, <1>20, <1>21,
         <1>22, <1>23, <1>24, <1>25, <1>26, <1>27, <1>28
      DEF WebsocketHandler

LEMMA CancellerControl ==
  ASSUME ControlOK, NEW c \in Cancellers, CancelUploadHandler(c)
  PROVE  ControlOK'
<1> c \in Threads
    BY DEF Threads, Requests
<1> USE DEF Labels, SessionLabels
<1>1. CASE Step(c, "idle", "secret")
      BY <1>1, StepControl
<1>2. CASE CheckSecret(c, "cancel")
      BY <1>2, StepControl DEF CheckSecret
<1>3. CASE Cancel(c, FALSE, "cleanup", "idle")
      BY <1>3, CancelControl
<1>4. CASE ResetTimeout(c)
      BY <1>4, ResetControl
<1>5. CASE CleanUp(c, "idle")
      BY <1>5, ControlType DEF CleanUp
<1>6. QED
      BY <1>1, <1>2, <1>3, <1>4, <1>5 DEF CancelUploadHandler

LEMMA FinisherControl ==
  ASSUME ControlOK, NEW f \in Finishers, FinishUploadHandler(f)
  PROVE  ControlOK'
<1> f \in Threads
    BY DEF Threads, Requests
<1> USE DEF Labels, SessionLabels
<1>1. CASE Step(f, "idle", "secret")
      BY <1>1, StepControl
<1>2. CASE CheckSecret(f, "signal")
      BY <1>2, StepControl DEF CheckSecret
<1>3. CASE HandoverDone(f, "idle")
      BY <1>3, ControlType DEF HandoverDone
<1>4. CASE HandoverConfirmed(f, "idle")
      BY <1>4 DEF HandoverConfirmed, ControlOK
<1>5. CASE HandoverDoneTimesOut(f, "idle")
      BY <1>5, ControlType DEF HandoverDoneTimesOut
<1>6. QED
      BY <1>1, <1>2, <1>3, <1>4, <1>5 DEF FinishUploadHandler

LEMMA TimerControl ==
  ASSUME ControlOK, GoHandleTimeout
  PROVE  ControlOK'
<1> Timer \in Threads
    BY DEF Threads
<1> USE DEF Labels, SessionLabels
<1>1. CASE TimerFires
      BY <1>1, ControlType DEF TimerFires
<1>2. CASE TimerForbidsResets
      BY <1>2, ControlType DEF TimerForbidsResets
<1>3. CASE Cancel(Timer, TRUE, "cleanup", "cleanup")
      BY <1>3, CancelControl
<1>4. CASE ResetTimeout(Timer)
      BY <1>4, ResetControl
<1>5. CASE CancelTell(Timer)
      BY <1>5, ControlType DEF CancelTell
<1>6. CASE CancelAnswered(Timer)
      BY <1>6, ControlType DEF CancelAnswered
<1>7. CASE ProcessDies
      BY <1>7, DiesControl
<1>8. CASE LockToReset(Timer, "answered", "cleanup")
      BY <1>8, LockToResetControl
<1>9. CASE CleanUp(Timer, "select")
      BY <1>9, ControlType DEF CleanUp
<1>10. CASE TimerExits
      BY <1>10, ControlType DEF TimerExits
<1>11. QED
      BY <1>1, <1>2, <1>3, <1>4, <1>5, <1>6, <1>7, <1>8, <1>9, <1>10
      DEF GoHandleTimeout

LEMMA HandoverControl ==
  ASSUME ControlOK, HandoverGoroutine
  PROVE  ControlOK'
<1> Handover \in Threads
    BY DEF Threads
<1> USE DEF Labels, SessionLabels
<1>1. CASE LockToReset(Handover, "announce", "post")
      BY <1>1, LockToResetControl
<1>2. CASE ResetTimeout(Handover)
      BY <1>2, ResetControl
<1>3. CASE HandoverPosts
      BY <1>3, ControlType DEF HandoverPosts
<1>4. ASSUME NEW r \in AppReplies, HandoverAnswered(r)
      PROVE  ControlOK'
  <2>1. AfterReply(r) \in Labels
        BY ParametersAssumption DEF AfterReply
  <2>2. QED
        BY <1>4, <2>1 DEF HandoverAnswered, ControlOK
<1>5. CASE LockToReset(Handover, "reply", after[Handover])
  <2>1. after[Handover] \in Labels
        BY DEF ControlOK
  <2>2. QED
        BY <1>5, <2>1, LockToResetControl
<1>6. CASE HandoverPanics
      BY <1>6, DiesControl DEF HandoverPanics
<1>7. CASE HandoverTimesOut
      BY <1>7, ControlType DEF HandoverTimesOut
<1>8. CASE LockToReset(Handover, "confirmed", "finish")
      BY <1>8, LockToResetControl
<1>9. CASE HandoverEnds("finish", "offerOk", StateFinished, "finished")
      BY <1>9, ControlType DEF HandoverEnds
<1>10. CASE HandoverEnds("fail", "cancel", StateCancelled, "cancelled")
      BY <1>10, ControlType DEF HandoverEnds
<1>11. CASE Cancel(Handover, FALSE, "offerErr", "offerErr")
      BY <1>11, CancelControl
<1>12. CASE HandoverExpires
      BY <1>12, ControlType DEF HandoverExpires
<1>13. QED
      BY <1>1, <1>2, <1>3, <1>4, <1>5, <1>6, <1>7, <1>8, <1>9, <1>10, <1>11,
         <1>12
      DEF HandoverGoroutine

LEMMA NextControl == ControlOK /\ [Next]_server => ControlOK'
<1> SUFFICES ASSUME ControlOK, [Next]_server
             PROVE  ControlOK'
    OBVIOUS
<1>1. CASE TimerExpires \/ AppTakesFile \/ UNCHANGED server
      BY <1>1 DEF TimerExpires, AppTakesFile, server, vars, ControlOK
<1>2. QED
      BY <1>1, HandlerControl, CancellerControl, FinisherControl, TimerControl,
         HandoverControl
      DEF Next, UploaderGoroutines

-----------------------------------------------------------------------------
(* State, size and position.                                                 *)

LEMMA CancelNumbers ==
  ASSUME NumbersOK, NEW t, NEW tellApp, NEW ok, NEW failed,
         Cancel(t, tellApp, ok, failed)
  PROVE  NumbersOK'
BY DEF NumbersOK, Cancel, StateInit, StateCancelled, StateCleanedUp

LEMMA CleanUpNumbers ==
  ASSUME NumbersOK, NEW t, NEW next, CleanUp(t, next)
  PROVE  NumbersOK'
BY DEF NumbersOK, CleanUp, StateInit, StateCleanedUp

LEMMA HandlerNumbers ==
  ASSUME NumbersOK, NEW h \in Handlers, WebsocketHandler(h)
  PROVE  NumbersOK'
<1>1. CASE DeclareSize(h)
      BY <1>1, SizesAssumption
      DEF NumbersOK, DeclareSize, SetFileSize, StateInit, StateCleanedUp
<1>2. CASE ReceiveChunk(h)
      BY <1>2, ParametersAssumption
      DEF NumbersOK, ReceiveChunk, ConsumeFileChunk, ChunkRefused, OpenFails,
          ChunkNotWritten, ChunkWritten, MayConsume, ChunkFits, PosAfter,
          StateInit, StateUploading, StatePaused, StateCleanedUp
<1>3. CASE ReceivePause(h)
      BY <1>3 DEF NumbersOK, ReceivePause, Pause, StateInit, StateUploading,
                  StatePaused, StateCleanedUp, fileVars
<1>4. CASE HandFileToApp(h)
  <2>1. /\ state' \in {state, StateHandingOver}
        /\ UNCHANGED <<fileSize, filePos>>
        BY <1>4, Zenon DEF HandFileToApp, fileVars
  <2>2. QED
        BY <2>1 DEF NumbersOK, StateInit, StateHandingOver, StateCleanedUp
<1>5. CASE Cancel(h, TRUE, "cleanup", "cleanup")
      BY <1>5, CancelNumbers
<1>6. CASE CleanUp(h, "unbind")
      BY <1>6, CleanUpNumbers
<1>7. CASE \/ UploadRequest(h) \/ Bind(h) \/ ReadState(h) \/ DeclareName(h)
           \/ CompareSize(h) \/ Configure(h) \/ ReceivedAll(h)
           \/ ReceiveCancelOrError(h) \/ ReceiveFails(h) \/ ChunkError(h)
           \/ WaitDelivered(h) \/ WaitClosed(h) \/ WaitIgnores(h) \/ WaitLost(h)
           \/ SendError(h) \/ SendFails(h) \/ SendAllDone(h) \/ CancelTell(h) \/ CancelAnswered(h)
           \/ CancelPanics(h) \/ LockToReset(h, "answered", "cleanup")
           \/ ResetTimeout(h)
           \/ pc[h] = "unbind" /\ UnbindFromSocketHandler(h, "idle")
  <2>1. UNCHANGED <<state, fileSize, filePos>>
        BY <1>7
        DEF UploadRequest, Bind, BindToSocketHandler, ReadState, DeclareName,
            SetFileName, CompareSize, Configure, ReceivedAll,
            ReceiveCancelOrError, ReceiveFails, ChunkError, WaitDelivered,
            HandoverDelivers, WaitClosed, WaitIgnores, WaitLost, SendError, SendFails,
            SendAllDone, CancelTell, CancelAnswered, CancelPanics, LockToReset,
            ResetTimeout, UnbindFromSocketHandler, Step, fileVars
  <2>2. QED
        BY <2>1 DEF NumbersOK
<1>8. QED
      BY <1>1, <1>2, <1>3, <1>4, <1>5, <1>6, <1>7 DEF WebsocketHandler

LEMMA RequestNumbers ==
  ASSUME NumbersOK, NEW t, CancelUploadHandler(t) \/ FinishUploadHandler(t)
  PROVE  NumbersOK'
<1>1. CASE Cancel(t, FALSE, "cleanup", "idle")
      BY <1>1, CancelNumbers
<1>2. CASE CleanUp(t, "idle")
      BY <1>2, CleanUpNumbers
<1>3. CASE \/ Step(t, "idle", "secret") \/ CheckSecret(t, "cancel")
           \/ ResetTimeout(t) \/ CheckSecret(t, "signal") \/ HandoverDone(t, "idle")
           \/ HandoverConfirmed(t, "idle") \/ HandoverDoneTimesOut(t, "idle")
      BY <1>3 DEF NumbersOK, Step, CheckSecret, ResetTimeout, HandoverDone,
                  HandoverConfirmed, HandoverDoneTimesOut, fileVars
<1>4. QED
      BY <1>1, <1>2, <1>3 DEF CancelUploadHandler, FinishUploadHandler

LEMMA TimerNumbers ==
  ASSUME NumbersOK, GoHandleTimeout
  PROVE  NumbersOK'
<1>1. CASE Cancel(Timer, TRUE, "cleanup", "cleanup")
      BY <1>1, CancelNumbers
<1>2. CASE CleanUp(Timer, "select")
      BY <1>2, CleanUpNumbers
<1>3. CASE \/ TimerFires \/ TimerForbidsResets \/ ResetTimeout(Timer)
           \/ CancelTell(Timer) \/ CancelAnswered(Timer) \/ ProcessDies
           \/ LockToReset(Timer, "answered", "cleanup") \/ TimerExits
      BY <1>3 DEF NumbersOK, TimerFires, TimerForbidsResets, ResetTimeout,
                  CancelTell, CancelAnswered, ProcessDies, LockToReset,
                  TimerExits, fileVars
<1>4. QED
      BY <1>1, <1>2, <1>3 DEF GoHandleTimeout

LEMMA HandoverNumbers ==
  ASSUME NumbersOK, HandoverGoroutine
  PROVE  NumbersOK'
<1>1. CASE Cancel(Handover, FALSE, "offerErr", "offerErr")
      BY <1>1, CancelNumbers
<1>2. CASE \/ HandoverEnds("finish", "offerOk", StateFinished, "finished")
           \/ HandoverEnds("fail", "cancel", StateCancelled, "cancelled")
      BY <1>2 DEF NumbersOK, HandoverEnds, fileVars, StateInit, StateFinished,
                  StateCancelled, StateCleanedUp
<1>3. CASE \/ LockToReset(Handover, "announce", "post")
           \/ ResetTimeout(Handover) \/ HandoverPosts
           \/ \E r \in AppReplies : HandoverAnswered(r)
           \/ LockToReset(Handover, "reply", after[Handover])
           \/ HandoverPanics \/ HandoverTimesOut
           \/ LockToReset(Handover, "confirmed", "finish") \/ HandoverExpires
      BY <1>3 DEF NumbersOK, LockToReset, ResetTimeout, HandoverPosts,
                  HandoverAnswered, HandoverPanics, ProcessDies,
                  HandoverTimesOut, HandoverExpires, fileVars
<1>4. QED
      BY <1>1, <1>2, <1>3 DEF HandoverGoroutine

LEMMA NextNumbers == NumbersOK /\ [Next]_server => NumbersOK'
<1> SUFFICES ASSUME NumbersOK, [Next]_server
             PROVE  NumbersOK'
    OBVIOUS
<1>1. CASE TimerExpires \/ AppTakesFile \/ UNCHANGED server
      BY <1>1 DEF TimerExpires, AppTakesFile, server, vars, fileVars, NumbersOK
<1>2. QED
      BY <1>1, HandlerNumbers, RequestNumbers, TimerNumbers, HandoverNumbers
      DEF Next, UploaderGoroutines

-----------------------------------------------------------------------------
(* Requests sent and flags.                                                  *)

\* Only the two POSTs change the counters.
LEMMA NextCounters == CountersOK /\ [Next]_server => CountersOK'
<1> SUFFICES ASSUME CountersOK, [Next]_server
             PROVE  CountersOK'
    OBVIOUS
<1>1. CASE \E t \in Threads : CancelTell(t)
      BY <1>1 DEF CountersOK, CancelTell
<1>2. CASE HandoverPosts
      BY <1>2 DEF CountersOK, HandoverPosts
<1>3. CASE UNCHANGED posts
      BY <1>3 DEF CountersOK
<1>4. ASSUME NEW h \in Handlers, WebsocketHandler(h)
      PROVE  (\E t \in Threads : CancelTell(t)) \/ UNCHANGED posts
      BY <1>4
      DEF WebsocketHandler, UploadRequest, Bind, BindToSocketHandler, ReadState,
          DeclareSize, SetFileSize, DeclareName, SetFileName, CompareSize,
          Configure, ReceivedAll, ReceiveChunk, ConsumeFileChunk, ReceivePause,
          Pause, ReceiveCancelOrError, ReceiveFails, ChunkError, HandFileToApp,
          WaitDelivered, HandoverDelivers, WaitClosed, WaitIgnores, WaitLost, SendError,
          SendFails, SendAllDone, Cancel, CancelAnswered, CancelPanics,
          LockToReset, CleanUp, ResetTimeout, UnbindFromSocketHandler, Step,
          Threads, Requests
<1>5. ASSUME NEW t, CancelUploadHandler(t) \/ FinishUploadHandler(t)
      PROVE  UNCHANGED posts
      BY <1>5
      DEF CancelUploadHandler, FinishUploadHandler, Step, CheckSecret, Cancel,
          CleanUp, ResetTimeout, HandoverDone, HandoverConfirmed,
          HandoverDoneTimesOut
<1>6. ASSUME GoHandleTimeout
      PROVE  (\E t \in Threads : CancelTell(t)) \/ UNCHANGED posts
      BY <1>6
      DEF GoHandleTimeout, TimerFires, TimerForbidsResets, Cancel, ResetTimeout,
          CancelAnswered, ProcessDies, LockToReset, CleanUp, TimerExits, Threads
<1>7. ASSUME HandoverGoroutine
      PROVE  HandoverPosts \/ UNCHANGED posts
      BY <1>7
      DEF HandoverGoroutine, LockToReset, ResetTimeout, HandoverAnswered,
          HandoverPanics, ProcessDies, HandoverTimesOut, HandoverEnds, Cancel,
          HandoverExpires
<1>8. QED
      BY <1>1, <1>2, <1>3, <1>4, <1>5, <1>6, <1>7
      DEF Next, UploaderGoroutines, TimerExpires, AppTakesFile, server, vars

LEMMA SharedFlags ==
  ASSUME FlagsOK, UNCHANGED allDone, NEW t,
         \/ \E from, next : LockToReset(t, from, next) \/ Step(t, from, next)
         \/ ResetTimeout(t)
         \/ \E tellApp, ok, failed : Cancel(t, tellApp, ok, failed)
         \/ CancelTell(t) \/ CancelAnswered(t)
         \/ \E next : CleanUp(t, next)
  PROVE  FlagsOK'
<1>1. SwitchesOK'
  <2> USE DEF FlagsOK, SwitchesOK, fileVars, timerVars, history
  <2>1. CASE \E from, next : LockToReset(t, from, next) \/ Step(t, from, next)
        BY <2>1 DEF LockToReset, Step
  <2>2. CASE ResetTimeout(t)
        BY <2>2 DEF ResetTimeout
  <2>3. CASE \E tellApp, ok, failed : Cancel(t, tellApp, ok, failed)
    <3>1. fd' = FALSE \/ UNCHANGED fd
          BY <2>3 DEF Cancel
    <3>2. UNCHANGED <<bound, timerVars, waitClosed, inPool, accepted>>
          BY <2>3 DEF Cancel
    <3>3. QED
          BY <3>1, <3>2
  <2>4. CASE CancelTell(t) \/ CancelAnswered(t)
        BY <2>4 DEF CancelTell, CancelAnswered
  <2>5. CASE \E next : CleanUp(t, next)
        BY <2>5 DEF CleanUp, TimeoutAfterCleanUp
  <2>6. QED
        BY <2>1, <2>2, <2>3, <2>4, <2>5
<1>2. NamesOK'
      BY DEF FlagsOK, NamesOK, LockToReset, Step, ResetTimeout, Cancel,
          Unlinked, CancelTell, CancelAnswered, CleanUp, fileVars, timerVars,
          history
<1>3. QED
      BY <1>1, <1>2 DEF FlagsOK

LEMMA ChunkFlags ==
  ASSUME FlagsOK, UNCHANGED allDone, NEW t, NEW n, NEW ok, NEW failed,
         ConsumeFileChunk(t, n, ok, failed)
  PROVE  FlagsOK'
<1>1. SwitchesOK'
      BY DEF FlagsOK, SwitchesOK, ConsumeFileChunk, ChunkRefused, OpenFails,
          ChunkNotWritten, ChunkWritten, OpenedPath, OpenedDisk, OpenedFd,
          timerVars, history
<1>2. NamesOK'
      BY DEF FlagsOK, NamesOK, ConsumeFileChunk, ChunkRefused, OpenFails,
          ChunkNotWritten, ChunkWritten, OpenedPath, OpenedDisk, OpenedFd,
          timerVars, history
<1>3. QED
      BY <1>1, <1>2 DEF FlagsOK

LEMMA HandlerFlags ==
  ASSUME FlagsOK, NEW h \in Handlers, WebsocketHandler(h)
  PROVE  FlagsOK'
<1>1. ASSUME UNCHANGED allDone, NEW from, NEW next, Step(h, from, next)
      PROVE  FlagsOK'
      BY <1>1, SharedFlags
<1>2. ASSUME UNCHANGED allDone,
             \/ ResetTimeout(h) \/ Cancel(h, TRUE, "cleanup", "cleanup")
             \/ CancelTell(h) \/ CancelAnswered(h)
             \/ LockToReset(h, "answered", "cleanup") \/ CleanUp(h, "unbind")
      PROVE  FlagsOK'
      BY <1>2, SharedFlags
<1>3. CASE SendAllDone(h)
  <2>1. SwitchesOK'
        BY <1>3 DEF FlagsOK, SwitchesOK, SendAllDone, Step, fileVars,
            timerVars, history
  <2>2. NamesOK'
        BY <1>3 DEF FlagsOK, NamesOK, SendAllDone, Step, fileVars,
            timerVars, history
  <2>3. QED
        BY <2>1, <2>2 DEF FlagsOK
<1>4. ASSUME UNCHANGED allDone, ReceiveChunk(h)
      PROVE  FlagsOK'
      BY <1>4, ChunkFlags DEF ReceiveChunk
<1>5. ASSUME UNCHANGED allDone,
             \/ Bind(h) \/ DeclareSize(h) \/ DeclareName(h) \/ ReceivePause(h)
             \/ UnbindFromSocketHandler(h, "idle")
      PROVE  FlagsOK'
  <2>1. SwitchesOK'
    <3> USE DEF FlagsOK, SwitchesOK, fileVars, timerVars, history
    <3>1. CASE Bind(h) \/ UnbindFromSocketHandler(h, "idle")
          BY <1>5, <3>1 DEF Bind, BindToSocketHandler, UnbindFromSocketHandler
    <3>2. CASE DeclareSize(h) \/ DeclareName(h)
          BY <1>5, <3>2 DEF DeclareSize, SetFileSize, DeclareName, SetFileName
    <3>3. CASE ReceivePause(h)
          BY <1>5, <3>3 DEF ReceivePause, Pause, FdAfterPause
    <3>4. QED
          BY <1>5, <3>1, <3>2, <3>3
  <2>2. NamesOK'
        BY <1>5 DEF FlagsOK, NamesOK, Bind, BindToSocketHandler, DeclareSize,
            SetFileSize, DeclareName, SetFileName, ReceivePause, Pause,
            FdAfterPause, UnbindFromSocketHandler, fileVars, timerVars,
            history
  <2>3. QED
        BY <2>1, <2>2 DEF FlagsOK
<1>6. ASSUME UNCHANGED allDone, HandFileToApp(h) \/ WaitDelivered(h)
      PROVE  FlagsOK'
  <2>1. SwitchesOK'
        BY <1>6 DEF FlagsOK, SwitchesOK, HandFileToApp, WaitDelivered,
            HandoverDelivers, fileVars, timerVars, history
  <2>2. NamesOK'
        BY <1>6 DEF FlagsOK, NamesOK, HandFileToApp, WaitDelivered,
            HandoverDelivers, fileVars, timerVars, history
  <2>3. QED
        BY <2>1, <2>2 DEF FlagsOK
<1>7. QED
      BY <1>1, <1>2, <1>3, <1>4, <1>5, <1>6
      DEF WebsocketHandler, UploadRequest, ReadState, CompareSize, Configure,
          ReceivedAll, ReceiveCancelOrError, ReceiveFails, ChunkError,
          WaitClosed, WaitIgnores, WaitLost, SendError, SendFails, CancelPanics

LEMMA RequestFlags ==
  ASSUME FlagsOK, NEW t, CancelUploadHandler(t) \/ FinishUploadHandler(t)
  PROVE  FlagsOK'
<1>1. UNCHANGED allDone
      BY DEF CancelUploadHandler, FinishUploadHandler
<1>2. CASE \/ HandoverDone(t, "idle") \/ HandoverDoneTimesOut(t, "idle")
           \/ HandoverConfirmed(t, "idle")
  <2>1. SwitchesOK'
        BY <1>1, <1>2 DEF FlagsOK, SwitchesOK, HandoverDone,
            HandoverDoneTimesOut, HandoverConfirmed, fileVars, timerVars, history
  <2>2. NamesOK'
        BY <1>1, <1>2 DEF FlagsOK, NamesOK, HandoverDone,
            HandoverDoneTimesOut, HandoverConfirmed, fileVars, history
  <2>3. QED
        BY <2>1, <2>2 DEF FlagsOK
<1>3. QED
      BY <1>1, <1>2, SharedFlags
      DEF CancelUploadHandler, FinishUploadHandler, CheckSecret

LEMMA TimerFlags ==
  ASSUME FlagsOK, UNCHANGED allDone, GoHandleTimeout
  PROVE  FlagsOK'
<1>1. CASE TimerFires \/ TimerForbidsResets \/ ProcessDies \/ TimerExits
  <2>1. SwitchesOK'
        BY <1>1 DEF FlagsOK, SwitchesOK, TimerFires, TimerForbidsResets,
            ResetsAfterExpiry, ProcessDies, TimerExits, fileVars, timerVars,
            history
  <2>2. NamesOK'
        BY <1>1 DEF FlagsOK, NamesOK, TimerFires, TimerForbidsResets,
            ResetsAfterExpiry, ProcessDies, TimerExits, fileVars, timerVars,
            history
  <2>3. QED
        BY <2>1, <2>2 DEF FlagsOK
<1>2. QED
      BY <1>1, SharedFlags DEF GoHandleTimeout

LEMMA HandoverFlags ==
  ASSUME FlagsOK, UNCHANGED allDone, HandoverGoroutine
  PROVE  FlagsOK'
<1>1. CASE \/ HandoverPosts \/ \E r \in AppReplies : HandoverAnswered(r)
           \/ HandoverPanics \/ HandoverTimesOut \/ HandoverExpires
           \/ HandoverEnds("finish", "offerOk", StateFinished, "finished")
           \/ HandoverEnds("fail", "cancel", StateCancelled, "cancelled")
  <2>1. SwitchesOK'
    <3> USE DEF FlagsOK, SwitchesOK, fileVars, timerVars, history
    <3>1. CASE HandoverPosts \/ HandoverTimesOut \/ HandoverExpires
          BY <3>1 DEF HandoverPosts, HandoverTimesOut, HandoverExpires
    <3>2. CASE \E r \in AppReplies : HandoverAnswered(r)
          BY <3>2 DEF HandoverAnswered
    <3>3. CASE HandoverPanics
          BY <3>3 DEF HandoverPanics, ProcessDies
    <3>4. CASE \/ HandoverEnds("finish", "offerOk", StateFinished, "finished")
               \/ HandoverEnds("fail", "cancel", StateCancelled, "cancelled")
          BY <3>4 DEF HandoverEnds
    <3>5. QED
          BY <1>1, <3>1, <3>2, <3>3, <3>4
  <2>2. NamesOK'
        BY <1>1 DEF FlagsOK, NamesOK, HandoverPosts, HandoverAnswered,
            HandoverPanics, ProcessDies, HandoverTimesOut, HandoverExpires,
            HandoverEnds, fileVars, timerVars, history
  <2>3. QED
        BY <2>1, <2>2 DEF FlagsOK
<1>2. QED
      BY <1>1, SharedFlags DEF HandoverGoroutine

LEMMA NextFlags == FlagsOK /\ [Next]_server => FlagsOK'
<1> SUFFICES ASSUME FlagsOK, [Next]_server
             PROVE  FlagsOK'
    OBVIOUS
<1>1. CASE TimerExpires /\ UNCHANGED allDone
  <2>1. SwitchesOK'
        BY <1>1 DEF FlagsOK, SwitchesOK, TimerExpires, fileVars, history
  <2>2. NamesOK'
        BY <1>1 DEF FlagsOK, NamesOK, TimerExpires, fileVars, history
  <2>3. QED
        BY <2>1, <2>2 DEF FlagsOK
<1>2. CASE AppTakesFile
  <2>1. SwitchesOK'
        BY <1>2 DEF FlagsOK, SwitchesOK, AppTakesFile, timerVars, history
  <2>2. NamesOK'
        BY <1>2 DEF FlagsOK, NamesOK, AppTakesFile, timerVars, history
  <2>3. QED
        BY <2>1, <2>2 DEF FlagsOK
<1>3. CASE UNCHANGED server
  <2>1. SwitchesOK'
        BY <1>3 DEF FlagsOK, SwitchesOK, server, vars, fileVars, timerVars,
            history
  <2>2. NamesOK'
        BY <1>3 DEF FlagsOK, NamesOK, server, vars, fileVars, timerVars,
            history
  <2>3. QED
        BY <2>1, <2>2 DEF FlagsOK
<1>4. QED
      BY <1>1, <1>2, <1>3, HandlerFlags, RequestFlags, TimerFlags, HandoverFlags
      DEF Next, UploaderGoroutines

-----------------------------------------------------------------------------
LEMMA TypeInvInit == Init => TypeInv
<1> SUFFICES ASSUME Init
             PROVE  TypeInv
    OBVIOUS
<1>1. ControlOK
      BY DEF Init, ControlOK, Labels
<1>2. NumbersOK
  <2>1. state = 0 /\ filePos = 0 /\ fileSize = 0
        BY DEF Init, StateInit
  <2>2. QED
        BY <2>1 DEF NumbersOK, StateInit, StateCleanedUp
<1>3. CountersOK
      BY DEF Init, CountersOK
<1>4. FlagsOK
      BY DEF Init, FlagsOK, SwitchesOK, NamesOK
<1>5. QED
      BY <1>1, <1>2, <1>3, <1>4 DEF TypeInv

LEMMA TypeInvStep == TypeInv /\ [Next]_server => TypeInv'
BY NextControl, NextNumbers, NextCounters, NextFlags DEF TypeInv

LEMMA TypeInvIsType == TypeInv => TypeOK
BY DEF TypeInv, TypeOK, ControlOK, NumbersOK, CountersOK, FlagsOK,
       SwitchesOK, NamesOK

LEMMA AlwaysTypeInv == Spec => []TypeInv
BY TypeInvInit, TypeInvStep, PTL DEF Spec

\* Every variable keeps its type; in particular what is stored of a file never
\* exceeds the declared size, whatever sizes the connections of an upload
\* declare one after the other (to_local_file.go:245, 335).
THEOREM UploadTypeCorrect == Spec => []TypeOK
BY AlwaysTypeInv, TypeInvIsType, PTL

=============================================================================
