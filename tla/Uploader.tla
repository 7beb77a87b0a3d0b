------------------------------- MODULE Uploader -------------------------------
(***************************************************************************)
(* upload/to_local_file.go: one UploadToLocalFile object, at the grain of  *)
(* its two locks and its channels.                                         *)
(*                                                                         *)
(* A goroutine is a thread with a program counter pc[t].  A method that    *)
(* takes u.lock is one step up to the point where it may block while it    *)
(* still holds the lock, which is always resetTimeout: the body of the     *)
(* method runs, the lock is kept, pc[t] becomes "reset" and after[t] says  *)
(* where the thread goes on once resetTimeout has returned.  A critical    *)
(* section of u.lock_state never blocks and never encloses another lock,   *)
(* so it is part of the step around it; the methods that take only         *)
(* lock_state (GetState, HandFileToApp, HandoverDone and the end of the    *)
(* handover goroutine) do not wait for u.lock here either.                 *)
(*                                                                         *)
(* The clock is left out: a timer that is armed may expire at any time.    *)
(* A chunk is its length, the stored file is the name it has on disk.      *)
(***************************************************************************)
EXTENDS Integers

CONSTANTS
  Handlers,     \* goroutines that run websocketHandler
  Cancellers,   \* goroutines that run CancelUploadHandler
  Finishers,    \* goroutines that run FinishUploadHandler
  Timer,        \* the goroutine goHandleTimeout
  Handover,     \* the goroutine that HandFileToApp starts
  NoThread,     \* u.lock is free
  ChunkSizes,   \* lengths of the chunks a browser may send
  AppReplies,   \* what the app backend may answer to the handover request
  RemoveFileWhenFinished,
  RemoveMayFail,  \* os.Remove may fail and leave the file where it is
  TimerMayExpire  \* FALSE: no idle period ever reaches idleTimeout

Requests == Handlers \cup Cancellers \cup Finishers
Threads == Requests \cup {Timer, Handover}

ASSUME ThreadsAssumption ==
  /\ Handlers \cap Cancellers = {}
  /\ Handlers \cap Finishers = {}
  /\ Cancellers \cap Finishers = {}
  /\ Timer \notin Requests
  /\ Handover \notin Requests
  /\ Timer # Handover
  /\ NoThread \notin Threads

ASSUME ParametersAssumption ==
  /\ ChunkSizes \subseteq Nat
  /\ AppReplies \subseteq {"done", "wait", "bad", "short", "unsized"}
  /\ RemoveFileWhenFinished \in BOOLEAN
  /\ RemoveMayFail \in BOOLEAN
  /\ TimerMayExpire \in BOOLEAN

StateInit == 0
StateUploading == 1
StatePaused == 2
StateHandingOver == 3
StateCancelled == 4
StateFinished == 5
StateCleanedUp == 6

VARIABLES
  lock,             \* the thread that holds u.lock, or NoThread
  state,            \* u.state
  bound,            \* u.boundToSocketHandler
  path,             \* u.path: "" before the first chunk, then "part" or "final"
  fd,               \* u.fd # nil
  filePos,          \* u.filePos
  fileSize,         \* u.fileSize
  canResetTimeout,  \* u.canResetTimeout
  armed,            \* the runtime timer behind timer.C is running
  tick,             \* timer.C holds a tick that nobody has received
  timeoutClosed,    \* u.chHandleTimeoutClosed is closed
  waitClosed,       \* u.chHandoverWait is closed
  inPool,           \* the uploader pool maps u.id to u
  disk,             \* name of the stored file: "none", "part", "final", or
                    \* "taken" when the app backend has moved it away
  posts,            \* requests sent to signalFinishURL, by their "cancelled" field
  pc,               \* where each thread is
  after,            \* where a thread goes after resetTimeout
  outcome,          \* history: how the upload ended, "open" until it has
  accepted          \* history: the app backend has said that it has the file, by
                    \* the reply "done" or by a finish_upload answered "ok"

fileVars == <<path, fd, filePos, fileSize, disk>>
timerVars == <<canResetTimeout, armed, tick, timeoutClosed>>
history == <<outcome, accepted>>
vars == <<lock, state, bound, fileVars, timerVars, waitClosed, inPool, posts,
          pc, after, history>>

-----------------------------------------------------------------------------
(* Control.  Every step of a thread that touches neither lock nor after      *)
(* ends in Goto; a method body that ends in resetTimeout ends in KeepLock.   *)

\* A panic in a goroutine that is not an HTTP handler ends the process, and
\* with it every goroutine and the uploader pool; the file stays on disk.
ProcessDies == /\ pc' = [t \in Threads |-> "dead"]
               /\ lock' = NoThread
               /\ inPool' = FALSE
               /\ UNCHANGED <<state, bound, fileVars, timerVars, waitClosed,
                              posts, after, history>>

Goto(t, label) == /\ pc' = [pc EXCEPT ![t] = label]
                  /\ UNCHANGED <<lock, after>>

LockFree == lock = NoThread

KeepLock(t, next) == /\ lock' = t
                     /\ pc' = [pc EXCEPT ![t] = "reset"]
                     /\ after' = [after EXCEPT ![t] = next]

\* u.lock.Lock(); u.resetTimeout(u.idleTimeout); u.lock.Unlock()
LockToReset(t, from, next) ==
  /\ pc[t] = from
  /\ LockFree
  /\ KeepLock(t, next)
  /\ UNCHANGED <<state, bound, fileVars, timerVars, waitClosed, inPool, posts, history>>

\* resetTimeout, and the Unlock that follows it in every method: it sends on
\* chResetTimeout, which goHandleTimeout receives only in its select, or
\* returns at once when resets are off or the timeout channel is closed.
ResetTimeout(t) ==
  /\ pc[t] = "reset"
  /\ \/ ~canResetTimeout /\ UNCHANGED armed
     \/ canResetTimeout /\ timeoutClosed /\ UNCHANGED armed
     \/ canResetTimeout /\ pc[Timer] = "select" /\ armed' = TRUE
  /\ lock' = NoThread
  /\ pc' = [pc EXCEPT ![t] = after[t]]
  /\ UNCHANGED <<state, bound, fileVars, canResetTimeout, tick, timeoutClosed,
                 waitClosed, inPool, posts, after, history>>

-----------------------------------------------------------------------------
(* Binding, size and name.  "ok" and "failed" are the caller's labels for a  *)
(* nil and a non-nil error.                                                  *)

BindAnyway == TRUE
MayBind == ~bound

BindToSocketHandler(t, ok, failed) ==
  /\ LockFree
  /\ IF MayBind THEN bound' = TRUE /\ KeepLock(t, ok)
                ELSE Goto(t, failed) /\ UNCHANGED bound
  /\ UNCHANGED <<state, fileVars, timerVars, waitClosed, inPool, posts, history>>

UnbindFromSocketHandler(t, next) ==
  /\ LockFree
  /\ IF bound THEN bound' = FALSE /\ KeepLock(t, next)
              ELSE Goto(t, next) /\ UNCHANGED bound
  /\ UNCHANGED <<state, fileVars, timerVars, waitClosed, inPool, posts, history>>

SetFileSize(t, size, ok, failed) ==
  /\ LockFree
  /\ IF state = StateInit THEN fileSize' = size /\ KeepLock(t, ok)
                          ELSE Goto(t, failed) /\ UNCHANGED fileSize
  /\ UNCHANGED <<state, bound, path, fd, filePos, disk, timerVars, waitClosed,
                 inPool, posts, history>>

\* The name is payload: only whether the call is accepted matters.
SetFileName(t, ok, failed) ==
  /\ LockFree
  /\ IF state = StateInit THEN KeepLock(t, ok) ELSE Goto(t, failed)
  /\ UNCHANGED <<state, bound, fileVars, timerVars, waitClosed, inPool, posts, history>>

-----------------------------------------------------------------------------
(* Chunks and pauses.  The first chunk creates the file, the first chunk     *)
(* after a pause opens it again; creating, opening, writing and renaming may *)
(* fail.  resetTimeout is deferred, so it runs on the error paths too.       *)

MayConsume == state <= StatePaused

ChunkRefused(t, failed) ==
  /\ ~MayConsume
  /\ KeepLock(t, failed)
  /\ UNCHANGED <<state, path, fd, filePos, disk>>

OpenFails(t, failed) ==
  /\ state \in {StateInit, StatePaused}
  /\ path' = IF state = StateInit THEN "part" ELSE path
  /\ KeepLock(t, failed)
  /\ UNCHANGED <<state, fd, filePos, disk>>

OpenedPath == IF state = StateInit THEN "part" ELSE path
OpenedDisk == IF state = StateInit THEN "part" ELSE disk
OpenedFd == state \in {StateInit, StatePaused} \/ fd

\* The chunk exceeds the declared size, or the write fails and is undone: the
\* file is open and the state is "uploading" all the same.
ChunkNotWritten(t, failed) ==
  /\ MayConsume
  /\ state' = StateUploading
  /\ path' = OpenedPath
  /\ disk' = OpenedDisk
  /\ fd' = OpenedFd
  /\ KeepLock(t, failed)
  /\ UNCHANGED filePos

\* The file position after a chunk: the file is open at its end, which a file
\* that has been opened again first has to be moved to.
WrittenFromStart(n) == IF state = StatePaused THEN n ELSE filePos + n
PosAfter(n) == filePos + n

AnyChunkFits(n) == n >= 0
ChunkFits(n) == filePos + n <= fileSize

\* The last chunk closes the file and renames it.
ChunkWritten(t, n, ok, failed) ==
  /\ MayConsume
  /\ ChunkFits(n)
  /\ OpenedFd
  /\ state' = StateUploading
  /\ filePos' = PosAfter(n)
  /\ fd' = (filePos' # fileSize)
  /\ \/ /\ filePos' # fileSize
        /\ path' = OpenedPath
        /\ disk' = OpenedDisk
        /\ KeepLock(t, ok)
     \/ /\ filePos' = fileSize
        /\ path' = "final"
        /\ disk' = "final"
        /\ KeepLock(t, ok)
     \/ /\ filePos' = fileSize
        /\ path' = OpenedPath
        /\ disk' = OpenedDisk
        /\ KeepLock(t, failed)

ConsumeFileChunk(t, n, ok, failed) ==
  /\ LockFree
  /\ \/ ChunkRefused(t, failed)
     \/ OpenFails(t, failed)
     \/ ChunkNotWritten(t, failed)
     \/ ChunkWritten(t, n, ok, failed)
  /\ UNCHANGED <<bound, fileSize, timerVars, waitClosed, inPool, posts, history>>

PauseLeavesFileOpen == fd
FdAfterPause == FALSE

Pause(t, next) ==
  /\ LockFree
  /\ IF state \in {StateUploading, StatePaused}
     THEN state' = StatePaused /\ fd' = FdAfterPause /\ KeepLock(t, next)
     ELSE Goto(t, next) /\ UNCHANGED <<state, fd>>
  /\ UNCHANGED <<bound, path, filePos, fileSize, disk, timerVars, waitClosed,
                 inPool, posts, history>>

-----------------------------------------------------------------------------
(* Cancel and CleanUp.                                                       *)

\* os.Remove(u.path): nothing happens when that name is not on disk, or when it
\* fails; its callers go on all the same.
FileKept == {disk}
Unlinked == {IF disk = path THEN "none" ELSE disk}
            \cup (IF RemoveMayFail THEN {disk} ELSE {})

CancelDuringHandover == state <= StateHandingOver
MayCancel == state < StateHandingOver

\* Under u.lock: decide, close and delete the file, reset the timeout.  With
\* tellApp the thread goes on at "tell".
Cancel(t, tellApp, ok, failed) ==
  /\ pc[t] = "cancel"
  /\ LockFree
  /\ IF MayCancel
     THEN /\ state' = StateCancelled
          /\ outcome' = "cancelled"
          /\ fd' = FALSE
          /\ disk' \in Unlinked
          /\ KeepLock(t, IF tellApp /\ state # StateCancelled THEN "tell" ELSE ok)
     ELSE /\ Goto(t, failed)
          /\ UNCHANGED <<state, outcome, fd, disk>>
  /\ UNCHANGED <<bound, path, filePos, fileSize, timerVars, waitClosed, inPool,
                 posts, accepted>>

\* The POST to signalFinishURL, without u.lock.  Its answer, an error or a
\* timeout make no difference to what follows, but see ReplyPanics.
CancelTell(t) ==
  /\ pc[t] = "tell"
  /\ posts' = [posts EXCEPT !.cancelled = @ + 1]
  /\ Goto(t, "told")
  /\ UNCHANGED <<state, bound, fileVars, timerVars, waitClosed, inPool, history>>

\* make([]byte, resp.ContentLength) with a ContentLength of -1: the reply came
\* without a Content-Length.
ReplyPanics(t) == pc[t] = "told" /\ "unsized" \in AppReplies

CancelAnswered(t) ==
  /\ pc[t] = "told"
  /\ Goto(t, "answered")
  /\ UNCHANGED <<state, bound, fileVars, timerVars, waitClosed, inPool, posts, history>>

CleanUpEarly == state >= StateHandingOver /\ state # StateCleanedUp
MayCleanUp == state > StateHandingOver /\ state # StateCleanedUp

TimeoutLeftOpen == timeoutClosed
TimeoutAfterCleanUp == TRUE

\* pool.Remove, the final state and the close of chHandleTimeoutClosed all
\* happen under u.lock.
CleanUp(t, next) ==
  /\ pc[t] = "cleanup"
  /\ LockFree
  /\ IF MayCleanUp
     THEN /\ disk' \in IF RemoveFileWhenFinished /\ state # StateCancelled
                       THEN Unlinked ELSE {disk}
          /\ state' = StateCleanedUp
          /\ inPool' = FALSE
          /\ timeoutClosed' = TimeoutAfterCleanUp
     ELSE UNCHANGED <<disk, state, inPool, timeoutClosed>>
  /\ Goto(t, next)
  /\ UNCHANGED <<bound, path, fd, filePos, fileSize, canResetTimeout, armed, tick,
                 waitClosed, posts, history>>

-----------------------------------------------------------------------------
(* goHandleTimeout.  timer.C has room for one tick; Reset of a timer that    *)
(* has expired does not take the tick back out of it (Go before 1.23).       *)

TimerExpires ==
  /\ TimerMayExpire
  /\ armed
  /\ pc[Timer] \notin {"exited", "dead"}   \* afterwards nobody reads the tick
  /\ armed' = FALSE
  /\ tick' = TRUE
  /\ UNCHANGED <<lock, state, bound, fileVars, canResetTimeout, timeoutClosed,
                 waitClosed, inPool, posts, pc, after, history>>

TimerFires ==
  /\ pc[Timer] = "select"
  /\ tick
  /\ tick' = FALSE
  /\ Goto(Timer, "fired")
  /\ UNCHANGED <<state, bound, fileVars, canResetTimeout, armed, timeoutClosed,
                 waitClosed, inPool, posts, history>>

ResetsStayAllowed == TRUE
ResetsAfterExpiry == FALSE

TimerForbidsResets ==
  /\ pc[Timer] = "fired"
  /\ LockFree
  /\ canResetTimeout' = ResetsAfterExpiry
  /\ Goto(Timer, "cancel")
  /\ UNCHANGED <<state, bound, fileVars, armed, tick, timeoutClosed,
                 waitClosed, inPool, posts, history>>

TimerExits ==
  /\ pc[Timer] = "select"
  /\ timeoutClosed
  /\ Goto(Timer, "exited")
  /\ UNCHANGED <<state, bound, fileVars, timerVars, waitClosed, inPool, posts, history>>

GoHandleTimeout ==
  \/ TimerFires
  \/ TimerForbidsResets
  \/ Cancel(Timer, TRUE, "cleanup", "cleanup")
  \/ ResetTimeout(Timer)
  \/ CancelTell(Timer)
  \/ CancelAnswered(Timer)
  \/ ReplyPanics(Timer) /\ ProcessDies
  \/ LockToReset(Timer, "answered", "cleanup")
  \/ CleanUp(Timer, "select")
  \/ TimerExits

-----------------------------------------------------------------------------
(* HandFileToApp and the goroutine it starts, HandoverDone.                  *)

HandOverTwice == state <= StateHandingOver
MayHandOver == state < StateHandingOver

\* The channel is read under u.lock.RLock, the decision is made under
\* lock_state alone; the caller goes on at "wait" with the channel.
HandFileToApp(t) ==
  \/ /\ pc[t] = "handover"
     /\ LockFree
     /\ Goto(t, "start handover")
     /\ UNCHANGED <<state, bound, fileVars, timerVars, waitClosed, inPool, posts, history>>
  \/ /\ pc[t] = "start handover"
     /\ IF MayHandOver
        THEN /\ state' = StateHandingOver
             /\ pc' = [pc EXCEPT ![t] = "wait", ![Handover] = "announce"]
             /\ UNCHANGED <<lock, after>>
        ELSE Goto(t, "wait") /\ UNCHANGED state
     /\ UNCHANGED <<bound, fileVars, timerVars, waitClosed, inPool, posts, history>>

HandoverPosts ==
  /\ pc[Handover] = "post"
  /\ posts' = [posts EXCEPT !.handed = @ + 1]
  /\ Goto(Handover, "posted")
  /\ UNCHANGED <<state, bound, fileVars, timerVars, waitClosed, inPool, history>>

\* "bad" stands for an error, a timeout, a status other than 200 and a body
\* that is neither "done" nor "wait"; respBody[0:4] panics on a body of fewer
\* than four bytes ("short") or of unknown length ("unsized").
AfterReply(r) == CASE r = "done" -> "finish"
                   [] r = "wait" -> "await"
                   [] r = "bad" -> "fail"
                   [] r \in {"short", "unsized"} -> "panic"

HandoverAnswered(r) ==
  /\ pc[Handover] = "posted"
  /\ pc' = [pc EXCEPT ![Handover] = "reply"]
  /\ after' = [after EXCEPT ![Handover] = AfterReply(r)]
  /\ accepted' = (accepted \/ r = "done")
  /\ UNCHANGED <<lock, state, bound, fileVars, timerVars, waitClosed, inPool,
                 posts, outcome>>

HandoverPanics == pc[Handover] = "panic" /\ ProcessDies

\* The app backend has asked for time ("wait") and its finish_upload request f
\* meets the handover goroutine on chHandoverDone.
HandoverConfirmed(f, ok) ==
  /\ pc[f] = "confirm"
  /\ pc[Handover] = "await"
  /\ pc' = [pc EXCEPT ![f] = ok, ![Handover] = "confirmed"]
  /\ accepted' = TRUE
  /\ UNCHANGED <<lock, state, bound, fileVars, timerVars, waitClosed, inPool,
                 posts, after, outcome>>

HandoverWaitsForEver == FALSE

HandoverTimesOut ==
  /\ pc[Handover] = "await"
  /\ Goto(Handover, "fail")
  /\ UNCHANGED <<state, bound, fileVars, timerVars, waitClosed, inPool, posts, history>>

\* The end state is set whatever the state is by now.
HandoverEnds(from, next, endState, end) ==
  /\ pc[Handover] = from
  /\ state' = endState
  /\ outcome' = end
  /\ Goto(Handover, next)
  /\ UNCHANGED <<bound, fileVars, timerVars, waitClosed, inPool, posts, accepted>>

\* The result goes to a handler that waits on the channel, or to nobody once
\* idleTimeout has passed; then the channel is closed.
HandoverDelivers(h, label, next) ==
  /\ pc[Handover] = label
  /\ pc[h] = "wait"
  /\ pc' = [pc EXCEPT ![Handover] = "ended", ![h] = next]
  /\ waitClosed' = TRUE
  /\ UNCHANGED <<lock, state, bound, fileVars, timerVars, inPool, posts, after, history>>

HandoverExpires ==
  /\ pc[Handover] \in {"offerOk", "offerErr"}
  /\ Goto(Handover, "ended")
  /\ waitClosed' = TRUE
  /\ UNCHANGED <<state, bound, fileVars, timerVars, inPool, posts, history>>

\* The steps of the handover goroutine in which no other thread takes part.
HandoverGoroutine ==
  \/ LockToReset(Handover, "announce", "post")
  \/ ResetTimeout(Handover)
  \/ HandoverPosts
  \/ \E r \in AppReplies : HandoverAnswered(r)
  \/ LockToReset(Handover, "reply", after[Handover])
  \/ HandoverPanics
  \/ HandoverTimesOut
  \/ LockToReset(Handover, "confirmed", "finish")
  \/ HandoverEnds("finish", "offerOk", StateFinished, "finished")
  \/ HandoverEnds("fail", "cancel", StateCancelled, "cancelled")
  \/ Cancel(Handover, FALSE, "offerErr", "offerErr")
  \/ HandoverExpires

\* HandoverDone looks at the state, then offers the confirmation for a second.
HandoverDone(f, failed) ==
  /\ pc[f] = "signal"
  /\ Goto(f, IF state = StateHandingOver THEN "confirm" ELSE failed)
  /\ UNCHANGED <<state, bound, fileVars, timerVars, waitClosed, inPool, posts, history>>

HandoverDoneWaits(f, failed) == FALSE

HandoverDoneTimesOut(f, failed) ==
  /\ pc[f] = "confirm"
  /\ Goto(f, failed)
  /\ UNCHANGED <<state, bound, fileVars, timerVars, waitClosed, inPool, posts, history>>

=============================================================================
