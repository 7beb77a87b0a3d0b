----------------------------- MODULE UploadServer -----------------------------
(***************************************************************************)
(* The server around one upload: websocketHandler (websocket.go) in as     *)
(* many goroutines as there are connections for the upload's id, the       *)
(* handlers of cancel_upload and finish_upload (incoming_httpserver.go),   *)
(* the uploader's own two goroutines and the app backend's hand on the     *)
(* stored file.  The methods of the uploader are those of Uploader; this   *)
(* module says who calls them, in which order, and what follows an error.  *)
(*                                                                         *)
(* The browser is not trusted to follow its own protocol: at every point   *)
(* where a handler reads, the message may be any that the handler tells    *)
(* apart, or the connection may be gone.  A thread that is "idle" is ready *)
(* for another connection or request.                                      *)
(***************************************************************************)
EXTENDS Uploader

CONSTANT Sizes  \* file sizes a browser may declare

ASSUME SizesAssumption == Sizes \subseteq Int  \* nobody refuses a negative one

VARIABLE allDone  \* history: a browser has been sent MsgAllDone

server == <<vars, allDone>>

SessionLabels ==
  {"getstate", "setsize", "setname", "checksize", "conf", "loop", "recv",
   "chunkErr", "handover", "start handover", "wait", "final", "cancel", "tell",
   "told", "answered", "cleanup", "unbind"}

Labels == SessionLabels \cup
  {"idle", "bind", "reset", "secret", "signal", "confirm", "select", "fired",
   "exited", "none", "announce", "post", "posted", "reply", "panic", "await",
   "confirmed", "finish", "fail", "offerOk", "offerErr", "ended", "dead"}

Init ==
  /\ lock = NoThread
  /\ state = StateInit
  /\ bound = FALSE
  /\ path = "" /\ fd = FALSE /\ filePos = 0 /\ fileSize = 0
  /\ canResetTimeout = TRUE /\ armed = TRUE /\ tick = FALSE
  /\ timeoutClosed = FALSE /\ waitClosed = FALSE
  /\ inPool = TRUE
  /\ disk = "none"
  /\ posts = [handed |-> 0, cancelled |-> 0]
  /\ pc = [t \in Threads |-> IF t = Timer THEN "select"
                             ELSE IF t = Handover THEN "none" ELSE "idle"]
  /\ after = [t \in Threads |-> "idle"]
  /\ outcome = "open" /\ accepted = FALSE
  /\ allDone = FALSE

-----------------------------------------------------------------------------
(* websocketHandler.  Every return after a successful bind runs the deferred *)
(* UnbindFromSocketHandler, which is label "unbind".                         *)

\* A thread moves on and nothing else changes.
Step(t, from, next) ==
  /\ pc[t] = from
  /\ Goto(t, next)
  /\ UNCHANGED <<state, bound, fileVars, timerVars, waitClosed, inPool, posts, history>>

\* MsgUploadReq for an id that the pool knows; for one it does not know the
\* handler answers and returns.
UploadRequest(h) == inPool /\ Step(h, "idle", "bind")

Bind(h) == pc[h] = "bind" /\ BindToSocketHandler(h, "getstate", "idle")

\* The state is read once; what the handler does with it comes later.
ReadState(h) == Step(h, "getstate", IF state = StateInit THEN "setsize"
                                    ELSE IF state < StateCancelled THEN "checksize"
                                    ELSE "unbind")

DeclareSize(h) == /\ pc[h] = "setsize"
                  /\ \E size \in Sizes : SetFileSize(h, size, "setname", "unbind")

DeclareName(h) == pc[h] = "setname" /\ SetFileName(h, "conf", "unbind")

CompareSize(h) == /\ LockFree
                  /\ \E size \in Sizes :
                       Step(h, "checksize", IF size = fileSize THEN "conf" ELSE "unbind")

\* GetFilePos, the upload configuration and the browser's ack.
Configure(h) == LockFree /\ \E next \in {"loop", "unbind"} : Step(h, "conf", next)

AlmostReceived == filePos + 1 >= fileSize
AllReceived == filePos = fileSize

ReceivedAll(h) == LockFree /\ Step(h, "loop", IF AllReceived THEN "handover" ELSE "recv")

\* A message of the browser, or an error of the connection.
ReceiveChunk(h) == /\ pc[h] = "recv"
                   /\ \E n \in ChunkSizes : ConsumeFileChunk(h, n, "loop", "chunkErr")
ReceivePause(h) == pc[h] = "recv" /\ Pause(h, "loop")
ReceiveCancelOrError(h) == Step(h, "recv", "cancel")
ReceiveFails(h) == Step(h, "recv", "unbind")

ChunkError(h) == Step(h, "chunkErr", IF state # StateCancelled THEN "cancel" ELSE "unbind")

\* While the file is handed over: the result, the closed channel, which reads
\* as "no error", a message, which sends the loop round again and gives the next
\* read a new deadline, or the end of the connection.
WaitDelivered(h) == \/ HandoverDelivers(h, "offerOk", "final")
                    \/ HandoverDelivers(h, "offerErr", "unbind")
WaitClosed(h) == waitClosed /\ Step(h, "wait", "final")
WaitOnChannelOnly(h) == waitClosed /\ Step(h, "wait", "unbind")
WaitIgnores(h) == Step(h, "wait", "wait")
WaitLost(h) == Step(h, "wait", "unbind")

\* GetState, then MsgAllDone or MsgError; the send may fail.
SendAllDone(h) == /\ state = StateFinished
                  /\ Step(h, "final", "cleanup")
                  /\ allDone' = TRUE
SendError(h) == /\ state # StateFinished
                /\ Step(h, "final", "cleanup")
SendFails(h) == Step(h, "final", "unbind")

\* net/http recovers the panic of a handler and the deferred calls run.
CancelPanics(h) == ReplyPanics(h) /\ Step(h, "told", "unbind")

WebsocketHandler(h) ==
  \/ /\ \/ UploadRequest(h) \/ Bind(h) \/ ReadState(h) \/ DeclareSize(h)
        \/ DeclareName(h) \/ CompareSize(h) \/ Configure(h) \/ ReceivedAll(h)
        \/ ReceiveChunk(h) \/ ReceivePause(h) \/ ReceiveCancelOrError(h)
        \/ ReceiveFails(h) \/ ChunkError(h) \/ HandFileToApp(h)
        \/ WaitDelivered(h) \/ WaitClosed(h) \/ WaitIgnores(h) \/ WaitLost(h)
        \/ SendError(h) \/ SendFails(h)
        \/ Cancel(h, TRUE, "cleanup", "cleanup") \/ CancelTell(h)
        \/ CancelAnswered(h) \/ CancelPanics(h)
        \/ LockToReset(h, "answered", "cleanup") \/ CleanUp(h, "unbind")
        \/ ResetTimeout(h)
        \/ pc[h] = "unbind" /\ UnbindFromSocketHandler(h, "idle")
     /\ UNCHANGED allDone
  \/ SendAllDone(h)

-----------------------------------------------------------------------------
(* cancel_upload and finish_upload.                                          *)

\* GetBackendSecret takes u.lock; the secret is right or wrong.
CheckSecret(t, next) == LockFree /\ \E to \in {next, "idle"} : Step(t, "secret", to)

CancelUploadHandler(c) ==
  /\ \/ inPool /\ Step(c, "idle", "secret")
     \/ CheckSecret(c, "cancel")
     \/ Cancel(c, FALSE, "cleanup", "idle")
     \/ ResetTimeout(c)
     \/ CleanUp(c, "idle")
  /\ UNCHANGED allDone

FinishUploadHandler(f) ==
  /\ \/ inPool /\ Step(f, "idle", "secret")
     \/ CheckSecret(f, "signal")
     \/ HandoverDone(f, "idle")
     \/ HandoverConfirmed(f, "idle")
     \/ HandoverDoneTimesOut(f, "idle")
  /\ UNCHANGED allDone

\* The app backend moves the file away once it has been told where it is.
AppTakesFile ==
  /\ posts.handed > 0
  /\ disk = "final"
  /\ disk' = "taken"
  /\ UNCHANGED <<lock, state, bound, path, fd, filePos, fileSize, timerVars,
                 waitClosed, inPool, posts, pc, after, history, allDone>>

UploaderGoroutines == /\ TimerExpires \/ GoHandleTimeout \/ HandoverGoroutine
                      /\ UNCHANGED allDone

Next ==
  \/ \E h \in Handlers : WebsocketHandler(h)
  \/ \E c \in Cancellers : CancelUploadHandler(c)
  \/ \E f \in Finishers : FinishUploadHandler(f)
  \/ UploaderGoroutines
  \/ AppTakesFile

Spec == Init /\ [][Next]_server

(***************************************************************************)
(* Fairness.  A goroutine that can run does run, and one that waits for    *)
(* u.lock gets it although others come and go: sync.Mutex hands itself to  *)
(* the waiter after a millisecond.  A read of the socket ends with a       *)
(* message or at its deadline, requests to the app backend and waits for   *)
(* it have timeouts, so a thread that waits for one of them goes on as     *)
(* well.  Nothing is assumed of the browser and the app backend: no        *)
(* request has to come, TimerExpires need not happen, and a browser whose  *)
(* session waits for the handover may send something before each deadline, *)
(* so that WaitLost does not happen.                                       *)
(***************************************************************************)
Fairness ==
  /\ \A h \in Handlers :
       SF_server(pc[h] # "idle" /\ WebsocketHandler(h) /\ ~WaitLost(h))
  /\ \A c \in Cancellers : SF_server(pc[c] # "idle" /\ CancelUploadHandler(c))
  /\ \A f \in Finishers : SF_server(pc[f] # "idle" /\ FinishUploadHandler(f))
  /\ SF_server(GoHandleTimeout /\ UNCHANGED allDone)
  /\ SF_server(HandoverGoroutine /\ UNCHANGED allDone)

FairSpec == Spec /\ Fairness

-----------------------------------------------------------------------------
(* Invariants.                                                               *)

\* Every variable has its type, and the file never grows past its size.
TypeOK ==
  /\ lock \in Threads \cup {NoThread}
  /\ state \in StateInit..StateCleanedUp
  /\ bound \in BOOLEAN
  /\ path \in {"", "part", "final"}
  /\ fd \in BOOLEAN
  /\ fileSize \in Int
  /\ filePos \in Nat /\ (filePos > 0 => filePos <= fileSize)
  /\ canResetTimeout \in BOOLEAN /\ armed \in BOOLEAN /\ tick \in BOOLEAN
  /\ timeoutClosed \in BOOLEAN /\ waitClosed \in BOOLEAN
  /\ inPool \in BOOLEAN
  /\ disk \in {"none", "part", "final", "taken"}
  /\ posts \in [handed : Nat, cancelled : Nat]
  /\ pc \in [Threads -> Labels]
  /\ after \in [Threads -> Labels]
  /\ outcome \in {"open", "finished", "cancelled"}
  /\ accepted \in BOOLEAN
  /\ allDone \in BOOLEAN

Alive == \A t \in Threads : pc[t] # "dead"

\* From the successful bind to the unbind.
InSession(h) == \/ pc[h] \in SessionLabels
                \/ pc[h] = "reset" /\ after[h] \in SessionLabels

\* At most one connection works on an upload, and the upload is bound exactly
\* while one does: no return path of websocketHandler, no error and no panic
\* leaves it bound for good (websocket.go:294-302).
OneHandler ==
  /\ \A h, g \in Handlers : InSession(h) /\ InSession(g) => h = g
  /\ Alive => (bound <=> \E h \in Handlers : InSession(h))

\* The app backend gets one request for an upload: that the file is there, or
\* that the upload is cancelled, and never both, although connections, the
\* timer and the backend's own cancel request race for it.
AppToldOnce == posts.handed + posts.cancelled <= 1

\* A file is announced only when it is complete and has its final name.
CompleteBeforeHandover ==
  posts.handed > 0 => filePos = fileSize /\ (fileSize > 0 => path = "final")

\* From the announcement until the app backend has said that it has the file,
\* or the handover goroutine has given up, nobody deletes it: not a cancel
\* request, not the timer, not the clean-up of another connection.
FileThereDuringHandover ==
  (/\ posts.handed > 0 /\ ~accepted /\ fileSize > 0
   /\ pc[Handover] \in {"posted", "reset", "reply", "await"})
    => disk \in {"final", "taken"}

\* A backend that has accepted the file will not find the upload cancelled,
\* and a browser is told "all done" only of a file that was accepted.
AcceptedMeansFinished ==
  /\ accepted => outcome # "cancelled"
  /\ allDone => accepted /\ outcome = "finished"

\* The file is open exactly while chunks are expected: no pause, cancel, error
\* or last chunk leaks the descriptor, and no chunk meets a closed file.
FileOpenIffReceiving == fd <=> (state = StateUploading /\ filePos # fileSize)

HandoverFailed == outcome = "cancelled" /\ posts.handed > 0

\* A cleaned up upload has no open descriptor, and it leaves nothing on disk unless
\* the backend asked to keep the file, the handover failed (see
\* FailedHandoverDeletesFile), or os.Remove fails.
CleanedUpLeavesNoFile ==
  state = StateCleanedUp =>
    /\ ~fd
    /\ (/\ ~HandoverFailed
        /\ outcome = "finished" => RemoveFileWhenFinished
        /\ ~RemoveMayFail) => disk \in {"none", "taken"}

\* Closing a closed channel panics.  CleanUp closes chHandleTimeoutClosed and
\* the handover goroutine closes the channel it returns results on; the
\* goroutine sets the state without looking at it, and must not bring an
\* upload back that has been cleaned up.
ChannelsClosedOnce ==
  /\ timeoutClosed => ~MayCleanUp
  /\ waitClosed => pc[Handover] \in {"ended", "dead"}

\* The timeout goroutine cancels the upload itself; it is the only receiver of
\* chResetTimeout, so the resets inside its own Cancel must not send.
TimerNeverWaitsForItself == pc[Timer] = "reset" => ~canResetTimeout

-----------------------------------------------------------------------------
(* Action properties.                                                        *)

\* An upload ends once: whatever Cancel, the handover goroutine and their late
\* steps do, the first outcome stays.
EndsOnce == [][outcome # "open" => outcome' = outcome]_server

\* What an upload has received is not lost by a pause, a lost connection or a
\* second connection: the position never goes back, and once the first chunk
\* has come no connection can change the declared size under it.
ProgressIsKept == [][filePos' >= filePos /\ (filePos > 0 => fileSize' = fileSize)]_server

-----------------------------------------------------------------------------
(* Liveness, under FairSpec.                                                 *)

\* A handover that has started ends, and everyone who waits on its channel gets
\* to know.
HandoverConcludes == pc[Handover] = "announce" ~> waitClosed

\* A session that waits for a handover comes to its end and unbinds, whatever its
\* browser goes on to send.  One whose upload was cancelled between its last chunk
\* and HandFileToApp waits on a channel that nobody will close
\* (to_local_file.go:404): it ends if its browser falls silent or goes, so that a
\* read reaches its deadline (websocket.go:155, 498), and leaves the upload to the
\* next session.
FallsSilent(h) == SF_server(WaitLost(h) /\ UNCHANGED allDone)

WaitingSessionEnds ==
  \A h \in Handlers :
    /\ pc[h] = "wait" /\ pc[Handover] # "none" ~> pc[h] = "idle"
    /\ FallsSilent(h) => (pc[h] = "wait" ~> pc[h] = "idle")

\* A cancel_upload or finish_upload request is answered.
RequestsAnswered ==
  \A t \in Cancellers \cup Finishers : pc[t] = "secret" ~> pc[t] = "idle"

\* An upload that was cancelled before its handover is cleaned up, and with it
\* goes its timeout goroutine, if the answer to the request about the cancellation
\* has a Content-Length: without one Cancel panics before its caller comes to
\* CleanUp (to_local_file.go:589, websocket.go:427-429).
AnswersAreSized == "unsized" \notin AppReplies

CancelledIsCleanedUp ==
  AnswersAreSized =>
    (outcome = "cancelled" /\ ~HandoverFailed ~> pc[Timer] = "exited")

-----------------------------------------------------------------------------
(* What the upload promises the app backend.                                 *)

Phase == IF state = StateHandingOver THEN "handing" ELSE outcome

Told == IF posts.handed > 0 THEN "file"
        ELSE IF posts.cancelled > 0 THEN "cancelled" ELSE "nothing"

Outcome == INSTANCE UploadOutcome WITH
             phase <- Phase, told <- Told, gone <- (state = StateCleanedUp)

\* Every step of the server is a step the promise allows, or none.
KeepsPromise == Outcome!OutcomeSpec

\* What the upload is to its browser: the threads, however they interleave, do to
\* it what UploadLife allows, and Transfer relies on (websocket.go:382,
\* to_local_file.go:366-383, 404).
LifePhase == IF accepted THEN "accepted"
             ELSE IF state = StateHandingOver THEN "handed"
             ELSE IF outcome = "open" THEN "open" ELSE "failed"

Life == INSTANCE UploadLife WITH
          size <- fileSize, received <- filePos, phase <- LifePhase, told <- allDone

FollowsLife == Life!LifeSpec

=============================================================================
