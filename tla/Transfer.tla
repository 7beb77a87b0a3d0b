------------------------------- MODULE Transfer -------------------------------
(***************************************************************************)
(* An upload from end to end: the browser library (JsUploader), the        *)
(* connections it opens, and the server as they see it: for every socket a *)
(* session of websocketHandler (websocket.go), and one upload.  A session  *)
(* takes one message at a time and one step for it, because UploadServer   *)
(* has the threads and locks behind a message; here the subject is which   *)
(* bytes arrive, what is acknowledged, and who learns how it ended, while  *)
(* connections are lost and come back, timeouts come early, the user       *)
(* pauses and cancels, and the server restarts.                            *)
(***************************************************************************)
EXTENDS JsUploader, FiniteSets

CONSTANTS
  MaxTimers,      \* bound: retry timers that may be pending at once
  MaxLosses,      \* bound: connections that may be lost
  UserActs,       \* what the user does: "cancel" (or a chunk cannot be read),
                  \* "pause" (and unpause), "hurry": unpause before the paused
                  \* socket has closed, and "anytime": whatever can_pause says
  LoadsAreShort   \* a chunk that loads is loaded before the library starts again

ASSUME TransferAssumption ==
  /\ MaxTimers \in Nat /\ MaxLosses \in Nat
  /\ UserActs \subseteq {"cancel", "pause", "hurry", "anytime"}
  /\ "anytime" \in UserActs => "hurry" \in UserActs
  /\ LoadsAreShort \in BOOLEAN

VARIABLES
  session,   \* by socket: "none", or what its handler waits for: "request",
             \* "ack", "chunks" or, while the file is handed over, "wait"
  upload,    \* "receiving" (init, uploading or paused), "discarded" (cancelled while
             \* it was received, and cleaned up), "handing", "finished", "failed" (the
             \* handover failed), or "gone" (cleaned up after its handover)
  stored,    \* the chunks written to the file, in order; filePos is their number
  accepted,  \* history: the app backend has accepted the file
  losses,    \* connections that were lost so far
  excused    \* history: the upload need not succeed any more, because it was
             \* cancelled in the browser, or a timeout came too early

connVars == <<link, toBrowser, session>>
uploadVars == <<upload, stored, accepted>>
transferVars == <<js, connVars, uploadVars, losses, excused>>

TransferInit ==
  /\ \E s \in Sockets : js = Start(Unused, s)
  /\ link = [s \in Sockets |-> "up"]
  /\ toBrowser = [s \in Sockets |-> <<>>]
  /\ session = [s \in Sockets |-> "none"]
  /\ upload = "receiving" /\ stored = <<>> /\ accepted = FALSE
  /\ losses = 0 /\ excused = FALSE

-----------------------------------------------------------------------------
(* The browser.                                                              *)

\* A timer or the user calls start, which takes a slot that both ends have left, and
\* whose recv_cancel_ack nobody calls any more.  It may be too early: the server may
\* not have noticed that an old connection is gone.
Forgotten(s) == \A t \in Sockets \ {s} : js.onmessage[t] # s /\ js.usual[t] # s

OldSessionsEnded == \A s \in Sockets : session[s] # "none" => js.ready[s] # "closed"

StartsOn(j, s) ==
  /\ js.ready[s] = "closed" /\ session[s] = "none" /\ Forgotten(s)
  /\ LoadsAreShort => j.reader = NotLoading
  /\ js' = Start(j, s)
  /\ link' = [link EXCEPT ![s] = "up"]
  /\ excused' = (excused \/ ~OldSessionsEnded)
  /\ UNCHANGED <<toBrowser, session, uploadVars, losses>>

\* The timer in conn_retry, or one that it has forgotten.
OneTimerLess == (IF js.conn_retry THEN {[js EXCEPT !.conn_retry = FALSE]} ELSE {})
                \cup (IF js.orphans > 0 THEN {[js EXCEPT !.orphans = @ - 1]} ELSE {})

RetryFires == \E j \in OneTimerLess, s \in Sockets : StartsOn(j, s)

\* The user does what the flags allow.
UserCancels == /\ "cancel" \in UserActs /\ ~js.cancelled /\ js.can_cancel
               /\ js' = Cancel(js)
               /\ excused' = TRUE
               /\ UNCHANGED <<connVars, uploadVars, losses>>

\* pause does not look at can_pause, which is for the user to respect (doc/api.md:73).
MayPause == /\ "pause" \in UserActs /\ (js.can_pause \/ "anytime" \in UserActs)
            /\ ~js.finished /\ ~js.cancelled

UserPauses == /\ MayPause /\ ~js.paused
              /\ js' = Pause(js)
              /\ UNCHANGED <<connVars, uploadVars, losses, excused>>

UserUnpauses == /\ MayPause /\ js.paused
                /\ js.ws = NoSocket \/ "hurry" \in UserActs
                /\ \E s \in Sockets : StartsOn([js EXCEPT !.conn_retry = FALSE], s)

ChunkLoaded == /\ js.reader # NotLoading
               /\ js' = OnLoad(js)
               /\ UNCHANGED <<connVars, uploadVars, losses, excused>>

ChunkLoadFails == /\ js.reader # NotLoading /\ "cancel" \in UserActs
                  /\ js' = OnLoadError(js)
                  /\ excused' = TRUE
                  /\ UNCHANGED <<connVars, uploadVars, losses>>

\* The upgrade starts a handler, and the browser's socket opens.
SocketOpens(s) ==
  /\ js.ready[s] = "connecting" /\ link[s] = "up"
  /\ js' = OnOpen([js EXCEPT !.ready[s] = "open"])
  /\ session' = [session EXCEPT ![s] = "request"]
  /\ UNCHANGED <<link, toBrowser, uploadVars, losses, excused>>

\* The close event, after an error event or without one.  Messages that the
\* browser has not been given by then are dropped.
SocketCloses(s) ==
  /\ \/ js.ready[s] = "closing"
     \/ js.ready[s] \in {"connecting", "open"} /\ link[s] = "lost"
     \/ js.ready[s] = "open" /\ link[s] = "eof" /\ toBrowser[s] = <<>>
  /\ js.conn_retry => js.orphans < MaxTimers - 1
  /\ LET closed == [js EXCEPT !.ready[s] = "closed"]
     IN js' \in IF link[s] = "lost" THEN {OnClose(closed), OnClose(OnError(closed))}
                                    ELSE {OnClose(closed)}
  /\ toBrowser' = [toBrowser EXCEPT ![s] = <<>>]
  /\ UNCHANGED <<link, session, uploadVars, losses, excused>>

MessageArrives(s) ==
  /\ js.ready[s] = "open" /\ toBrowser[s] # <<>>
  /\ js' = OnMessage(js, s, Head(toBrowser[s]))
  /\ toBrowser' = [toBrowser EXCEPT ![s] = Tail(@)]
  /\ UNCHANGED <<link, session, uploadVars, losses, excused>>

Browser == \/ RetryFires \/ UserCancels \/ UserPauses \/ UserUnpauses
           \/ ChunkLoaded \/ ChunkLoadFails
           \/ \E s \in Sockets : SocketOpens(s) \/ SocketCloses(s) \/ MessageArrives(s)

-----------------------------------------------------------------------------
(* The network loses a connection: what the server has not read by then may  *)
(* be lost, what the browser has not read is.                                *)

ConnectionLost(s) ==
  /\ losses < MaxLosses
  /\ losses' = losses + 1
  /\ link[s] = "up" /\ (js.ready[s] # "closed" \/ session[s] # "none")
  /\ link' = [link EXCEPT ![s] = "lost"]
  /\ \E n \in 0..Len(js.sent[s]) : js' = [js EXCEPT !.sent[s] = SubSeq(@, 1, n)]
  /\ toBrowser' = [toBrowser EXCEPT ![s] = <<>>]
  /\ UNCHANGED <<session, uploadVars, excused>>

-----------------------------------------------------------------------------
(* A session.                                                                *)

\* What is written to a socket reaches a browser that still listens.
Listens(s) == link[s] = "up" /\ js.ready[s] = "open"

Delivered(s, messages) ==
  [toBrowser EXCEPT ![s] = IF Listens(s) THEN @ \o messages ELSE @]

\* The handler returns: it unbinds, and the connection goroutines close the socket.
Returns(s, messages) ==
  /\ js' = [js EXCEPT !.sent[s] = <<>>]
  /\ toBrowser' = Delivered(s, messages)
  /\ session' = [session EXCEPT ![s] = "none"]
  /\ link' = [link EXCEPT ![s] = IF @ = "up" THEN "eof" ELSE @]
  /\ UNCHANGED losses

\* It has read the first message, answers, and goes on to wait for something else.
GoesOn(s, messages, next) ==
  /\ js' = [js EXCEPT !.sent[s] = Tail(@)]
  /\ toBrowser' = Delivered(s, messages)
  /\ session' = [session EXCEPT ![s] = next]
  /\ UNCHANGED <<link, losses>>

Reads(s, waitsFor) == session[s] = waitsFor /\ js.sent[s] # <<>>

Received(s) == Head(js.sent[s])

Bound == \E s \in Sockets : session[s] \in {"ack", "chunks", "wait"}

AllStored == Len(stored) = Total

InLoop(s) == session[s] = "chunks" /\ ~AllStored

ReadsInLoop(s, types) == InLoop(s) /\ Reads(s, "chunks") /\ Received(s).type \in types

\* The upload request: refused for an upload that is not in the pool, is bound
\* or has ended.  No other message has the id of an upload.
ReadsRequest(s) ==
  /\ Reads(s, "request")
  /\ IF Received(s).type = "req" /\ ~Bound /\ upload \in {"receiving", "handing"}
     THEN GoesOn(s, <<Conf(Len(stored))>>, "ack")
     ELSE Returns(s, <<Msg("error")>>)
  /\ UNCHANGED <<uploadVars, excused>>

ReadsAck(s) == /\ Reads(s, "ack") /\ Received(s).type = "ack"
               /\ GoesOn(s, <<>>, "chunks")
               /\ UNCHANGED <<uploadVars, excused>>

\* A message other than the ack, or a text that has no place among the chunks.
NotAcked(s) == Reads(s, "ack") /\ Received(s).type # "ack"
OutOfPlace(s) == ReadsInLoop(s, {"req", "ack"})

ReadsNoAck(s) == /\ NotAcked(s) \/ OutOfPlace(s)
                 /\ Returns(s, <<Msg("error")>>)
                 /\ UNCHANGED <<uploadVars, excused>>

StoresChunk(s) ==
  /\ ReadsInLoop(s, {"chunk"})
  /\ upload = "receiving"
  /\ stored' = Append(stored, Received(s).pos)
  /\ GoesOn(s, <<Msg("chunkAck")>>, "chunks")
  /\ UNCHANGED <<upload, accepted, excused>>

\* Cancel and CleanUp: nothing for an upload whose handover has begun.
Discard == /\ upload' = IF upload = "receiving" THEN "discarded" ELSE upload
           /\ UNCHANGED <<stored, accepted>>

RefusesQuietly(s) == /\ ReadsInLoop(s, {"chunk"})
                     /\ GoesOn(s, <<Msg("chunkAck")>>, "chunks")
                     /\ UNCHANGED <<uploadVars, excused>>

\* ConsumeFileChunk has an error: the upload is cancelled, or it cannot write.
RefusesChunk(s) == /\ ReadsInLoop(s, {"chunk"})
                   /\ Returns(s, <<Msg("error")>>)
                   /\ Discard
                   /\ UNCHANGED excused

AcksCancelOnly(s) == /\ ReadsInLoop(s, {"cancel"})
                     /\ Returns(s, <<Msg("cancelAck")>>)
                     /\ UNCHANGED <<uploadVars, excused>>

ReadsCancel(s) == /\ ReadsInLoop(s, {"cancel"})
                  /\ Returns(s, <<Msg("cancelAck")>>)
                  /\ Discard
                  /\ UNCHANGED excused

\* A pause changes nothing here, and what comes during the handover is ignored.
ReadsOn(s) == /\ ReadsInLoop(s, {"pause"}) \/ Reads(s, "wait")
              /\ GoesOn(s, <<>>, session[s])
              /\ UNCHANGED <<uploadVars, excused>>

\* The loop ends with the last chunk.  HandFileToApp starts the handover unless
\* that was done before or the upload has been cancelled.
HandsOver(s) == /\ session[s] = "chunks" /\ AllStored
                /\ session' = [session EXCEPT ![s] = "wait"]
                /\ upload' = IF upload = "receiving" THEN "handing" ELSE upload
                /\ UNCHANGED <<js, link, toBrowser, stored, accepted, losses, excused>>

DoneAnyway == Msg("allDone")

\* The handover has ended and the browser is told.  A session that receives the
\* error of a failed handover, or cannot tell, leaves without CleanUp.
FinalMessage == IF upload = "finished" THEN Msg("allDone") ELSE Msg("error")

Tells(s) ==
  /\ session[s] = "wait" /\ upload \in {"finished", "failed", "gone"}
  /\ Returns(s, <<FinalMessage>>)
  /\ upload' \in IF upload = "failed" \/ ~Listens(s) THEN {upload, "gone"} ELSE {"gone"}
  /\ UNCHANGED <<stored, accepted, excused>>

\* A read comes back with an error because the connection has gone, or because
\* nothing has come before its deadline, although something may be under way.
\* Outside of the handover the handler tries to send an error.
NothingUnderWay(s) == ~Listens(s) \/ (toBrowser[s] = <<>> /\ js.reader = NotLoading)

ReadFails(s) == /\ session[s] \in {"request", "ack", "wait"} \/ InLoop(s)
                /\ js.sent[s] = <<>>
                /\ Returns(s, IF session[s] = "wait" THEN <<>> ELSE <<Msg("error")>>)
                /\ excused' = (excused \/ ~NothingUnderWay(s))
                /\ UNCHANGED uploadVars

Session(s) == \/ ReadsRequest(s) \/ ReadsAck(s) \/ ReadsNoAck(s)
              \/ StoresChunk(s) \/ RefusesChunk(s) \/ ReadsCancel(s) \/ ReadsOn(s)
              \/ HandsOver(s) \/ Tells(s) \/ ReadFails(s)

-----------------------------------------------------------------------------
(* The upload, apart from its sessions.                                      *)

\* The goroutine of HandFileToApp has the backend's last word.
HandoverEnds == /\ upload = "handing"
                /\ \/ upload' = "finished" /\ accepted' = TRUE
                   \/ upload' = "failed" /\ UNCHANGED accepted
                /\ UNCHANGED <<js, connVars, stored, losses, excused>>

\* The idle timeout or, before the handover, cancel_upload.
UploadExpires == /\ \/ upload = "receiving" /\ upload' = "discarded"
                    \/ upload \in {"finished", "failed"} /\ upload' = "gone"
                 /\ UNCHANGED <<js, connVars, stored, accepted, losses, excused>>

\* The process dies and starts again, with an empty pool and an empty storage
\* directory (initStorageDir).  Its connections break.
ServerRestarts ==
  /\ upload' = IF accepted THEN "gone" ELSE "discarded"
  /\ upload' # upload
  /\ session' = [s \in Sockets |-> "none"]
  /\ link' = [s \in Sockets |-> IF session[s] = "none" THEN link[s] ELSE "lost"]
  /\ toBrowser' = [s \in Sockets |-> IF session[s] = "none" THEN toBrowser[s] ELSE <<>>]
  /\ js' = [js EXCEPT !.sent = [s \in Sockets |-> <<>>]]
  /\ UNCHANGED <<stored, accepted, losses, excused>>

TransferNext == \/ Browser
                \/ \E s \in Sockets : ConnectionLost(s) \/ Session(s)
                \/ HandoverEnds \/ UploadExpires \/ ServerRestarts

TransferSpec == TransferInit /\ [][TransferNext]_transferVars

\* Timers fire, loads and reads come to an end, sockets open or close, what is
\* sent on a connection that stays up arrives, and the handover has a timeout.
\* Nothing is assumed of the user and of cancel_upload.
FairTransferSpec ==
  /\ TransferSpec
  /\ WF_transferVars(RetryFires)
  /\ WF_transferVars(ChunkLoaded)
  /\ WF_transferVars(HandoverEnds)
  /\ \A s \in Sockets : /\ WF_transferVars(SocketOpens(s))
                        /\ WF_transferVars(SocketCloses(s))
                        /\ WF_transferVars(MessageArrives(s))
                        /\ WF_transferVars(Session(s))

-----------------------------------------------------------------------------
TransferTypeOK ==
  /\ JsTypeOK
  /\ link \in [Sockets -> {"up", "lost", "eof"}]
  /\ toBrowser \in [Sockets -> Seq([type : {"conf", "chunkAck", "cancelAck", "allDone", "error"},
                                    pos : 0..Total])]
  /\ session \in [Sockets -> {"none", "request", "ack", "chunks", "wait"}]
  /\ upload \in {"receiving", "discarded", "handing", "finished", "failed", "gone"}
  /\ stored \in Seq(0..Total - 1) /\ Len(stored) <= Total
  /\ accepted \in BOOLEAN /\ excused \in BOOLEAN
  /\ losses \in 0..MaxLosses

\* The transfer implements FileTransfer: whatever is lost, resumed or cancelled,
\* the stored file grows by the next chunk only (websocket.go:346, jslib:317), it
\* is handed over complete, and the library says "finished" (jslib:255) only when
\* the app backend has accepted it.
Phase == CASE accepted -> "accepted"
           [] ~accepted /\ upload = "receiving" -> "open"
           [] ~accepted /\ upload = "handing" -> "handed"
           [] OTHER -> "failed"

File == INSTANCE FileTransfer WITH file <- stored, phase <- Phase, told <- js.finished

KeepsOrder == File!FileSpec

\* Whatever the user and the loads do, the upload lives as UploadLife says: it is
\* handed over with as many chunks as the file has (websocket.go:382) and never
\* again received, and "finished" (jslib:255) means accepted.
Life == INSTANCE UploadLife WITH
          size <- Total, received <- Len(stored), phase <- Phase, told <- js.finished

FollowsLife == Life!LifeSpec

\* bytes_acked is "number of bytes that we know have arrived" (doc/api.md:54): no
\* ack of an earlier connection is counted on top of the position a later one got.
AckedIsStored == js.bytes_acked <= Len(stored)

\* At most SendAhead chunks of a connection are sent and not yet acknowledged to
\* the library (jslib:152), so the server never has more of them to buffer; after
\* a resume the count starts again with the new connection.
Chunks(messages) ==
  Cardinality({i \in DOMAIN messages : messages[i].type \in {"chunk", "chunkAck"}})

WindowRespected ==
  \A s \in Sockets : Chunks(js.sent[s]) + Chunks(toBrowser[s]) <= SendAhead

\* When the library says "cancelled" and reports no error, the server has given
\* the upload up (jslib:390, websocket.go:427): it is not received or handed over.
CancelledIsDiscarded == js.cancelled /\ ~js.error => upload = "discarded"

\* An upload that is finished or cancelled is not started again (jslib:343, 429):
\* no timer survives that would open another connection for it.
Ended == js.finished \/ js.cancelled

StaysEnded ==
  [][Ended => \A s \in Sockets : js.ready[s] = "closed" => js'.ready[s] = "closed"]_transferVars

\* The application hears how its upload ended, unless the user leaves it paused:
\* every lost connection leads to another attempt (jslib:354), and an upload that
\* the server does not know any more, or has stopped waiting for, to an error.
Concludes == <>(js.finished \/ js.cancelled \/ js.error) \/ []<>js.paused

\* "Disconnects during upload are no problem" (README.md:4): the app backend gets
\* the file unless the server or the backend gives the upload up, it is cancelled in
\* the browser, or a timeout comes early; no loss or pause alone prevents it.
Delivers == <>(accepted \/ upload \in {"discarded", "failed"} \/ excused) \/ []<>js.paused

=============================================================================
