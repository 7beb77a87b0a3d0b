-------------------------------- MODULE WsConn --------------------------------
(***************************************************************************)
(* One websocket connection (websocket.go, wsConnHandler): the goroutine   *)
(* that reads the socket, the goroutine that writes it and the handler     *)
(* between them, joined by the unbuffered channels ch_r, ch_w and the      *)
(* handler's chWriteRet.  A send on such a channel and its receive are one *)
(* step of two goroutines.  What the messages say is left to UploadServer: *)
(* here the handler may receive, send or return whenever it is not blocked,*)
(* and it only returns once a read has failed.                             *)
(***************************************************************************)
EXTENDS Integers

CONSTANT MaxUnread  \* bound on the messages that wait in the socket

ASSUME MaxUnreadAssumption == MaxUnread \in Nat

VARIABLES
  handler,  \* "busy", "receiving", "sending" (on ch_w), "sent" (waits on
            \* chWriteRet) or "returned", when ch_w is closed
  reader,   \* "reading", "has message", "has error" or "done": ch_r is closed
  writer,   \* "waiting", "writing", "replying" or "done"
  socket,   \* "open", "lost" (the peer is gone) or "closed" (by the writer)
  unread,   \* messages of the browser that the reader has not read
  failed    \* the handler has seen a read fail, or found ch_r closed

wsVars == <<handler, reader, writer, socket, unread, failed>>

WsInit == /\ handler = "receiving" /\ reader = "reading" /\ writer = "waiting"
          /\ socket = "open" /\ unread = 0 /\ failed = FALSE

-----------------------------------------------------------------------------
(* The browser and the network.                                              *)

BrowserSends == /\ socket = "open" /\ unread < MaxUnread
                /\ unread' = unread + 1
                /\ UNCHANGED <<handler, reader, writer, socket, failed>>

ConnectionLost == /\ socket = "open"
                  /\ socket' = "lost"
                  /\ UNCHANGED <<handler, reader, writer, unread, failed>>

-----------------------------------------------------------------------------
(* The reader.                                                               *)

ReadsEarly == /\ reader = "reading" /\ socket # "closed"
              /\ reader' = "has message"
              /\ unread' = unread - 1
              /\ UNCHANGED <<handler, writer, socket, failed>>

ReadsMessage == /\ reader = "reading" /\ unread > 0 /\ socket # "closed"
                /\ reader' = "has message"
                /\ unread' = unread - 1
                /\ UNCHANGED <<handler, writer, socket, failed>>

\* The socket is gone, the message is malformed or the read deadline is over.
NoDeadline == reader = "reading" /\ socket = "closed"
ReadMayFail == reader = "reading"

ReadFails == /\ ReadMayFail
             /\ reader' = "has error"
             /\ UNCHANGED <<handler, writer, socket, unread, failed>>

\* ch_r <- res; after a failed read the reader closes ch_r and ends.
Delivers == /\ handler = "receiving"
            /\ handler' = "busy"
            /\ \/ reader = "has message" /\ reader' = "reading" /\ UNCHANGED failed
               \/ reader = "has error" /\ reader' = "done" /\ failed' = TRUE
            /\ UNCHANGED <<writer, socket, unread>>

\* Nobody takes the failed read for 30 seconds.
WhileReceiving == reader = "has error" /\ handler = "receiving"
AtAnyTime == reader = "has error"

OfferExpires == /\ AtAnyTime
                /\ reader' = "done"
                /\ UNCHANGED <<handler, writer, socket, unread, failed>>

-----------------------------------------------------------------------------
(* The handler.                                                              *)

StartsReceiving == /\ handler = "busy" /\ ~failed
                   /\ handler' = "receiving"
                   /\ UNCHANGED <<reader, writer, socket, unread, failed>>

\* Receives nil from the closed ch_r.
FindsClosed == /\ handler = "receiving" /\ reader = "done"
               /\ handler' = "busy" /\ failed' = TRUE
               /\ UNCHANGED <<reader, writer, socket, unread>>

StartsSending == /\ handler = "busy"
                 /\ handler' = "sending"
                 /\ UNCHANGED <<reader, writer, socket, unread, failed>>

\* The deferred close(wsW) runs.
Returns == /\ handler = "busy"
           /\ handler' = "returned"
           /\ UNCHANGED <<reader, writer, socket, unread, failed>>

-----------------------------------------------------------------------------
(* The writer.                                                               *)

TakesCommandAndLetsGo == /\ handler = "sending" /\ writer = "waiting"
                         /\ handler' = "busy" /\ writer' = "writing"
                         /\ UNCHANGED <<reader, socket, unread, failed>>

TakesCommand == /\ handler = "sending" /\ writer = "waiting"
                /\ handler' = "sent" /\ writer' = "writing"
                /\ UNCHANGED <<reader, socket, unread, failed>>

NoResult == "waiting"
WithResult == "replying"

\* WriteMessage succeeds, fails or runs into the write deadline.
WriteEnds == /\ writer = "writing"
             /\ writer' = WithResult
             /\ UNCHANGED <<handler, reader, socket, unread, failed>>

RepliesToHandler == /\ handler = "sent" /\ writer = "replying"
                    /\ handler' = "busy" /\ writer' = "waiting"
                    /\ UNCHANGED <<reader, socket, unread, failed>>

CloseOnFailure == handler = "returned" /\ failed
CloseOnReturn == handler = "returned"

ClosesSocket == /\ writer = "waiting" /\ CloseOnReturn
                /\ writer' = "done" /\ socket' = "closed"
                /\ UNCHANGED <<handler, reader, unread, failed>>

ReaderSteps == ReadsMessage \/ ReadFails \/ Delivers \/ OfferExpires
HandlerSteps == StartsReceiving \/ FindsClosed \/ StartsSending \/ Returns
WriterSteps == TakesCommand \/ WriteEnds \/ RepliesToHandler \/ ClosesSocket

WsNext == BrowserSends \/ ConnectionLost \/ ReaderSteps \/ HandlerSteps \/ WriterSteps

(***************************************************************************)
(* Goroutines that can run do run.  A read has a deadline and so has a     *)
(* write, so neither blocks for ever; nothing is assumed of the browser.   *)
(***************************************************************************)
WsSpec == /\ WsInit /\ [][WsNext]_wsVars
          /\ WF_wsVars(ReaderSteps) /\ WF_wsVars(HandlerSteps) /\ WF_wsVars(WriterSteps)

-----------------------------------------------------------------------------
WsTypeOK ==
  /\ handler \in {"busy", "receiving", "sending", "sent", "returned"}
  /\ reader \in {"reading", "has message", "has error", "done"}
  /\ writer \in {"waiting", "writing", "replying", "done"}
  /\ socket \in {"open", "lost", "closed"}
  /\ unread \in 0..MaxUnread
  /\ failed \in BOOLEAN

\* The writer is in a command exactly while the handler waits for its result on
\* chWriteRet, which all commands share: no result is left for the next send,
\* and the writer is never left with a result that nobody reads.
WriterServesHandler == writer \in {"writing", "replying"} <=> handler = "sent"

\* A handler that sends, or receives, is not left waiting when the connection
\* is lost: it gets the error and can unbind the upload.
SendReturns == handler = "sending" ~> handler = "busy"
ReceiveReturns == handler = "receiving" ~> handler = "busy"

\* Whatever the handler returns for, the socket is closed and the writer ends.
SocketCloses == handler = "returned" ~> socket = "closed" /\ writer = "done"

\* Nor does the reader stay for a failed read that nobody takes: it ends, unless
\* it holds a message, which it offers for ever (websocket.go:161, 169).
ReaderLeaves == handler = "returned" ~> reader \in {"done", "has message"}

=============================================================================
