------------------------------ MODULE JsUploader ------------------------------
(***************************************************************************)
(* The browser library (incoming_jslib.js): one Uploader object and its    *)
(* WebSockets.  JavaScript runs one callback at a time, so a callback is   *)
(* one step; it may call several functions of the library, so a function   *)
(* is an operator from a state j of the object to the next one, and a      *)
(* callback is their composition.                                          *)
(*                                                                         *)
(* All callbacks share the variable ws.  A callback of one socket may find *)
(* another socket there, or null; where that throws an exception the       *)
(* callback ends and what it has done so far stays.                        *)
(*                                                                         *)
(* A chunk is its position in the file, which is counted in chunks.        *)
(* Counters, flags and texts that the library only shows are left out.     *)
(***************************************************************************)
EXTENDS Integers, Sequences

CONSTANTS
  Sockets,    \* slots for WebSocket objects; a slot is used again once both
              \* ends have done with it
  NoSocket,   \* ws is null
  Total,      \* the size of the file
  SendAhead   \* upload_conf.SendAhead

\* The handlers that the library gives a socket; "none" is null.  The handler that
\* a cancel puts in front of them, recv_cancel_ack, goes by the socket on which the
\* cancel was sent: a new function for every cancel, and one cancel for a socket.
Usual == {"none", "conf", "acks", "final"}

ASSUME BrowserAssumption ==
  /\ NoSocket \notin Sockets
  /\ Sockets \cap Usual = {}
  /\ Total \in Nat
  /\ SendAhead \in Nat \ {0}

NotLoading == -1  \* file_reader.readyState is not LOADING

VARIABLES
  js,        \* the uploader object and its sockets: a record, see JsTypeOK
  link,      \* the connection under a socket: "up", "lost", or "eof" when the
             \* server has closed it
  toBrowser  \* by socket, the server's messages that the browser has not read

Msg(type) == [type |-> type, pos |-> 0]
Chunk(pos) == [type |-> "chunk", pos |-> pos]
Conf(pos) == [type |-> "conf", pos |-> pos]

JsTypeOK ==
  /\ js.ws \in Sockets \cup {NoSocket}
  /\ js.ready \in [Sockets -> {"connecting", "open", "closing", "closed"}]
  /\ js.onmessage \in [Sockets -> Usual \cup Sockets]
  /\ js.usual \in [Sockets -> Usual \cup Sockets]  \* usual_onmessage_handler
  /\ js.sent \in [Sockets -> Seq([type : {"req", "ack", "pause", "cancel", "chunk"},
                                  pos : 0..Total])]   \* that the server has not read
  /\ js.reader \in 0..Total - 1 \cup {NotLoading}
  /\ js.bytes_tx \in 0..Total
  /\ js.bytes_acked \in 0..Total
  /\ js.chunks_ahead \in Int
  /\ js.conn_retry \in BOOLEAN   \* conn_retry is a timer that is pending
  /\ js.orphans \in Nat          \* pending timers that conn_retry has forgotten
  /\ \A flag \in {js.finished, js.cancelled, js.cancelling, js.can_cancel,
                  js.can_pause, js.connected, js.paused, js.error} : flag \in BOOLEAN

-----------------------------------------------------------------------------
(* The socket in ws.                                                         *)

IsOpen(j) == j.ws # NoSocket /\ j.ready[j.ws] = "open"

\* ws.send throws when ws is null or still connecting, and drops the message
\* when the socket is closing or closed.  A connection that is gone takes it nowhere.
SendThrows(j) == j.ws = NoSocket \/ j.ready[j.ws] = "connecting"

Send(j, m) == IF IsOpen(j) /\ link[j.ws] = "up"
              THEN [j EXCEPT !.sent[j.ws] = Append(@, m)] ELSE j

\* ws.close(); with ws null it throws, and nothing follows it that matters.
Close(j) == IF j.ws # NoSocket /\ j.ready[j.ws] \in {"connecting", "open"}
            THEN [j EXCEPT !.ready[j.ws] = "closing"] ELSE j

\* ws.onmessage = handler
Listen(j, handler) == IF j.ws = NoSocket THEN j
                      ELSE [j EXCEPT !.onmessage[j.ws] = handler]

-----------------------------------------------------------------------------
(* Chunks.                                                                   *)

WindowOneMore(j) == j.chunks_ahead <= SendAhead
WindowOpen(j) == j.chunks_ahead < SendAhead

MoreToLoad(j) == j.bytes_tx <= Total
MoreToSend(j) == j.bytes_tx < Total

TryLoadAndSendFileChunk(j) ==
  IF WindowOpen(j) /\ j.reader = NotLoading /\ MoreToSend(j) /\ ~j.cancelling
  THEN [j EXCEPT !.reader = j.bytes_tx] ELSE j

\* file_reader.onload.  A chunk that is loaded while ws is not open is dropped.
OnLoad(j) ==
  LET k == [j EXCEPT !.reader = NotLoading]
  IN IF j.cancelling \/ j.cancelled \/ j.paused \/ ~IsOpen(j) THEN k
     ELSE TryLoadAndSendFileChunk(
            [Send(k, Chunk(j.reader)) EXCEPT
               !.bytes_tx = @ + 1,
               !.chunks_ahead = @ + 1,
               !.can_cancel = @ /\ j.bytes_tx + 1 # Total,
               !.can_pause = @ /\ j.bytes_tx + 1 # Total])

-----------------------------------------------------------------------------
(* cancel and pause.                                                         *)

\* With an open socket the backend is asked, and its answer is awaited in front
\* of the usual message handler; without one the upload counts as cancelled.
Cancel(j) ==
  LET k == [j EXCEPT !.reader = NotLoading, !.can_cancel = FALSE, !.can_pause = FALSE,
                     !.conn_retry = FALSE]
  IN IF j.cancelled \/ ~j.can_cancel THEN j
     ELSE IF IsOpen(j)
     THEN Listen([Send(k, Msg("cancel")) EXCEPT
                    !.cancelling = TRUE, !.usual[j.ws] = j.onmessage[j.ws]], j.ws)
     ELSE [k EXCEPT !.cancelled = TRUE, !.error = TRUE]

\* file_reader.onerror
OnLoadError(j) == Cancel([j EXCEPT !.reader = NotLoading])

Pause(j) ==
  LET k == [j EXCEPT !.reader = NotLoading, !.conn_retry = FALSE,
                     !.paused = TRUE, !.can_cancel = FALSE]
  IN IF IsOpen(j) THEN Close(Send(k, Msg("pause"))) ELSE k

-----------------------------------------------------------------------------
(* Messages.                                                                 *)

ServerError(j) == Cancel([j EXCEPT !.error = TRUE])

ResumeWhereSent(j, pos) == j.bytes_tx
ResumeAt(j, pos) == pos

\* prot01_recvConfig
OnConf(j, m) ==
  LET k == [j EXCEPT !.bytes_acked = m.pos, !.bytes_tx = ResumeAt(j, m.pos)]
      l == Send(k, Msg("ack"))
  IN IF m.type = "error" THEN ServerError(j)
     ELSE IF m.type # "conf" THEN j
     ELSE IF SendThrows(k) THEN k
     ELSE IF m.pos = Total THEN Listen([l EXCEPT !.can_cancel = FALSE, !.can_pause = FALSE], "final")
     ELSE TryLoadAndSendFileChunk(Listen([l EXCEPT !.can_pause = TRUE], "acks"))

\* receive_chunk_acks
OnChunkAck(j, m) ==
  LET k == [j EXCEPT !.bytes_acked = @ + 1, !.chunks_ahead = @ - 1]
  IN IF m.type = "error" THEN ServerError(j)
     ELSE IF m.type # "chunkAck" THEN j
     ELSE IF k.bytes_acked = Total THEN Listen(k, "final")
     ELSE TryLoadAndSendFileChunk(k)

\* receive_final_message
OnFinal(j, m) ==
  IF m.type = "allDone" THEN Close([j EXCEPT !.finished = TRUE])
  ELSE IF m.type = "error" THEN Close([j EXCEPT !.error = TRUE])
  ELSE j

UsualHandler(j, handler, m) ==
  CASE handler = "conf" -> OnConf(j, m)
    [] handler = "acks" -> OnChunkAck(j, m)
    [] handler = "final" -> OnFinal(j, m)
    [] handler = "none" -> j

Throws(j, handler, m) == \/ handler = "none"
                         \/ handler = "conf" /\ m.type = "conf" /\ SendThrows(j)

\* The recv_cancel_ack of c, the one it calls as its usual handler, and so on.  The
\* last of them, if they do not call each other in a circle, calls a usual handler.
Called(j, c) ==
  {b \in Sockets : \A S \in SUBSET Sockets :
     c \in S /\ (\A a \in S : j.usual[a] \in Sockets => j.usual[a] \in S) => b \in S}

Innermost(j, c) == {b \in Called(j, c) : j.usual[b] \in Usual}

\* recv_cancel_ack of c.  What the usual handler has left in ws becomes what is
\* usual, and recv_cancel_ack is put in front again, on the socket that ws holds now.
\* A circle overflows the stack.
OnCancelAck(j, c, m) ==
  LET b == CHOOSE b \in Innermost(j, c) : TRUE
      k == UsualHandler(j, j.usual[b], m)
  IN IF m.type = "cancelAck"
     THEN Close([j EXCEPT !.cancelled = TRUE, !.cancelling = FALSE, !.can_cancel = FALSE])
     ELSE IF Innermost(j, c) = {} THEN j
     ELSE IF Throws(j, j.usual[b], m) \/ k.ws = NoSocket THEN k
     ELSE [k EXCEPT !.usual[b] = IF k.onmessage[k.ws] = b THEN @ ELSE k.onmessage[k.ws],
                    !.onmessage[k.ws] = c]

OnMessage(j, s, m) == IF j.onmessage[s] \in Sockets THEN OnCancelAck(j, j.onmessage[s], m)
                      ELSE UsualHandler(j, j.onmessage[s], m)

-----------------------------------------------------------------------------
(* Start, and the other callbacks of a socket.                               *)

WindowKept(j) == j.chunks_ahead
WindowAtStart(j) == 0

\* start, with a new WebSocket in slot s.
Start(j, s) ==
  [j EXCEPT !.ws = s, !.ready[s] = "connecting", !.onmessage[s] = "none", !.usual[s] = "none",
            !.sent[s] = <<>>, !.bytes_tx = j.bytes_acked, !.chunks_ahead = WindowAtStart(j),
            !.connected = FALSE, !.paused = FALSE, !.can_cancel = TRUE, !.can_pause = FALSE]

OnOpen(j) == LET k == [j EXCEPT !.connected = TRUE]
             IN IF SendThrows(k) THEN k ELSE Listen(Send(k, Msg("req")), "conf")

GivesUp(j) == TRUE
CancelForgotten(j) == j.paused \/ j.finished \/ j.error
StaysClosed(j) == j.paused \/ j.finished \/ j.cancelled \/ j.error

\* Otherwise it starts again in 60 seconds; a timer that conn_retry held before
\* goes on running.
OnClose(j) ==
  LET k == [j EXCEPT !.ws = NoSocket, !.connected = FALSE]
  IN IF StaysClosed(j) THEN k
     ELSE [k EXCEPT !.can_pause = TRUE, !.conn_retry = TRUE, !.orphans = IF j.conn_retry THEN @ + 1 ELSE @]

\* An error closes the socket in ws, which need not be the one that failed.
OnError(j) == Close(j)

Unused == [ws |-> NoSocket,
           ready |-> [s \in Sockets |-> "closed"],
           onmessage |-> [s \in Sockets |-> "none"],
           usual |-> [s \in Sockets |-> "none"],
           sent |-> [s \in Sockets |-> <<>>],
           reader |-> NotLoading,
           bytes_tx |-> 0, bytes_acked |-> 0, chunks_ahead |-> 0,
           conn_retry |-> FALSE, orphans |-> 0,
           finished |-> FALSE, cancelled |-> FALSE, cancelling |-> FALSE,
           can_cancel |-> TRUE, can_pause |-> FALSE, connected |-> FALSE,
           paused |-> FALSE, error |-> FALSE]

=============================================================================
