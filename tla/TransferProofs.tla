---------------------------- MODULE TransferProofs ----------------------------
(***************************************************************************)
(* The transfer of a file, for every size of the file and of the window    *)
(* and any number of connections. Three invariants say what holds under    *)
(* which premises.                                                         *)
(*                                                                         *)
(* AnyhowInv, whatever the user and the loads do: any socket may be in ws, *)
(* the handler of a cancel may come to hang on any other, and chunks may   *)
(* be stored twice, but nobody says what is not so. "All                   *)
(* done" and "cancelled" are only under way to a browser when the file is  *)
(* accepted, or given up, and the library believes only these messages. So *)
(* the upload lives as UploadLife says.                                    *)
(*                                                                         *)
(* CalmInv, where the user does not unpause before the paused socket has   *)
(* closed, and pauses only when can_pause says so ("anytime" comes with    *)
(* "hurry"): only one socket is not closed, so callbacks are those of the  *)
(* socket in ws, and a timer is pending only while there is none. So the   *)
(* library never has more chunks under way than the window, and does not   *)
(* start again what has ended.                                             *)
(*                                                                         *)
(* TransferInv, where in addition a chunk that loads is loaded before the  *)
(* library starts again: the server binds one session, and the chunks it   *)
(* has still to read are those that follow the stored ones; the library    *)
(* knows where they end, because it was told where they begin and has sent *)
(* the rest in order. So the transfer keeps the promise of FileTransfer.   *)
(*                                                                         *)
(* A callback is taken apart into the calls it consists of, and each of    *)
(* them keeps the invariant.                                               *)
(***************************************************************************)
EXTENDS Transfer, TLAPS, SequenceTheorems, FiniteSetTheorems

ToServer == [type : {"req", "ack", "pause", "cancel", "chunk"}, pos : 0..Total]
ToBrowser == [type : {"conf", "chunkAck", "cancelAck", "allDone", "error"}, pos : 0..Total]
Ready == {"connecting", "open", "closing", "closed"}

\* Without hurry, recv_cancel_ack stays on the socket of its cancel.
Handlings == {f \in [Sockets -> Usual \cup Sockets] :
                \A s \in Sockets : f[s] \in Usual \cup {s}}

JsRecord ==
  [ws : Sockets \cup {NoSocket},
   ready : [Sockets -> Ready],
   onmessage : Handlings,
   usual : [Sockets -> Usual],
   sent : [Sockets -> Seq(ToServer)],
   reader : 0..Total - 1 \cup {NotLoading},
   bytes_tx : 0..Total, bytes_acked : 0..Total, chunks_ahead : Int,
   conn_retry : BOOLEAN, orphans : Nat,
   finished : BOOLEAN, cancelled : BOOLEAN, cancelling : BOOLEAN,
   can_cancel : BOOLEAN, can_pause : BOOLEAN, connected : BOOLEAN,
   paused : BOOLEAN, error : BOOLEAN]

-----------------------------------------------------------------------------
(* Messages under way.                                                       *)

\* From place d + 1 on, the chunks of q come first, and are those from n on.
Run(q, d, n) ==
  \A i \in d + 1..Len(q) : q[i].type = "chunk" =>
    q[i].pos = n + i - d - 1 /\ \A h \in d + 1..i : q[h].type = "chunk"

OnlyChunks(q, d) == \A i \in d + 1..Len(q) : q[i].type = "chunk"

NoneOf(q, types) == \A i \in 1..Len(q) : q[i].type \notin types

-----------------------------------------------------------------------------
(* The invariant, of a state j of the library and messages tb to it.         *)

\* The handler of a socket, behind recv_cancel_ack if that is in front of it.
Handler(j, s) == IF j.onmessage[s] \in Sockets THEN j.usual[s] ELSE j.onmessage[s]

\* The library still sends chunks.
Sends(j) == ~j.cancelling /\ ~j.cancelled /\ ~j.paused

\* Only one socket is not closed, and the timer is pending only if there is none.
SocketInv(j) ==
  /\ j.orphans = 0
  /\ \A s \in Sockets : j.ready[s] # "closed" => j.ws = s
  /\ j.conn_retry => j.ws = NoSocket /\ ~j.finished /\ ~j.cancelled
  /\ \A s \in Sockets : j.ready[s] = "connecting" => session[s] = "none" /\ Handler(j, s) = "none"
  /\ \A s \in Sockets : j.ready[s] = "open" =>
       /\ link[s] = "up" => session[s] # "none"
       /\ Handler(j, s) # "none"
       /\ j.onmessage[s] \in Sockets => ~j.can_cancel

\* A chunk that loads is the next to be sent.
ReaderInv(j) ==
  j.reader # NotLoading =>
    /\ j.reader = j.bytes_tx /\ j.bytes_tx < Total
    /\ \A s \in Sockets : j.ready[s] # "closed" => Handler(j, s) \in {"acks", "final"}

\* What a session has still to read: no chunks before it is bound, and then those
\* that come after the stored ones.
SentAt(j, s) ==
  /\ session[s] = "none" => j.sent[s] = <<>>
  /\ session[s] = "request" => NoneOf(j.sent[s], {"ack", "chunk"})
  /\ session[s] = "ack" => Run(j.sent[s], 1, Len(stored))
  /\ session[s] = "chunks" => Run(j.sent[s], 0, Len(stored))

SentInv(j) == \A s \in Sockets : SentAt(j, s)

Bounded == \A s, t \in Sockets :
  session[s] \in {"ack", "chunks", "wait"} /\ session[t] \in {"ack", "chunks", "wait"} => s = t

\* A connection on which chunks are sent; d messages of it come before them.
Flows(j, tb, s, d) ==
  /\ Handler(j, s) \in {"acks", "final"}
  /\ NoneOf(tb[s], {"conf"})
  /\ j.bytes_acked + Len(tb[s]) <= Len(stored)
  /\ Sends(j) => /\ d <= Len(j.sent[s])
                 /\ OnlyChunks(j.sent[s], d)
                 /\ j.bytes_tx = Len(stored) + Len(j.sent[s]) - d

\* A connection on which the position of the upload is under way to the library.
Resumes(j, tb, s) ==
  /\ Handler(j, s) = "conf"
  /\ tb[s] = <<Conf(Len(stored))>>
  /\ NoneOf(j.sent[s], {"ack", "chunk"})
  /\ Sends(j) => j.sent[s] = <<>>

WireAt(j, tb, s) == j.ready[s] = "open" /\ link[s] = "up" =>
  /\ session[s] = "request" => /\ Handler(j, s) = "conf" /\ tb[s] = <<>>
                               /\ Sends(j) => Len(j.sent[s]) <= 1
  /\ session[s] = "ack" => Resumes(j, tb, s) \/ Flows(j, tb, s, 1)
  /\ session[s] = "chunks" => Flows(j, tb, s, 0)

WireInv(j, tb) == \A s \in Sockets : WireAt(j, tb, s)

\* What the browser has still to read: nothing before the socket is open.
MailAt(j, tb, s) ==
  /\ j.ready[s] \in {"closed", "connecting"} => tb[s] = <<>>
  /\ \A i \in 1..Len(tb[s]) :
       /\ tb[s][i].type = "conf" => tb[s][i].pos <= Len(stored)
       /\ tb[s][i].type = "cancelAck" => upload = "discarded"
       /\ tb[s][i].type = "allDone" => accepted
       /\ tb[s][i].type = "chunkAck" /\ j.ready[s] = "open" =>
            /\ j.bytes_acked + i <= Len(stored)
            /\ \A h \in 1..i : tb[s][h].type # "conf"

MailInv(j, tb) == \A s \in Sockets : MailAt(j, tb, s)

EndInv(j) == /\ j.bytes_acked <= Len(stored)
             /\ j.finished => accepted
             /\ j.cancelled /\ ~j.error => upload = "discarded"

LibraryInv(j, tb) == /\ j \in JsRecord /\ tb \in [Sockets -> Seq(ToBrowser)]
                     /\ SocketInv(j) /\ ReaderInv(j) /\ SentInv(j)
                     /\ WireInv(j, tb) /\ MailInv(j, tb) /\ EndInv(j)

UploadInv ==
  /\ stored \in Seq(0..Total - 1) /\ Len(stored) <= Total
  /\ upload \in {"handing", "finished", "failed", "gone"} => Len(stored) = Total
  /\ upload \in {"receiving", "discarded", "handing", "failed"} => ~accepted
  /\ upload = "finished" => accepted

SessionTypes ==
  /\ link \in [Sockets -> {"up", "lost", "eof"}]
  /\ session \in [Sockets -> {"none", "request", "ack", "chunks", "wait"}]
  /\ upload \in {"receiving", "discarded", "handing", "finished", "failed", "gone"}
  /\ accepted \in BOOLEAN /\ excused \in BOOLEAN
  /\ losses \in 0..MaxLosses

TransferInv == LibraryInv(js, toBrowser) /\ Bounded /\ UploadInv /\ SessionTypes

-----------------------------------------------------------------------------
(* Sequences of messages.                                                    *)

LEMMA MessagesRead ==
  ASSUME NEW q \in Seq(ToServer), q # <<>>, NEW n \in Nat
  PROVE  /\ Head(q) \in ToServer /\ Tail(q) \in Seq(ToServer)
         /\ Len(q) \in Nat \ {0} /\ Len(Tail(q)) = Len(q) - 1
         /\ Head(q) = q[1]
         /\ Run(q, 0, n) /\ Head(q).type = "chunk" => Head(q).pos = n /\ Run(Tail(q), 0, n + 1)
         /\ Run(q, 0, n) /\ Head(q).type # "chunk" => Run(Tail(q), 0, n)
         /\ Run(q, 1, n) => Run(Tail(q), 0, n)
         /\ OnlyChunks(q, 0) => OnlyChunks(Tail(q), 0)
         /\ OnlyChunks(q, 1) => OnlyChunks(Tail(q), 0)
         /\ NoneOf(q, {"ack", "chunk"}) => NoneOf(Tail(q), {"ack", "chunk"})
<1>1. /\ Head(q) \in ToServer /\ Tail(q) \in Seq(ToServer)
      /\ Len(Tail(q)) = Len(q) - 1
      /\ \A i \in 1..Len(Tail(q)) : Tail(q)[i] = q[i + 1]
      BY HeadTailProperties
<1>2. Len(q) \in Nat \ {0} /\ Head(q) = q[1]
      BY EmptySeq
<1>3. Run(q, 0, n) /\ Head(q).type = "chunk" => Head(q).pos = n
      BY <1>2 DEF Run
<1>4. ASSUME Run(q, 0, n), Head(q).type = "chunk"
      PROVE  Run(Tail(q), 0, n + 1)
  <2> SUFFICES ASSUME NEW i \in 1..Len(Tail(q)), Tail(q)[i].type = "chunk"
               PROVE  /\ Tail(q)[i].pos = n + 1 + i - 1
                      /\ \A h \in 1..i : Tail(q)[h].type = "chunk"
      BY DEF Run
  <2>1. i + 1 \in 1..Len(q) /\ Tail(q)[i] = q[i + 1]
        BY <1>1, <1>2
  <2>2. q[i + 1].pos = n + (i + 1) - 1 /\ \A h \in 1..i + 1 : q[h].type = "chunk"
        BY <1>4, <2>1 DEF Run
  <2>3. \A h \in 1..i : h + 1 \in 1..i + 1 /\ Tail(q)[h] = q[h + 1]
        BY <1>1, <1>2
  <2>4. QED
        BY <2>1, <2>2, <2>3
<1>5. ASSUME Run(q, 0, n), Head(q).type # "chunk"
      PROVE  Run(Tail(q), 0, n)
  <2> SUFFICES ASSUME NEW i \in 1..Len(Tail(q)), Tail(q)[i].type = "chunk"
               PROVE  FALSE
      BY DEF Run
  <2>1. i + 1 \in 1..Len(q) /\ Tail(q)[i] = q[i + 1]
        BY <1>1, <1>2
  <2>2. q[1].type = "chunk"
        BY <1>5, <2>1 DEF Run
  <2>3. QED
        BY <1>2, <1>5, <2>2
<1>6. ASSUME Run(q, 1, n)
      PROVE  Run(Tail(q), 0, n)
  <2> SUFFICES ASSUME NEW i \in 1..Len(Tail(q)), Tail(q)[i].type = "chunk"
               PROVE  /\ Tail(q)[i].pos = n + i - 1
                      /\ \A h \in 1..i : Tail(q)[h].type = "chunk"
      BY DEF Run
  <2>1. i + 1 \in 2..Len(q) /\ Tail(q)[i] = q[i + 1]
        BY <1>1, <1>2
  <2>2. q[i + 1].pos = n + (i + 1) - 1 - 1 /\ \A h \in 2..i + 1 : q[h].type = "chunk"
        BY <1>6, <2>1 DEF Run
  <2>3. \A h \in 1..i : h + 1 \in 2..i + 1 /\ Tail(q)[h] = q[h + 1]
        BY <1>1, <1>2
  <2>4. QED
        BY <2>1, <2>2, <2>3
<1>7. /\ OnlyChunks(q, 0) => OnlyChunks(Tail(q), 0)
      /\ OnlyChunks(q, 1) => OnlyChunks(Tail(q), 0)
      /\ NoneOf(q, {"ack", "chunk"}) => NoneOf(Tail(q), {"ack", "chunk"})
  <2>1. \A i \in 1..Len(Tail(q)) : i + 1 \in 2..Len(q) /\ Tail(q)[i] = q[i + 1]
        BY <1>1, <1>2
  <2>2. QED
        BY <1>1, <1>2, <2>1 DEF OnlyChunks, NoneOf
<1>8. QED
      BY <1>1, <1>2, <1>3, <1>4, <1>5, <1>6, <1>7

LEMMA MessageSent ==
  ASSUME NEW q \in Seq(ToServer), NEW m \in ToServer, NEW n \in Nat, NEW d \in {0, 1}
  PROVE  /\ Append(q, m) \in Seq(ToServer) /\ Len(Append(q, m)) = Len(q) + 1 /\ Len(q) \in Nat
         /\ Run(q, d, n) /\ m.type # "chunk" => Run(Append(q, m), d, n)
         /\ OnlyChunks(q, d) /\ Run(q, d, n) /\ m.type = "chunk" /\ m.pos = n + Len(q) - d
              => OnlyChunks(Append(q, m), d) /\ Run(Append(q, m), d, n)
         /\ m.type \notin {"ack", "chunk"} /\ NoneOf(q, {"ack", "chunk"})
              => NoneOf(Append(q, m), {"ack", "chunk"})
<1> DEFINE p == Append(q, m)
<1>1. /\ p \in Seq(ToServer) /\ Len(p) = Len(q) + 1 /\ Len(q) \in Nat
      /\ \A i \in 1..Len(q) : p[i] = q[i]
      /\ p[Len(q) + 1] = m
      BY AppendProperties, LenProperties
<1> HIDE DEF p
<1>2. \A i \in 1..Len(p) : (i \in 1..Len(q) /\ p[i] = q[i]) \/ (i = Len(q) + 1 /\ p[i] = m)
      BY <1>1
<1>3. ASSUME Run(q, d, n), m.type # "chunk"
      PROVE  Run(p, d, n)
  <2> SUFFICES ASSUME NEW i \in d + 1..Len(p), p[i].type = "chunk"
               PROVE  /\ p[i].pos = n + i - d - 1
                      /\ \A h \in d + 1..i : p[h].type = "chunk"
      BY DEF Run
  <2>1. i \in 1..Len(p)
        BY <1>1
  <2>2. i \in d + 1..Len(q) /\ p[i] = q[i]
        BY <1>2, <1>3, <2>1
  <2>3. q[i].pos = n + i - d - 1 /\ \A h \in d + 1..i : q[h].type = "chunk"
        BY <1>3, <2>2 DEF Run
  <2>4. \A h \in d + 1..i : p[h] = q[h]
        BY <1>1, <2>2
  <2>5. QED
        BY <2>2, <2>3, <2>4
<1>4. ASSUME OnlyChunks(q, d), Run(q, d, n), m.type = "chunk", m.pos = n + Len(q) - d
      PROVE  OnlyChunks(p, d) /\ Run(p, d, n)
  <2>1. ASSUME NEW i \in d + 1..Len(p)
        PROVE  p[i].type = "chunk"
    <3>1. (i \in d + 1..Len(q) /\ p[i] = q[i]) \/ p[i] = m
          BY <1>1, <1>2
    <3>2. QED
          BY <1>4, <3>1 DEF OnlyChunks
  <2>2. \A i \in d + 1..Len(p) : p[i].pos = n + i - d - 1
    <3> SUFFICES ASSUME NEW i \in d + 1..Len(p)
                 PROVE  p[i].pos = n + i - d - 1
        OBVIOUS
    <3>1. CASE i = Len(q) + 1
          BY <1>1, <1>4, <3>1
    <3>2. CASE i # Len(q) + 1
      <4>1. i \in d + 1..Len(q) /\ p[i] = q[i]
            BY <1>1, <1>2, <3>2
      <4>2. q[i].type = "chunk"
            BY <1>4, <4>1 DEF OnlyChunks
      <4>3. QED
            BY <1>4, <4>1, <4>2 DEF Run
    <3>3. QED
          BY <3>1, <3>2
  <2>3. \A i \in d + 1..Len(p) : \A h \in d + 1..i : h \in d + 1..Len(p)
        BY <1>1
  <2>4. QED
        BY <2>1, <2>2, <2>3 DEF OnlyChunks, Run
<1>5. m.type \notin {"ack", "chunk"} /\ NoneOf(q, {"ack", "chunk"}) => NoneOf(p, {"ack", "chunk"})
      BY <1>2 DEF NoneOf
<1>6. QED
      BY <1>1, <1>3, <1>4, <1>5 DEF p

LEMMA MessagesLost ==
  ASSUME NEW q \in Seq(ToServer), NEW k \in 0..Len(q), NEW n \in Nat, NEW d \in {0, 1}
  PROVE  /\ SubSeq(q, 1, k) \in Seq(ToServer)
         /\ Run(q, d, n) => Run(SubSeq(q, 1, k), d, n)
         /\ NoneOf(q, {"ack", "chunk"}) => NoneOf(SubSeq(q, 1, k), {"ack", "chunk"})
         /\ q = <<>> => SubSeq(q, 1, k) = <<>>
<1> DEFINE p == SubSeq(q, 1, k)
<1>1. Len(q) \in Nat /\ k \in Nat /\ k <= Len(q)
      BY LenProperties
<1>2. \A i \in 1..k : q[i] \in ToServer
      BY <1>1, ElementOfSeq
<1>3. /\ p \in Seq(ToServer) /\ Len(p) = k
      /\ \A i \in 1..k : p[i] = q[i]
      BY <1>1, <1>2, SubSeqProperties
<1>4. Run(q, d, n) => Run(p, d, n)
  <2> SUFFICES ASSUME Run(q, d, n), NEW i \in d + 1..Len(p), p[i].type = "chunk"
               PROVE  /\ p[i].pos = n + i - d - 1
                      /\ \A h \in d + 1..i : p[h].type = "chunk"
      BY DEF Run
  <2>1. i \in d + 1..Len(q) /\ p[i] = q[i] /\ \A h \in d + 1..i : p[h] = q[h]
        BY <1>1, <1>3
  <2>2. QED
        BY <2>1 DEF Run
<1>5. NoneOf(q, {"ack", "chunk"}) => NoneOf(p, {"ack", "chunk"})
      BY <1>1, <1>3 DEF NoneOf
<1>6. q = <<>> => p = <<>>
  <2>1. q = <<>> => k = 0
        BY <1>1, EmptySeq
  <2>2. k = 0 => p = <<>>
        BY <1>3, EmptySeq
  <2>3. QED
        BY <2>1, <2>2
<1>7. QED
      BY <1>3, <1>4, <1>5, <1>6

-----------------------------------------------------------------------------
(* What the calls of the library do to what says how the upload ended,       *)
(* whatever socket they find in ws and whatever handlers.                    *)

JsFieldNames == DOMAIN Unused

\* The handlers are those of the library.
Wired(j) ==
  /\ DOMAIN j = JsFieldNames
  /\ j.ws \in Sockets \cup {NoSocket}
  /\ j.onmessage \in [Sockets -> Usual \cup Sockets]
  /\ j.usual \in [Sockets -> Usual \cup Sockets]

\* The upload is neither finished, nor cancelled without an error.
Spares(j, k) == /\ Wired(k)
                /\ k.finished = j.finished
                /\ k.cancelled /\ ~k.error => j.cancelled /\ ~j.error

\* Nor is another socket in ws, or another cancel possible.
Tame(j, k) == Spares(j, k) /\ k.ws = j.ws /\ (k.can_cancel => j.can_cancel)

\* What the library makes of a message m.
Answers(j, k, m) ==
  /\ Wired(k) /\ k.ws = j.ws /\ (k.can_cancel => j.can_cancel)
  /\ k.finished = j.finished \/ (k.finished = TRUE /\ m.type = "allDone")
  /\ k.cancelled /\ ~k.error => (j.cancelled /\ ~j.error) \/ m.type = "cancelAck"

LEMMA FieldNames ==
  /\ {"ws", "ready", "onmessage", "usual", "sent", "reader", "bytes_tx", "bytes_acked",
      "chunks_ahead", "conn_retry", "orphans", "finished", "cancelled", "cancelling",
      "can_cancel", "can_pause", "connected", "paused", "error"} = JsFieldNames
BY DEF JsFieldNames, Unused

LEMMA NamesApart == {"none", "conf", "acks", "final"} \cap Sockets = {}
BY BrowserAssumption DEF Usual

LEMMA TameTwice ==
  ASSUME NEW j, NEW k, NEW l, Tame(j, k), Tame(k, l)
  PROVE  Tame(j, l)
BY DEF Tame, Spares

LEMMA TameThenAnswers ==
  ASSUME NEW j, NEW k, NEW l, NEW m, Tame(j, k), Answers(k, l, m)
  PROVE  Answers(j, l, m)
BY DEF Tame, Spares, Answers

LEMMA AnswersThenTame ==
  ASSUME NEW j, NEW k, NEW l, NEW m, Answers(j, k, m), Tame(k, l)
  PROVE  Answers(j, l, m)
BY DEF Tame, Spares, Answers

LEMMA TameAnswers ==
  ASSUME NEW j, NEW k, NEW m, Tame(j, k)
  PROVE  Answers(j, k, m)
BY DEF Tame, Spares, Answers

LEMMA CallsTame ==
  ASSUME NEW j, Wired(j)
  PROVE  /\ \A m : Tame(j, Send(j, m))
         /\ Tame(j, Close(j))
         /\ \A h \in Usual \cup Sockets : Tame(j, Listen(j, h))
         /\ Tame(j, TryLoadAndSendFileChunk(j))
<1>1. \A m : Tame(j, Send(j, m))
      BY FieldNames DEF Tame, Spares, Wired, Send
<1>2. Tame(j, Close(j))
      BY FieldNames DEF Tame, Spares, Wired, Close
<1>3. ASSUME NEW h \in Usual \cup Sockets
      PROVE  Tame(j, Listen(j, h))
      BY FieldNames DEF Tame, Spares, Wired, Listen
<1>4. Tame(j, TryLoadAndSendFileChunk(j))
      BY FieldNames DEF Tame, Spares, Wired, TryLoadAndSendFileChunk
<1>5. QED
      BY <1>1, <1>2, <1>3, <1>4

LEMMA StartSpares ==
  ASSUME NEW j, Wired(j), NEW s \in Sockets
  PROVE  Spares(j, Start(j, s))
<1> DEFINE a == [j EXCEPT !.ws = s, !.ready[s] = "connecting", !.onmessage[s] = "none"]
           b == [a EXCEPT !.usual[s] = "none", !.sent[s] = <<>>, !.bytes_tx = j.bytes_acked]
           c == [b EXCEPT !.chunks_ahead = WindowAtStart(j), !.connected = FALSE,
                          !.paused = FALSE, !.can_cancel = TRUE, !.can_pause = FALSE]
           SetUp(k) == /\ k.ws = s /\ k.onmessage = [j.onmessage EXCEPT ![s] = "none"]
                       /\ k.usual \in [Sockets -> Usual \cup Sockets]
                       /\ DOMAIN k = JsFieldNames
                       /\ k.finished = j.finished /\ k.cancelled = j.cancelled /\ k.error = j.error
<1>1. Start(j, s) = c
      BY DEF Start
<1>2. SetUp(a)
      BY FieldNames DEF Wired
<1> HIDE DEF a
<1>3. SetUp(b)
      BY <1>2, FieldNames DEF Usual
<1> HIDE DEF b
<1>4. SetUp(c)
      BY <1>3, FieldNames
<1> HIDE DEF c
<1>5. c.onmessage \in [Sockets -> Usual \cup Sockets] /\ c.onmessage[s] = "none"
      BY <1>4 DEF Wired, Usual
<1>6. QED
      BY <1>1, <1>4, <1>5 DEF Spares, Wired

LEMMA CancelTame ==
  ASSUME NEW j, Wired(j)
  PROVE  Tame(j, Cancel(j))
<1> DEFINE k == [j EXCEPT !.reader = NotLoading, !.can_cancel = FALSE, !.can_pause = FALSE,
                          !.conn_retry = FALSE]
           l == Send(k, Msg("cancel"))
           n == [l EXCEPT !.cancelling = TRUE, !.usual[j.ws] = j.onmessage[j.ws]]
           z == [k EXCEPT !.cancelled = TRUE, !.error = TRUE]
           Asked == j.ws # NoSocket
<1>1. Cancel(j) = j \/ Cancel(j) = z \/ (Cancel(j) = Listen(n, j.ws) /\ Asked)
      BY DEF Cancel, IsOpen
<1>2. /\ Tame(j, k) /\ ~k.can_cancel /\ k.ws = j.ws
      /\ k.onmessage = j.onmessage /\ k.usual = j.usual
      BY FieldNames DEF Tame, Spares, Wired
<1> HIDE DEF k
<1>3. /\ Tame(j, l) /\ ~l.can_cancel /\ l.ws = j.ws
      /\ l.onmessage = j.onmessage /\ l.usual = j.usual
  <2>1. Tame(j, l)
        BY <1>2, CallsTame DEF Tame, Spares
  <2>2. /\ l.can_cancel = k.can_cancel /\ l.ws = k.ws
        /\ l.onmessage = k.onmessage /\ l.usual = k.usual
        BY <1>2, FieldNames DEF Send, Tame, Wired
  <2>3. QED
        BY <1>2, <2>1, <2>2
<1>4. Tame(j, z)
      BY <1>2, FieldNames DEF Tame, Spares, Wired
<1> HIDE DEF l, z
<1>5. ASSUME Asked
      PROVE  Tame(j, Listen(n, j.ws))
  <2>1. /\ DOMAIN n = JsFieldNames /\ n.ws = j.ws /\ n.onmessage = j.onmessage
        /\ ~n.can_cancel
        /\ n.usual = [j.usual EXCEPT ![j.ws] = j.onmessage[j.ws]]
        /\ n.finished = l.finished /\ n.cancelled = l.cancelled /\ n.error = l.error
        BY <1>3, FieldNames DEF Tame, Spares, Wired
  <2> HIDE DEF n
  <2>2. j.onmessage[j.ws] \in Usual \cup Sockets /\ j.ws \in Sockets
        BY <1>5 DEF Wired
  <2>3. n.usual \in [Sockets -> Usual \cup Sockets]
        BY <2>1, <2>2 DEF Wired
  <2>4. Tame(j, n)
        BY <1>3, <2>1, <2>3 DEF Tame, Spares, Wired
  <2>5. QED
        BY <2>1, <2>2, <2>4, CallsTame DEF Tame, Spares
<1>6. Tame(j, j)
      BY DEF Tame, Spares
<1> HIDE DEF n
<1>7. QED
      BY <1>1, <1>4, <1>5, <1>6

LEMMA PauseTame ==
  ASSUME NEW j, Wired(j)
  PROVE  Tame(j, Pause(j))
<1> DEFINE k == [j EXCEPT !.reader = NotLoading, !.conn_retry = FALSE,
                          !.paused = TRUE, !.can_cancel = FALSE]
           l == Send(k, Msg("pause"))
<1>1. Pause(j) \in {Close(l), k}
      BY DEF Pause
<1>2. Tame(j, k)
      BY FieldNames DEF Tame, Spares, Wired
<1> HIDE DEF k
<1>3. Tame(j, l)
      BY <1>2, CallsTame DEF Tame, Spares
<1> HIDE DEF l
<1>4. Tame(j, Close(l))
      BY <1>3, CallsTame DEF Tame, Spares
<1>5. QED
      BY <1>1, <1>2, <1>4

LEMMA LoadTame ==
  ASSUME NEW j, Wired(j)
  PROVE  Tame(j, OnLoad(j)) /\ Tame(j, OnLoadError(j))
<1> DEFINE k == [j EXCEPT !.reader = NotLoading]
           l == Send(k, Chunk(j.reader))
           n == [l EXCEPT !.bytes_tx = @ + 1, !.chunks_ahead = @ + 1,
                          !.can_cancel = @ /\ j.bytes_tx + 1 # Total,
                          !.can_pause = @ /\ j.bytes_tx + 1 # Total]
<1>1. OnLoad(j) \in {k, TryLoadAndSendFileChunk(n)} /\ OnLoadError(j) = Cancel(k)
      BY DEF OnLoad, OnLoadError
<1>2. Tame(j, k)
      BY FieldNames DEF Tame, Spares, Wired
<1> HIDE DEF k
<1>3. Tame(j, l)
  <2>1. Wired(k)
        BY <1>2 DEF Tame, Spares
  <2>2. Tame(k, l)
        BY <2>1, CallsTame
  <2>3. QED
        BY <1>2, <2>2, TameTwice
<1> HIDE DEF l
<1>4. Tame(j, n)
      BY <1>3, FieldNames DEF Tame, Spares, Wired, Usual
<1> HIDE DEF n
<1>5. Tame(j, TryLoadAndSendFileChunk(n))
      BY <1>4, CallsTame DEF Tame, Spares
<1>6. Tame(j, Cancel(k))
      BY <1>2, CancelTame DEF Tame, Spares
<1>7. QED
      BY <1>1, <1>2, <1>5, <1>6

LEMMA SocketTame ==
  ASSUME NEW j, Wired(j), NEW s, NEW r
  PROVE  /\ Tame(j, [j EXCEPT !.ready[s] = r])
         /\ Tame(j, OnOpen(j)) /\ Spares(j, OnClose(j)) /\ Tame(j, OnError(j))
<1>1. Tame(j, [j EXCEPT !.ready[s] = r])
      BY FieldNames DEF Tame, Spares, Wired
<1>2. Tame(j, OnOpen(j))
  <2> DEFINE k == [j EXCEPT !.connected = TRUE]
             l == Send(k, Msg("req"))
  <2>1. OnOpen(j) \in {k, Listen(l, "conf")}
        BY DEF OnOpen
  <2>2. Tame(j, k)
        BY FieldNames DEF Tame, Spares, Wired
  <2> HIDE DEF k
  <2>3. Tame(j, l)
        BY <2>2, CallsTame DEF Tame, Spares
  <2> HIDE DEF l
  <2>4. Tame(j, Listen(l, "conf"))
        BY <2>3, CallsTame DEF Tame, Spares, Usual
  <2>5. QED
        BY <2>1, <2>2, <2>4
<1>3. Spares(j, OnClose(j))
      BY FieldNames DEF Spares, Wired, OnClose
<1>4. Tame(j, OnError(j))
      BY CallsTame DEF OnError
<1>5. QED
      BY <1>1, <1>2, <1>3, <1>4

LEMMA ErrorTame ==
  ASSUME NEW j, Wired(j)
  PROVE  Tame(j, ServerError(j))
<1> DEFINE k == [j EXCEPT !.error = TRUE]
<1>1. Tame(j, k)
      BY FieldNames DEF Tame, Spares, Wired
<1>2. ServerError(j) = Cancel(k)
      BY DEF ServerError
<1> HIDE DEF k
<1>3. QED
      BY <1>1, <1>2, CancelTame DEF Tame, Spares

LEMMA ConfTame ==
  ASSUME NEW j, Wired(j), NEW m
  PROVE  Tame(j, OnConf(j, m))
<1> DEFINE k == [j EXCEPT !.bytes_acked = m.pos, !.bytes_tx = ResumeAt(j, m.pos)]
           l == Send(k, Msg("ack"))
           a == [l EXCEPT !.can_cancel = FALSE, !.can_pause = FALSE]
           b == [l EXCEPT !.can_pause = TRUE]
           c == Listen(b, "acks")
<1>1. OnConf(j, m) \in {ServerError(j), j, k, Listen(a, "final"), TryLoadAndSendFileChunk(c)}
      BY DEF OnConf
<1>2. Tame(j, k)
      BY FieldNames DEF Tame, Spares, Wired
<1> HIDE DEF k
<1>3. Tame(j, l)
      BY <1>2, CallsTame DEF Tame, Spares
<1> HIDE DEF l
<1>4. Tame(j, a) /\ Tame(j, b)
      BY <1>3, FieldNames DEF Tame, Spares, Wired, Usual
<1> HIDE DEF a, b
<1>5. Tame(j, c) /\ Tame(j, Listen(a, "final"))
      BY <1>4, CallsTame DEF Tame, Spares, Usual
<1> HIDE DEF c
<1>6. Tame(j, TryLoadAndSendFileChunk(c))
      BY <1>5, CallsTame DEF Tame, Spares
<1>7. Tame(j, j)
      BY DEF Tame, Spares
<1>8. QED
      BY <1>1, <1>2, <1>5, <1>6, <1>7, ErrorTame

LEMMA ChunkAckTame ==
  ASSUME NEW j, Wired(j), NEW m
  PROVE  Tame(j, OnChunkAck(j, m))
<1> DEFINE k == [j EXCEPT !.bytes_acked = @ + 1, !.chunks_ahead = @ - 1]
<1>1. OnChunkAck(j, m) \in {ServerError(j), j, Listen(k, "final"), TryLoadAndSendFileChunk(k)}
      BY DEF OnChunkAck
<1>2. Tame(j, k)
      BY FieldNames DEF Tame, Spares, Wired
<1> HIDE DEF k
<1>3. Tame(j, Listen(k, "final")) /\ Tame(j, TryLoadAndSendFileChunk(k))
      BY <1>2, CallsTame DEF Tame, Spares, Usual
<1>4. Tame(j, j)
      BY DEF Tame, Spares
<1>5. QED
      BY <1>1, <1>3, <1>4, ErrorTame

LEMMA FinalAnswers ==
  ASSUME NEW j, Wired(j), NEW m
  PROVE  Answers(j, OnFinal(j, m), m)
<1> DEFINE k == [j EXCEPT !.finished = TRUE]
           l == [j EXCEPT !.error = TRUE]
<1>1. \/ m.type = "allDone" /\ OnFinal(j, m) = Close(k)
      \/ OnFinal(j, m) = Close(l)
      \/ OnFinal(j, m) = j
      BY DEF OnFinal
<1>2. m.type = "allDone" => Answers(j, k, m)
      BY FieldNames DEF Answers, Wired
<1>3. Tame(j, l) /\ Tame(j, j)
      BY FieldNames DEF Tame, Spares, Wired
<1>4. Wired(k) /\ Wired(l)
      BY FieldNames DEF Wired
<1> HIDE DEF k, l
<1>5. Tame(k, Close(k)) /\ Tame(l, Close(l))
      BY <1>4, CallsTame
<1>6. QED
      BY <1>1, <1>2, <1>3, <1>5, TameTwice, TameAnswers, AnswersThenTame

LEMMA UsualAnswers ==
  ASSUME NEW j, Wired(j), NEW m, NEW handler,
         handler \in Usual
  PROVE  Answers(j, UsualHandler(j, handler, m), m)
<1>1. Tame(j, j)
      BY DEF Tame, Spares
<1>2. UsualHandler(j, handler, m) \in {OnConf(j, m), OnChunkAck(j, m), OnFinal(j, m), j}
      BY DEF UsualHandler, Usual
<1>3. QED
      BY <1>1, <1>2, ConfTame, ChunkAckTame, FinalAnswers, TameAnswers

LEMMA CancelAnswers ==
  ASSUME NEW j, Wired(j), NEW m, NEW c \in Sockets
  PROVE  Answers(j, OnCancelAck(j, c, m), m)
<1> DEFINE b == CHOOSE b \in Innermost(j, c) : TRUE
           k == UsualHandler(j, j.usual[b], m)
           a == [j EXCEPT !.cancelled = TRUE, !.cancelling = FALSE, !.can_cancel = FALSE]
           u == IF k.onmessage[k.ws] = b THEN k.usual[b] ELSE k.onmessage[k.ws]
           r == [k EXCEPT !.usual[b] = u, !.onmessage[k.ws] = c]
<1>1. \/ OnCancelAck(j, c, m) = Close(a) /\ m.type = "cancelAck"
      \/ OnCancelAck(j, c, m) = j
      \/ Innermost(j, c) # {} /\ OnCancelAck(j, c, m) = k
      \/ Innermost(j, c) # {} /\ OnCancelAck(j, c, m) = r /\ k.ws # NoSocket
      BY DEF OnCancelAck
<1>2. m.type = "cancelAck" => Answers(j, Close(a), m)
  <2>1. Wired(a) /\ (m.type = "cancelAck" => Answers(j, a, m))
        BY FieldNames DEF Wired, Answers
  <2> HIDE DEF a
  <2>2. Tame(a, Close(a))
        BY <2>1, CallsTame
  <2>3. QED
        BY <2>1, <2>2, AnswersThenTame
<1>3. Answers(j, j, m)
      BY TameAnswers DEF Tame, Spares
<1>4. ASSUME Innermost(j, c) # {}
      PROVE  Answers(j, k, m) /\ (k.ws # NoSocket => Answers(j, r, m))
  <2>1. b \in Innermost(j, c)
        BY <1>4
  <2>2. b \in Sockets /\ j.usual[b] \in Usual
        BY <2>1 DEF Innermost, Called
  <2> HIDE DEF b
  <2>3. Answers(j, k, m)
        BY <2>2, UsualAnswers
  <2> HIDE DEF k
  <2>4. ASSUME k.ws # NoSocket
        PROVE  Answers(j, r, m)
    <3>1. k.ws \in Sockets /\ u \in Usual \cup Sockets
          BY <2>2, <2>3, <2>4 DEF Answers, Wired
    <3> HIDE DEF u
    <3>2. /\ DOMAIN r = JsFieldNames /\ r.ws = k.ws /\ r.can_cancel = k.can_cancel
          /\ r.usual = [k.usual EXCEPT ![b] = u]
          /\ r.onmessage = [k.onmessage EXCEPT ![k.ws] = c]
          /\ r.finished = k.finished /\ r.cancelled = k.cancelled /\ r.error = k.error
          BY <2>3, FieldNames DEF Answers, Wired
    <3> HIDE DEF r
    <3>3. Wired(r)
      <4>1. /\ k.onmessage \in [Sockets -> Usual \cup Sockets]
            /\ k.usual \in [Sockets -> Usual \cup Sockets]
            /\ k.ws \in Sockets \cup {NoSocket}
            BY <2>3 DEF Answers, Wired
      <4>2. r.onmessage \in [Sockets -> Usual \cup Sockets]
            BY <3>2, <4>1
      <4>3. r.usual \in [Sockets -> Usual \cup Sockets]
            BY <3>1, <3>2, <4>1
      <4>4. QED
            BY <3>2, <4>1, <4>2, <4>3 DEF Wired
    <3>4. QED
          BY <2>3, <3>2, <3>3 DEF Answers
  <2>5. QED
        BY <2>3, <2>4
<1>5. QED
      BY <1>1, <1>2, <1>3, <1>4

LEMMA MessageAnswers ==
  ASSUME NEW j, Wired(j), NEW m, NEW s \in Sockets
  PROVE  Answers(j, OnMessage(j, s, m), m)
BY CancelAnswers, UsualAnswers DEF OnMessage, Wired

-----------------------------------------------------------------------------
(* What the calls of the library do to the record.                           *)

SameSockets(j, k) == k.ws = j.ws /\ k.ready = j.ready
SameHandlers(j, k) == k.onmessage = j.onmessage /\ k.usual = j.usual
SamePlace(j, k) == /\ k.reader = j.reader /\ k.bytes_tx = j.bytes_tx
                   /\ k.bytes_acked = j.bytes_acked
SameFlags(j, k) == /\ k.conn_retry = j.conn_retry /\ k.orphans = j.orphans
                   /\ k.finished = j.finished /\ k.cancelled = j.cancelled
                   /\ k.cancelling = j.cancelling /\ k.can_cancel = j.can_cancel
                   /\ k.paused = j.paused /\ k.error = j.error

LEMMA JsFields ==
  ASSUME NEW j \in JsRecord
  PROVE  /\ j.ws \in Sockets \cup {NoSocket}
         /\ j.ready \in [Sockets -> Ready]
         /\ j.onmessage \in [Sockets -> Usual \cup Sockets] /\ j.onmessage \in Handlings
         /\ \A s \in Sockets : j.onmessage[s] \in Usual \cup {s}
         /\ j.usual \in [Sockets -> Usual]
         /\ j.sent \in [Sockets -> Seq(ToServer)]
         /\ j.reader \in 0..Total - 1 \cup {NotLoading}
         /\ j.bytes_tx \in 0..Total /\ j.bytes_acked \in 0..Total /\ j.chunks_ahead \in Int
         /\ j.orphans \in Nat
BY DEF JsRecord, Handlings

LEMMA SentSet ==
  ASSUME NEW j \in JsRecord, NEW s \in Sockets, NEW q \in Seq(ToServer),
         NEW k, k = [j EXCEPT !.sent[s] = q]
  PROVE  /\ k \in JsRecord
         /\ k.sent = [j.sent EXCEPT ![s] = q]
         /\ SameSockets(j, k) /\ SameHandlers(j, k) /\ SamePlace(j, k) /\ SameFlags(j, k)
BY DEF JsRecord, SameSockets, SameHandlers, SamePlace, SameFlags

LEMMA SendEffect ==
  ASSUME NEW j \in JsRecord, NEW m \in ToServer, NEW k, k = Send(j, m)
  PROVE  /\ k \in JsRecord
         /\ IF IsOpen(j) /\ link[j.ws] = "up"
            THEN k.sent = [j.sent EXCEPT ![j.ws] = Append(j.sent[j.ws], m)]
            ELSE k.sent = j.sent
         /\ SameSockets(j, k) /\ SameHandlers(j, k) /\ SamePlace(j, k) /\ SameFlags(j, k)
<1>1. CASE IsOpen(j) /\ link[j.ws] = "up"
  <2> DEFINE s == j.ws
             q == Append(j.sent[s], m)
  <2>1. s \in Sockets
        BY <1>1, JsFields DEF IsOpen
  <2>2. q \in Seq(ToServer)
        BY <2>1, JsFields, AppendProperties
  <2>3. k = [j EXCEPT !.sent[s] = q]
        BY <1>1 DEF Send
  <2>4. /\ k \in JsRecord
        /\ k.sent = [j.sent EXCEPT ![s] = q]
        /\ SameSockets(j, k) /\ SameHandlers(j, k) /\ SamePlace(j, k) /\ SameFlags(j, k)
    <3> HIDE DEF s, q
    <3> QED
        BY <2>1, <2>2, <2>3, SentSet
  <2>5. QED
        BY <1>1, <2>4
<1>2. CASE ~(IsOpen(j) /\ link[j.ws] = "up")
      BY <1>2 DEF Send, SameSockets, SameHandlers, SamePlace, SameFlags
<1>3. QED
      BY <1>1, <1>2

LEMMA CloseEffect ==
  ASSUME NEW j \in JsRecord, NEW k, k = Close(j)
  PROVE  /\ k \in JsRecord
         /\ IF j.ws # NoSocket /\ j.ready[j.ws] \in {"connecting", "open"}
            THEN k.ready = [j.ready EXCEPT ![j.ws] = "closing"]
            ELSE k.ready = j.ready
         /\ k.ws = j.ws /\ k.sent = j.sent
         /\ SameHandlers(j, k) /\ SamePlace(j, k) /\ SameFlags(j, k)
<1>1. CASE j.ws # NoSocket /\ j.ready[j.ws] \in {"connecting", "open"}
  <2>1. j.ws \in Sockets /\ k = [j EXCEPT !.ready[j.ws] = "closing"]
        BY <1>1, JsFields DEF Close
  <2>2. k \in JsRecord
    <3>1. "closing" \in Ready
          BY DEF Ready
    <3>2. [j EXCEPT !.ready[j.ws] = "closing"] \in JsRecord
          BY <2>1, <3>1 DEF JsRecord
    <3>3. QED
          BY <2>1, <3>2
  <2>3. k.ready = [j.ready EXCEPT ![j.ws] = "closing"] /\ k.ws = j.ws /\ k.sent = j.sent
        BY <2>1 DEF JsRecord
  <2>4. SameHandlers(j, k) /\ SamePlace(j, k) /\ SameFlags(j, k)
        BY <2>1 DEF JsRecord, SameHandlers, SamePlace, SameFlags
  <2>5. QED
        BY <1>1, <2>2, <2>3, <2>4
<1>2. CASE ~(j.ws # NoSocket /\ j.ready[j.ws] \in {"connecting", "open"})
      BY <1>2 DEF Close, SameHandlers, SamePlace, SameFlags
<1>3. QED
      BY <1>1, <1>2

LEMMA ListenEffect ==
  ASSUME NEW j \in JsRecord, NEW h \in Usual \cup {j.ws}, NEW k, k = Listen(j, h)
  PROVE  /\ k \in JsRecord
         /\ IF j.ws = NoSocket THEN k.onmessage = j.onmessage
                               ELSE k.onmessage = [j.onmessage EXCEPT ![j.ws] = h]
         /\ k.usual = j.usual /\ k.sent = j.sent
         /\ SameSockets(j, k) /\ SamePlace(j, k) /\ SameFlags(j, k)
<1>1. CASE j.ws # NoSocket
  <2>1. j.ws \in Sockets /\ k = [j EXCEPT !.onmessage[j.ws] = h]
        BY <1>1, JsFields DEF Listen
  <2>2. k \in JsRecord
    <3>1. [j.onmessage EXCEPT ![j.ws] = h] \in Handlings
          BY <2>1, JsFields DEF Handlings
    <3>2. [j EXCEPT !.onmessage[j.ws] = h] \in JsRecord
          BY <2>1, <3>1 DEF JsRecord
    <3>3. QED
          BY <2>1, <3>2
  <2>3. /\ k.onmessage = [j.onmessage EXCEPT ![j.ws] = h]
        /\ k.usual = j.usual /\ k.sent = j.sent
        BY <2>1 DEF JsRecord
  <2>4. SameSockets(j, k) /\ SamePlace(j, k) /\ SameFlags(j, k)
        BY <2>1 DEF JsRecord, SameSockets, SamePlace, SameFlags
  <2>5. QED
        BY <1>1, <2>2, <2>3, <2>4
<1>2. CASE j.ws = NoSocket
      BY <1>2 DEF Listen, SameSockets, SamePlace, SameFlags
<1>3. QED
      BY <1>1, <1>2

LEMMA LoadEffect ==
  ASSUME NEW j \in JsRecord, NEW k, k = TryLoadAndSendFileChunk(j)
  PROVE  /\ k \in JsRecord
         /\ k.reader = j.reader \/ (k.reader = j.bytes_tx /\ j.bytes_tx < Total)
         /\ k.bytes_tx = j.bytes_tx /\ k.bytes_acked = j.bytes_acked /\ k.sent = j.sent
         /\ SameSockets(j, k) /\ SameHandlers(j, k) /\ SameFlags(j, k)
<1>1. CASE k = [j EXCEPT !.reader = j.bytes_tx] /\ j.bytes_tx < Total
  <2>1. j.bytes_tx \in 0..Total - 1
        BY <1>1, JsFields, BrowserAssumption
  <2>2. k \in JsRecord
    <3>1. [j EXCEPT !.reader = j.bytes_tx] \in JsRecord
          BY <2>1 DEF JsRecord
    <3>2. QED
          BY <1>1, <3>1
  <2>3. /\ k.reader = j.bytes_tx /\ k.bytes_tx = j.bytes_tx
        /\ k.bytes_acked = j.bytes_acked /\ k.sent = j.sent
        BY <1>1 DEF JsRecord
  <2>4. SameSockets(j, k) /\ SameHandlers(j, k) /\ SameFlags(j, k)
        BY <1>1 DEF JsRecord, SameSockets, SameHandlers, SameFlags
  <2>5. QED
        BY <1>1, <2>2, <2>3, <2>4
<1>2. CASE k = j
      BY <1>2 DEF SameSockets, SameHandlers, SameFlags
<1>3. QED
      BY <1>1, <1>2 DEF TryLoadAndSendFileChunk, MoreToSend

-----------------------------------------------------------------------------
(* What keeps the invariant, for fixed link, session, stored, upload and     *)
(* accepted.                                                                 *)

\* The socket may begin to close and a load may be given up; if a control message is
\* sent, or some flag is set, then no more chunks are.
Quiet(j, k) ==
  /\ j.finished => k.finished
  /\ k.ws = j.ws /\ k.orphans = j.orphans
  /\ \/ k.ready = j.ready
     \/ j.ws \in Sockets /\ k.ready = [j.ready EXCEPT ![j.ws] = "closing"] /\ j.ready[j.ws] # "closed"
  /\ \A s \in Sockets : Handler(k, s) = Handler(j, s)
  /\ \A s \in Sockets : k.ready[s] = "open" /\ k.onmessage[s] \in Sockets => ~k.can_cancel
  /\ k.reader = j.reader \/ k.reader = NotLoading
  /\ k.bytes_tx = j.bytes_tx /\ k.bytes_acked = j.bytes_acked
  /\ \/ k.sent = j.sent /\ (Sends(k) => Sends(j))
     \/ /\ IsOpen(j) /\ link[j.ws] = "up" /\ ~Sends(k)
        /\ \E m \in ToServer : /\ m.type \notin {"ack", "chunk"}
                               /\ k.sent = [j.sent EXCEPT ![j.ws] = Append(j.sent[j.ws], m)]
  /\ k.conn_retry => j.conn_retry /\ ~k.finished /\ ~k.cancelled
  /\ k.finished => accepted
  /\ k.cancelled /\ ~k.error => upload = "discarded"

\* What is finished stays finished.
Onward(j, k) == j.finished => k.finished

LEMMA SameOnward ==
  ASSUME NEW j, NEW k, k.finished = j.finished
  PROVE  Onward(j, k)
BY DEF Onward

LEMMA QuietKeeps ==
  ASSUME NEW j \in JsRecord, NEW k \in JsRecord, NEW tb, stored \in Seq(0..Total - 1),
         LibraryInv(j, tb), Quiet(j, k)
  PROVE  LibraryInv(k, tb) /\ Onward(j, k)
<1> USE DEF LibraryInv
<1>1. \A s \in Sockets : /\ k.ready[s] # "closed" <=> j.ready[s] # "closed"
                         /\ k.ready[s] \in {"open", "connecting"} => k.ready[s] = j.ready[s]
  <2>1. j.ready \in [Sockets -> Ready]
        BY JsFields
  <2>2. QED
        BY <2>1 DEF Quiet
<1>2. SocketInv(k)
  <2>1. k.conn_retry => k.ws = NoSocket /\ ~k.finished /\ ~k.cancelled
        BY DEF Quiet, SocketInv
  <2>2. \A s \in Sockets : k.ready[s] # "closed" => k.ws = s
        BY <1>1 DEF Quiet, SocketInv
  <2>3. \A s \in Sockets : k.ready[s] = "connecting" => session[s] = "none" /\ Handler(k, s) = "none"
        BY <1>1 DEF Quiet, SocketInv
  <2>4. \A s \in Sockets : k.ready[s] = "open" =>
          /\ link[s] = "up" => session[s] # "none"
          /\ Handler(k, s) # "none"
          /\ k.onmessage[s] \in Sockets => ~k.can_cancel
        BY <1>1 DEF Quiet, SocketInv
  <2>5. k.orphans = 0
        BY DEF Quiet, SocketInv
  <2>6. QED
        BY <2>1, <2>2, <2>3, <2>4, <2>5 DEF SocketInv
<1>3. ReaderInv(k)
      BY <1>1 DEF Quiet, ReaderInv
<1>4. Len(stored) \in Nat
      BY LenProperties
<1>5. SentInv(k)
  <2>1. CASE k.sent = j.sent
        BY <2>1 DEF SentInv, SentAt
  <2>2. CASE k.sent # j.sent
    <3>1. /\ j.ws \in Sockets /\ j.ready[j.ws] = "open" /\ link[j.ws] = "up"
          /\ session[j.ws] # "none"
          BY <2>2, JsFields DEF Quiet, IsOpen, SocketInv
    <3>2. PICK m \in ToServer :
            /\ m.type \notin {"ack", "chunk"}
            /\ k.sent = [j.sent EXCEPT ![j.ws] = Append(j.sent[j.ws], m)]
          BY <2>2 DEF Quiet
    <3>3. \A s \in Sockets : s # j.ws => k.sent[s] = j.sent[s]
          BY <3>2, JsFields
    <3>4. j.sent[j.ws] \in Seq(ToServer) /\ k.sent[j.ws] = Append(j.sent[j.ws], m)
          BY <3>1, <3>2, JsFields
    <3>5. /\ NoneOf(j.sent[j.ws], {"ack", "chunk"}) => NoneOf(k.sent[j.ws], {"ack", "chunk"})
          /\ Run(j.sent[j.ws], 0, Len(stored)) => Run(k.sent[j.ws], 0, Len(stored))
          /\ Run(j.sent[j.ws], 1, Len(stored)) => Run(k.sent[j.ws], 1, Len(stored))
          BY <1>4, <3>2, <3>4, MessageSent
    <3>6. QED
          BY <3>1, <3>3, <3>5 DEF SentInv, SentAt
  <2>3. QED
        BY <2>1, <2>2
<1>6. ASSUME NEW s \in Sockets, NoneOf(j.sent[s], {"ack", "chunk"})
      PROVE  NoneOf(k.sent[s], {"ack", "chunk"})
  <2>1. CASE k.sent[s] = j.sent[s]
        BY <1>6, <2>1
  <2>2. CASE k.sent[s] # j.sent[s]
    <3>1. PICK m \in ToServer : /\ m.type \notin {"ack", "chunk"}
                                /\ k.sent = [j.sent EXCEPT ![j.ws] = Append(j.sent[j.ws], m)]
          BY <2>2 DEF Quiet
    <3>2. k.sent[s] = Append(j.sent[s], m) /\ j.sent[s] \in Seq(ToServer)
          BY <2>2, <3>1, JsFields
    <3>3. QED
          BY <1>4, <1>6, <3>1, <3>2, MessageSent
  <2>3. QED
        BY <2>1, <2>2
<1>7. WireInv(k, tb)
  <2>1. \A s \in Sockets, d \in {0, 1} : Flows(j, tb, s, d) => Flows(k, tb, s, d)
        BY DEF Quiet, Flows
  <2>2. \A s \in Sockets : Resumes(j, tb, s) => Resumes(k, tb, s)
        BY <1>6 DEF Quiet, Resumes
  <2>3. QED
        BY <1>1, <2>1, <2>2 DEF Quiet, WireInv, WireAt
<1>8. MailInv(k, tb)
  <2>1. /\ k.bytes_acked = j.bytes_acked
        /\ \A s \in Sockets :
             /\ k.ready[s] \in {"closed", "connecting"} => j.ready[s] \in {"closed", "connecting"}
             /\ k.ready[s] = "open" => j.ready[s] = "open"
        BY <1>1 DEF Quiet
  <2>2. MailInv(j, tb)
        OBVIOUS
  <2> HIDE DEF LibraryInv
  <2>3. QED
        BY <2>1, <2>2 DEF MailInv, MailAt
<1>9. EndInv(k)
      BY DEF Quiet, EndInv
<1>10. Onward(j, k)
       BY JsFields DEF Quiet, Onward
<1>11. QED
       BY <1>2, <1>3, <1>5, <1>7, <1>8, <1>9, <1>10

\* All sockets that are not closed take chunk acks or wait for the final message.
Receptive(j) == \A s \in Sockets : j.ready[s] # "closed" => Handler(j, s) \in {"acks", "final"}

LEMMA LoadKeeps ==
  ASSUME NEW j \in JsRecord, NEW tb, LibraryInv(j, tb), Receptive(j)
  PROVE  LibraryInv(TryLoadAndSendFileChunk(j), tb)
<1> DEFINE k == TryLoadAndSendFileChunk(j)
<1>1. /\ k \in JsRecord
      /\ k.reader = j.reader \/ (k.reader = j.bytes_tx /\ j.bytes_tx < Total)
      /\ k.bytes_tx = j.bytes_tx /\ k.bytes_acked = j.bytes_acked /\ k.sent = j.sent
      /\ SameSockets(j, k) /\ SameHandlers(j, k) /\ SameFlags(j, k)
      BY LoadEffect
<1> HIDE DEF k
<1>2. \A s \in Sockets : Handler(k, s) = Handler(j, s) /\ k.ready[s] = j.ready[s]
      BY <1>1 DEF Handler, SameHandlers, SameSockets
<1>3. Sends(k) <=> Sends(j)
      BY <1>1 DEF Sends, SameFlags
<1>4. SocketInv(k)
      BY <1>1, <1>2 DEF LibraryInv, SocketInv, SameSockets, SameHandlers, SameFlags
<1>5. ReaderInv(k)
      BY <1>1, <1>2 DEF LibraryInv, ReaderInv, Receptive
<1>6. SentInv(k)
      BY <1>1 DEF LibraryInv, SentInv, SentAt
<1>7. WireInv(k, tb)
  <2>1. \A s \in Sockets, d \in {0, 1} : Flows(j, tb, s, d) => Flows(k, tb, s, d)
        BY <1>1, <1>2, <1>3 DEF Flows
  <2>2. \A s \in Sockets : Resumes(j, tb, s) => Resumes(k, tb, s)
        BY <1>1, <1>2, <1>3 DEF Resumes
  <2>3. QED
        BY <1>1, <1>2, <1>3, <2>1, <2>2 DEF LibraryInv, WireInv, WireAt
<1>8. MailInv(k, tb) /\ EndInv(k)
      BY <1>1 DEF LibraryInv, MailInv, MailAt, EndInv, SameSockets, SameFlags
<1>9. QED
      BY <1>1, <1>4, <1>5, <1>6, <1>7, <1>8 DEF LibraryInv, k

\* The loaded chunk is sent.
SendsChunk(j, k) ==
  /\ SameSockets(j, k) /\ SameHandlers(j, k)
  /\ k.reader = NotLoading /\ k.bytes_tx = j.bytes_tx + 1 /\ k.bytes_acked = j.bytes_acked
  /\ IF link[j.ws] = "up"
     THEN k.sent = [j.sent EXCEPT ![j.ws] = Append(j.sent[j.ws], Chunk(j.reader))]
     ELSE k.sent = j.sent
  /\ k.conn_retry = j.conn_retry /\ k.orphans = j.orphans
  /\ k.finished = j.finished /\ k.cancelled = j.cancelled /\ k.cancelling = j.cancelling
  /\ k.paused = j.paused /\ k.error = j.error
  /\ k.can_cancel => j.can_cancel

LEMMA ChunkSentKeeps ==
  ASSUME NEW j \in JsRecord, NEW k \in JsRecord, NEW tb, stored \in Seq(0..Total - 1),
         LibraryInv(j, tb), j.reader # NotLoading, Sends(j), IsOpen(j), SendsChunk(j, k)
  PROVE  LibraryInv(k, tb)
<1> USE DEF LibraryInv
<1> DEFINE w == j.ws
           m == Chunk(j.reader)
           n == Len(stored)
<1>1. /\ w \in Sockets /\ j.ready[w] = "open" /\ Handler(j, w) \in {"acks", "final"}
      /\ j.reader = j.bytes_tx /\ j.bytes_tx < Total
      /\ \A s \in Sockets : j.ready[s] # "closed" => s = w
      BY JsFields DEF IsOpen, ReaderInv, SocketInv
<1>2. /\ m \in ToServer /\ m.type = "chunk" /\ m.pos = j.bytes_tx /\ n \in Nat
      /\ j.bytes_tx \in Nat
      BY <1>1, JsFields, LenProperties, BrowserAssumption DEF Chunk, ToServer
<1>3. \A s \in Sockets : Handler(k, s) = Handler(j, s) /\ k.ready[s] = j.ready[s]
      BY DEF SendsChunk, Handler, SameHandlers, SameSockets
<1>4. Sends(k)
      BY DEF Sends, SendsChunk
<1>5. SocketInv(k) /\ ReaderInv(k)
      BY <1>3 DEF SocketInv, ReaderInv, SendsChunk, SameSockets, SameHandlers
<1>6. MailInv(k, tb) /\ EndInv(k)
      BY <1>3 DEF MailInv, MailAt, EndInv, SendsChunk
<1>7. CASE link[w] # "up"
  <2>1. SentInv(k)
        BY <1>7 DEF SentInv, SentAt, SendsChunk
  <2>2. WireInv(k, tb)
        BY <1>1, <1>3, <1>7 DEF WireInv, WireAt
  <2>3. QED
        BY <1>5, <1>6, <2>1, <2>2
<1>8. CASE link[w] = "up"
  <2>1. /\ k.sent = [j.sent EXCEPT ![w] = Append(j.sent[w], m)]
        /\ \A s \in Sockets : s # w => k.sent[s] = j.sent[s]
        /\ j.sent[w] \in Seq(ToServer) /\ k.sent[w] = Append(j.sent[w], m)
        BY <1>1, <1>8, JsFields DEF SendsChunk
  <2>2. /\ session[w] # "none" /\ session[w] # "request"
        /\ session[w] = "ack" => Flows(j, tb, w, 1)
        /\ session[w] = "chunks" => Flows(j, tb, w, 0)
        BY <1>1, <1>8 DEF SocketInv, WireInv, WireAt, Resumes
  <2>3. ASSUME NEW d \in {0, 1}, Flows(j, tb, w, d), Run(j.sent[w], d, n)
        PROVE  Flows(k, tb, w, d) /\ Run(k.sent[w], d, n)
    <3>1. /\ OnlyChunks(j.sent[w], d) /\ d <= Len(j.sent[w])
          /\ j.bytes_tx = n + Len(j.sent[w]) - d
          BY <2>3 DEF Flows
    <3>2. /\ Len(k.sent[w]) = Len(j.sent[w]) + 1 /\ Len(j.sent[w]) \in Nat
          /\ OnlyChunks(k.sent[w], d) /\ Run(k.sent[w], d, n)
      <4> DEFINE q == j.sent[w]
      <4>1. q \in Seq(ToServer) /\ k.sent[w] = Append(q, m) /\ Run(q, d, n)
            /\ OnlyChunks(q, d) /\ m.pos = n + Len(q) - d
            BY <1>2, <2>1, <2>3, <3>1
      <4> HIDE DEF m, n, q
      <4>2. Len(Append(q, m)) = Len(q) + 1 /\ Len(q) \in Nat
            /\ OnlyChunks(Append(q, m), d) /\ Run(Append(q, m), d, n)
            BY <1>2, <4>1, MessageSent
      <4>3. QED
            BY <4>1, <4>2 DEF q
    <3>3. k.bytes_tx = n + Len(k.sent[w]) - d /\ d <= Len(k.sent[w])
      <4>1. k.bytes_tx = j.bytes_tx + 1
            BY DEF SendsChunk
      <4> HIDE DEF w, n
      <4>2. QED
            BY <1>2, <3>1, <3>2, <4>1
    <3>4. QED
          BY <1>1, <1>3, <2>3, <3>2, <3>3 DEF Flows, SendsChunk
  <2>4. /\ session[w] = "ack" => Flows(k, tb, w, 1) /\ Run(k.sent[w], 1, n)
        /\ session[w] = "chunks" => Flows(k, tb, w, 0) /\ Run(k.sent[w], 0, n)
        BY <1>1, <2>2, <2>3 DEF SentInv, SentAt
  <2>5. SentInv(k)
    <3>1. ASSUME NEW s \in Sockets, s # w
          PROVE  k.sent[s] = j.sent[s]
          BY <2>1, <3>1
    <3>2. QED
          BY <2>2, <2>4, <3>1, Zenon DEF SentInv, SentAt
  <2>6. WireInv(k, tb)
    <3>1. \A s \in Sockets : k.ready[s] = "open" => s = w
          BY <1>1, <1>3
    <3>2. QED
          BY <2>2, <2>4, <3>1, Zenon DEF WireInv, WireAt
  <2>7. QED
        BY <1>5, <1>6, <2>5, <2>6
<1>9. QED
      BY <1>7, <1>8

\* Messages that the browser reads.
LEMMA MailRead ==
  ASSUME NEW tb \in [Sockets -> Seq(ToBrowser)], NEW w \in Sockets, tb[w] # <<>>,
         NEW tc, tc = [tb EXCEPT ![w] = Tail(@)]
  PROVE  /\ tc \in [Sockets -> Seq(ToBrowser)]
         /\ \A s \in Sockets : s # w => tc[s] = tb[s]
         /\ Len(tc[w]) \in Nat /\ Len(tb[w]) = Len(tc[w]) + 1
         /\ \A i \in 1..Len(tc[w]) : i + 1 \in 2..Len(tb[w]) /\ tc[w][i] = tb[w][i + 1]
         /\ Head(tb[w]) = tb[w][1] /\ Head(tb[w]) \in ToBrowser
<1>1. tb[w] \in Seq(ToBrowser) /\ tc[w] = Tail(tb[w])
      BY DEF ToBrowser
<1>2. /\ Head(tb[w]) \in ToBrowser /\ tc[w] \in Seq(ToBrowser)
      /\ Len(tc[w]) = Len(tb[w]) - 1
      /\ \A i \in 1..Len(tc[w]) : tc[w][i] = tb[w][i + 1]
      BY <1>1, HeadTailProperties
<1>3. Len(tb[w]) \in Nat \ {0}
      BY <1>1, EmptySeq
<1>4. tc \in [Sockets -> Seq(ToBrowser)] /\ \A s \in Sockets : s # w => tc[s] = tb[s]
      BY <1>1, <1>2
<1>5. Head(tb[w]) = tb[w][1]
      BY <1>1
<1> HIDE DEF ToBrowser
<1>6. /\ Len(tc[w]) \in Nat /\ Len(tb[w]) = Len(tc[w]) + 1
      /\ \A i \in 1..Len(tc[w]) : i + 1 \in 2..Len(tb[w])
      BY <1>2, <1>3
<1>7. QED
      BY <1>2, <1>4, <1>5, <1>6

LEMMA MailKept ==
  ASSUME NEW j, NEW k, NEW tb \in [Sockets -> Seq(ToBrowser)], NEW w \in Sockets,
         tb[w] # <<>>, NEW tc, tc = [tb EXCEPT ![w] = Tail(@)],
         stored \in Seq(0..Total - 1),
         MailInv(j, tb), k.ready = j.ready, j.ready[w] = "open",
         \A s \in Sockets : j.ready[s] # "closed" => s = w,
         j.bytes_acked \in Nat, k.bytes_acked \in Nat,
         \/ k.bytes_acked = j.bytes_acked
         \/ k.bytes_acked = j.bytes_acked + 1
         \/ Head(tb[w]).type = "conf"
  PROVE  MailInv(k, tc)
<1>1. /\ \A s \in Sockets : s # w => tc[s] = tb[s]
      /\ \A i \in 1..Len(tc[w]) : i + 1 \in 2..Len(tb[w]) /\ tc[w][i] = tb[w][i + 1]
      /\ Head(tb[w]) = tb[w][1] /\ Len(tc[w]) \in Nat /\ Len(stored) \in Nat
      BY MailRead, LenProperties
<1>2. ASSUME NEW i \in 1..Len(tc[w]), tc[w][i].type = "chunkAck"
      PROVE  /\ k.bytes_acked + i <= Len(stored)
             /\ \A h \in 1..i : tc[w][h].type # "conf"
  <2>1. i + 1 \in 2..Len(tb[w]) /\ tb[w][i + 1].type = "chunkAck"
        BY <1>1, <1>2
  <2>2. /\ j.bytes_acked + (i + 1) <= Len(stored)
        /\ \A h \in 1..i + 1 : tb[w][h].type # "conf"
        BY <2>1 DEF MailInv, MailAt
  <2>3. Head(tb[w]).type # "conf"
        BY <1>1, <2>2
  <2>4. k.bytes_acked + i <= Len(stored)
        BY <1>1, <2>2, <2>3
  <2>5. \A h \in 1..i : h + 1 \in 1..i + 1 /\ tc[w][h] = tb[w][h + 1]
        BY <1>1
  <2>6. QED
        BY <2>2, <2>4, <2>5
<1>3. ASSUME NEW i \in 1..Len(tc[w])
      PROVE  /\ tc[w][i].type = "conf" => tc[w][i].pos <= Len(stored)
             /\ tc[w][i].type = "cancelAck" => upload = "discarded"
             /\ tc[w][i].type = "allDone" => accepted
  <2>1. i + 1 \in 1..Len(tb[w]) /\ tc[w][i] = tb[w][i + 1]
        BY <1>1
  <2>2. QED
        BY <2>1 DEF MailInv, MailAt
<1>4. \A s \in Sockets : s # w => k.ready[s] # "open"
      BY DEF Ready
<1>5. ASSUME NEW s \in Sockets
      PROVE  MailAt(k, tc, s)
  <2>1. CASE s = w
    <3>1. k.ready[w] \notin {"closed", "connecting"}
          OBVIOUS
    <3>2. \A i \in 1..Len(tc[w]) :
            /\ tc[w][i].type = "conf" => tc[w][i].pos <= Len(stored)
            /\ tc[w][i].type = "cancelAck" => upload = "discarded"
            /\ tc[w][i].type = "allDone" => accepted
            /\ tc[w][i].type = "chunkAck" /\ k.ready[w] = "open" =>
                 /\ k.bytes_acked + i <= Len(stored)
                 /\ \A h \in 1..i : tc[w][h].type # "conf"
          BY <1>2, <1>3, Zenon
    <3>3. MailAt(k, tc, w)
          BY <3>1, <3>2 DEF MailAt
    <3>4. QED
          BY <2>1, <3>3
  <2>2. CASE s # w
    <3>1. tc[s] = tb[s] /\ k.ready[s] = j.ready[s] /\ k.ready[s] # "open"
          BY <1>1, <1>4, <2>2
    <3>2. MailAt(j, tb, s)
          BY DEF MailInv
    <3>3. QED
          BY <3>1, <3>2 DEF MailAt
  <2>3. QED
        BY <2>1, <2>2
<1>6. QED
      BY <1>5 DEF MailInv

\* A message of the session in ws is read: chunks that flow go on to flow.
LEMMA FlowKept ==
  ASSUME NEW j, NEW k, NEW tb \in [Sockets -> Seq(ToBrowser)], NEW w \in Sockets,
         tb[w] # <<>>, NEW tc, tc = [tb EXCEPT ![w] = Tail(@)], NEW d,
         stored \in Seq(0..Total - 1),
         Flows(j, tb, w, d), Handler(k, w) \in {"acks", "final"},
         j.bytes_acked \in Nat, k.bytes_acked \in {j.bytes_acked, j.bytes_acked + 1},
         k.sent = j.sent, k.bytes_tx = j.bytes_tx, Sends(k) => Sends(j)
  PROVE  Flows(k, tc, w, d)
<1>1. /\ Len(tc[w]) \in Nat /\ Len(tb[w]) = Len(tc[w]) + 1
      /\ \A i \in 1..Len(tc[w]) : i + 1 \in 2..Len(tb[w]) /\ tc[w][i] = tb[w][i + 1]
      BY MailRead
<1>2. NoneOf(tc[w], {"conf"})
      BY <1>1 DEF Flows, NoneOf
<1>3. k.bytes_acked + Len(tc[w]) <= Len(stored)
      BY <1>1, LenProperties DEF Flows
<1>4. QED
      BY <1>2, <1>3 DEF Flows

\* A message that changes nothing, or a chunk ack.
LEMMA AckKeeps ==
  ASSUME NEW j \in JsRecord, NEW k \in JsRecord, NEW tb, NEW w \in Sockets,
         stored \in Seq(0..Total - 1),
         LibraryInv(j, tb), j.ready[w] = "open", tb[w] # <<>>,
         NEW tc, tc = [tb EXCEPT ![w] = Tail(@)],
         SameSockets(j, k), SameHandlers(j, k), SameFlags(j, k),
         k.sent = j.sent, k.reader = j.reader, k.bytes_tx = j.bytes_tx,
         \/ k.bytes_acked = j.bytes_acked /\ (Head(tb[w]).type = "conf" => Handler(j, w) # "conf")
         \/ k.bytes_acked = j.bytes_acked + 1 /\ Head(tb[w]).type = "chunkAck"
  PROVE  LibraryInv(k, tc)
<1> USE DEF LibraryInv
<1>1. /\ tc \in [Sockets -> Seq(ToBrowser)] /\ \A s \in Sockets : s # w => tc[s] = tb[s]
      /\ Head(tb[w]) = tb[w][1] /\ 1 \in 1..Len(tb[w])
      BY MailRead
<1>2. /\ \A s \in Sockets : Handler(k, s) = Handler(j, s) /\ k.ready[s] = j.ready[s]
      /\ Sends(k) <=> Sends(j)
      BY DEF Handler, Sends, SameHandlers, SameSockets, SameFlags
<1>3. \A s \in Sockets : j.ready[s] # "closed" => s = w
      BY DEF SocketInv
<1>4. SocketInv(k) /\ ReaderInv(k) /\ SentInv(k)
      BY <1>2 DEF SocketInv, ReaderInv, SentInv, SentAt, SameSockets, SameHandlers, SameFlags
<1>5. j.bytes_acked \in Nat /\ k.bytes_acked \in Nat
      BY JsFields
<1>6. MailInv(k, tc)
      BY <1>3, <1>5, MailKept DEF SameSockets
<1>7. k.bytes_acked <= Len(stored)
  <2>1. CASE k.bytes_acked = j.bytes_acked
        BY <2>1 DEF EndInv
  <2>2. CASE k.bytes_acked = j.bytes_acked + 1 /\ Head(tb[w]).type = "chunkAck"
    <3>1. j.bytes_acked + 1 <= Len(stored)
          BY <1>1, <2>2 DEF MailInv, MailAt
    <3>2. QED
          BY <2>2, <3>1
  <2>3. QED
        BY <2>1, <2>2
<1>8. EndInv(k)
      BY <1>7 DEF EndInv, SameFlags
<1>9. WireInv(k, tc)
  <2> SUFFICES ASSUME link[w] = "up"
               PROVE  /\ session[w] # "request"
                      /\ session[w] = "ack" => Flows(k, tc, w, 1)
                      /\ session[w] = "chunks" => Flows(k, tc, w, 0)
      BY <1>2, <1>3 DEF WireInv, WireAt
  <2>1. session[w] # "request"
        BY DEF WireInv, WireAt
  <2>2. ~Resumes(j, tb, w)
    <3> SUFFICES ASSUME Resumes(j, tb, w)
                 PROVE  FALSE
        OBVIOUS
    <3>1. Handler(j, w) = "conf" /\ Head(tb[w]) = Conf(Len(stored))
          BY DEF Resumes
    <3>2. Head(tb[w]).type = "conf"
          BY <3>1 DEF Conf
    <3>3. QED
          BY <3>1, <3>2
  <2>3. \A d \in {0, 1} : Flows(j, tb, w, d) => Flows(k, tc, w, d)
    <3> SUFFICES ASSUME NEW d \in {0, 1}, Flows(j, tb, w, d)
                 PROVE  Flows(k, tc, w, d)
        OBVIOUS
    <3>1. Handler(k, w) \in {"acks", "final"}
          BY <1>2 DEF Flows
    <3>2. k.bytes_acked \in {j.bytes_acked, j.bytes_acked + 1}
          OBVIOUS
    <3>3. /\ tb \in [Sockets -> Seq(ToBrowser)] /\ k.sent = j.sent /\ k.bytes_tx = j.bytes_tx
          /\ Sends(k) => Sends(j)
          BY <1>2
    <3> HIDE DEF LibraryInv
    <3>4. QED
          BY <1>5, <3>1, <3>2, <3>3, FlowKept, Zenon
  <2>4. QED
        BY <2>1, <2>2, <2>3 DEF WireInv, WireAt
<1>10. QED
      BY <1>1, <1>4, <1>6, <1>8, <1>9

\* The library takes the position it is told and acknowledges it.
Resumed(j, k, w, pos) ==
  /\ SameSockets(j, k)
  /\ k.onmessage[w] \in {"acks", "final"}
  /\ k.reader = j.reader /\ k.bytes_tx = pos /\ k.bytes_acked = pos
  /\ IF link[w] = "up"
     THEN k.sent = [j.sent EXCEPT ![w] = Append(j.sent[w], Msg("ack"))]
     ELSE k.sent = j.sent
  /\ k.conn_retry = j.conn_retry /\ k.orphans = j.orphans
  /\ k.finished = j.finished /\ k.cancelled = j.cancelled /\ k.cancelling = j.cancelling
  /\ k.paused = j.paused /\ k.error = j.error

LEMMA ResumeKeeps ==
  ASSUME NEW j \in JsRecord, NEW k \in JsRecord, NEW tb, NEW w \in Sockets,
         stored \in Seq(0..Total - 1),
         LibraryInv(j, tb), j.ready[w] = "open", tb[w] # <<>>,
         NEW tc, tc = [tb EXCEPT ![w] = Tail(@)],
         Head(tb[w]).type = "conf", Handler(j, w) = "conf",
         Resumed(j, k, w, Head(tb[w]).pos)
  PROVE  LibraryInv(k, tc)
<1> USE DEF LibraryInv
<1> DEFINE m == Msg("ack")
           n == Len(stored)
<1>1. /\ tc \in [Sockets -> Seq(ToBrowser)]
      /\ Head(tb[w]) = tb[w][1] /\ 1 \in 1..Len(tb[w])
      BY MailRead
<1>2. \A s \in Sockets : j.ready[s] # "closed" => s = w
      BY DEF SocketInv
<1>3. n \in Nat /\ m \in ToServer /\ m.type = "ack"
      BY LenProperties, BrowserAssumption DEF Msg, ToServer
<1>4. /\ \A s \in Sockets : k.ready[s] = j.ready[s]
      /\ Handler(k, w) \in {"acks", "final"} /\ k.onmessage[w] \notin Sockets
      /\ Sends(k) <=> Sends(j)
      BY NamesApart DEF Handler, Sends, Resumed, SameSockets
<1>5. SocketInv(k)
      BY <1>2, <1>4 DEF SocketInv, Resumed, SameSockets
<1>6. j.reader = NotLoading
      BY DEF ReaderInv
<1>7. ReaderInv(k)
      BY <1>6 DEF ReaderInv, Resumed
<1>8. MailInv(k, tc)
  <2>1. /\ tb \in [Sockets -> Seq(ToBrowser)] /\ MailInv(j, tb)
        /\ j.bytes_acked \in Nat /\ k.bytes_acked \in Nat /\ k.ready = j.ready
        BY JsFields DEF Resumed, SameSockets
  <2> HIDE DEF LibraryInv
  <2>2. QED
        BY <1>2, <2>1, MailKept, Zenon
<1>9. EndInv(k)
  <2>1. Head(tb[w]).pos <= Len(stored)
        BY <1>1 DEF MailInv, MailAt
  <2>2. QED
        BY <2>1 DEF EndInv, Resumed
<1>10. CASE link[w] # "up"
  <2>1. SentInv(k)
        BY <1>10 DEF SentInv, SentAt, Resumed
  <2>2. WireInv(k, tc)
        BY <1>2, <1>4, <1>10 DEF WireInv, WireAt
  <2>3. QED
        BY <1>1, <1>5, <1>7, <1>8, <1>9, <2>1, <2>2
<1>11. CASE link[w] = "up"
  <2>1. /\ \A s \in Sockets : s # w => k.sent[s] = j.sent[s]
        /\ j.sent[w] \in Seq(ToServer) /\ k.sent[w] = Append(j.sent[w], m)
        BY <1>11, JsFields DEF Resumed
  <2>2. /\ session[w] # "none" /\ session[w] # "request" /\ session[w] # "chunks"
        /\ session[w] = "ack" => Resumes(j, tb, w)
        BY <1>11 DEF SocketInv, WireInv, WireAt, Flows
  <2>3. ASSUME session[w] = "ack"
        PROVE  Flows(k, tc, w, 1) /\ Run(k.sent[w], 1, n)
    <3>1. /\ tb[w] = <<Conf(n)>>
          /\ Sends(j) => j.sent[w] = <<>>
          BY <2>2, <2>3, Zenon DEF Resumes
    <3>2. Head(tb[w]).pos = n /\ Len(tb[w]) = 1
          BY <3>1 DEF Conf
    <3>3. Len(tc[w]) = 0
          BY <3>2, MailRead
    <3>4. Run(j.sent[w], 1, n)
          BY <2>3 DEF SentInv, SentAt
    <3>5. Run(k.sent[w], 1, n) /\ Len(k.sent[w]) = Len(j.sent[w]) + 1
      <4> DEFINE q == j.sent[w]
      <4>1. q \in Seq(ToServer) /\ k.sent[w] = Append(q, m) /\ Run(q, 1, n) /\ m.type # "chunk"
            BY <1>3, <2>1, <3>4
      <4> HIDE DEF q, m, n
      <4>2. QED
            BY <1>3, <4>1, MessageSent DEF q
    <3>6. Sends(k) => Len(k.sent[w]) = 1
          BY <1>4, <3>1, <3>5
    <3>7. NoneOf(tc[w], {"conf"})
          BY <3>3 DEF NoneOf
    <3>8. Sends(k) => OnlyChunks(k.sent[w], 1)
          BY <3>6 DEF OnlyChunks
    <3>9. k.bytes_tx = n /\ k.bytes_acked = n
          BY <3>2 DEF Resumed
    <3>10. /\ k.bytes_acked + Len(tc[w]) <= n
           /\ Sends(k) => 1 <= Len(k.sent[w]) /\ k.bytes_tx = n + Len(k.sent[w]) - 1
           BY <1>3, <3>3, <3>6, <3>9
    <3>11. QED
           BY <1>4, <3>5, <3>7, <3>8, <3>10 DEF Flows
  <2>4. SentInv(k)
    <3>1. ASSUME NEW s \in Sockets, s # w
          PROVE  k.sent[s] = j.sent[s]
          BY <2>1, <3>1
    <3>2. QED
          BY <2>2, <2>3, <3>1, Zenon DEF SentInv, SentAt
  <2>5. WireInv(k, tc)
    <3>1. \A s \in Sockets : k.ready[s] = "open" => s = w
          BY <1>2, <1>4
    <3>2. QED
          BY <2>2, <2>3, <3>1, Zenon DEF WireInv, WireAt
  <2>6. QED
        BY <1>1, <1>5, <1>7, <1>8, <1>9, <2>4, <2>5
<1>12. QED
       BY <1>10, <1>11

-----------------------------------------------------------------------------
(* The callbacks and what the user does, taken apart into these calls.       *)

LEMMA ControlMessages ==
  Msg("cancel") \in ToServer /\ Msg("pause") \in ToServer /\ Msg("req") \in ToServer /\ Msg("ack") \in ToServer
BY BrowserAssumption DEF Msg, ToServer

LEMMA CancelKeeps ==
  ASSUME NEW j \in JsRecord, NEW tb, stored \in Seq(0..Total - 1), LibraryInv(j, tb)
  PROVE  /\ LibraryInv(Cancel(j), tb) /\ Onward(j, Cancel(j))
         /\ Cancel(j).can_cancel => j.can_cancel
         /\ Cancel(j) = j \/ j.can_cancel
<1> DEFINE k == Cancel(j)
           a == [j EXCEPT !.reader = NotLoading, !.can_cancel = FALSE, !.can_pause = FALSE,
                          !.conn_retry = FALSE]
<1>1. CASE j.cancelled \/ ~j.can_cancel
      BY <1>1 DEF Cancel, Onward
<1>2. ASSUME ~(j.cancelled \/ ~j.can_cancel)
      PROVE  LibraryInv(k, tb) /\ ~k.can_cancel /\ Onward(j, k)
  <2>1. /\ a \in JsRecord /\ a.reader = NotLoading /\ a.can_cancel = FALSE /\ a.conn_retry = FALSE
        /\ a.bytes_tx = j.bytes_tx /\ a.bytes_acked = j.bytes_acked /\ a.sent = j.sent
        /\ SameSockets(j, a) /\ SameHandlers(j, a)
        /\ a.orphans = j.orphans /\ a.finished = j.finished /\ a.error = j.error
        BY DEF JsRecord, SameSockets, SameHandlers
  <2>2. /\ j.finished => accepted
        /\ \A s \in Sockets : j.ready[s] # "closed" => j.ws = s
        /\ j.can_cancel = TRUE
        BY <1>2 DEF LibraryInv, EndInv, SocketInv, JsRecord
  <2>3. CASE IsOpen(j)
    <3> DEFINE w == j.ws
               b == Send(a, Msg("cancel"))
               h == j.onmessage[w]
               c == [b EXCEPT !.cancelling = TRUE, !.usual[w] = h]
    <3>1. w \in Sockets /\ j.ready[w] = "open" /\ j.onmessage[w] \notin Sockets /\ h \in Usual
          BY <2>2, <2>3, JsFields DEF IsOpen, LibraryInv, SocketInv
    <3>2. IsOpen(a)
          BY <2>1, <2>3 DEF IsOpen, SameSockets
    <3>3. /\ b \in JsRecord
          /\ IF IsOpen(a) /\ link[a.ws] = "up"
             THEN b.sent = [a.sent EXCEPT ![a.ws] = Append(a.sent[a.ws], Msg("cancel"))]
             ELSE b.sent = a.sent
          /\ SameSockets(a, b) /\ SameHandlers(a, b) /\ SamePlace(a, b) /\ SameFlags(a, b)
          BY <2>1, SendEffect, ControlMessages
    <3>4. k = Listen(c, w)
          BY <1>2, <2>3 DEF Cancel
    <3> HIDE DEF a, b, h
    <3>5. /\ c \in JsRecord
          /\ c.usual = [b.usual EXCEPT ![w] = h] /\ c.cancelling = TRUE
          /\ c.onmessage = b.onmessage /\ c.sent = b.sent
          /\ SameSockets(b, c) /\ SamePlace(b, c)
          /\ c.conn_retry = b.conn_retry /\ c.orphans = b.orphans /\ c.finished = b.finished
          /\ c.cancelled = b.cancelled /\ c.can_cancel = b.can_cancel /\ c.error = b.error
          BY <3>1, <3>3 DEF JsRecord, SameSockets, SamePlace
    <3> HIDE DEF c, k
    <3>6. /\ k \in JsRecord
          /\ IF c.ws = NoSocket THEN k.onmessage = c.onmessage
                                ELSE k.onmessage = [c.onmessage EXCEPT ![c.ws] = w]
          /\ k.usual = c.usual /\ k.sent = c.sent
          /\ SameSockets(c, k) /\ SamePlace(c, k) /\ SameFlags(c, k)
          BY <2>1, <3>3, <3>4, <3>5, ListenEffect DEF SameSockets
    <3>7. k.ws = w /\ c.ws = w /\ w # NoSocket /\ k.ready = j.ready
          BY <2>1, <3>1, <3>3, <3>5, <3>6, BrowserAssumption DEF SameSockets
    <3>8. /\ k.onmessage = [j.onmessage EXCEPT ![w] = w]
          /\ k.usual = [j.usual EXCEPT ![w] = h]
          BY <2>1, <3>3, <3>5, <3>6, <3>7 DEF SameHandlers
    <3>9. \A s \in Sockets : Handler(k, s) = Handler(j, s)
          BY <3>1, <3>8, JsFields DEF Handler, h
    <3>10. /\ k.reader = NotLoading /\ ~k.can_cancel /\ ~k.conn_retry /\ ~Sends(k)
           /\ k.bytes_tx = j.bytes_tx /\ k.bytes_acked = j.bytes_acked /\ k.orphans = j.orphans
           /\ k.finished = j.finished
           BY <2>1, <3>3, <3>5, <3>6 DEF SamePlace, SameFlags, Sends
    <3>11. k.cancelled /\ ~k.error => upload = "discarded"
      <4>1. k.cancelled = a.cancelled /\ k.error = a.error
            BY <3>3, <3>5, <3>6 DEF SameFlags
      <4>2. a.cancelled = j.cancelled
            BY DEF a, JsRecord
      <4>3. QED
            BY <1>2, <4>1, <4>2
    <3>12. \/ k.sent = j.sent
           \/ /\ link[w] = "up"
              /\ k.sent = [j.sent EXCEPT ![w] = Append(j.sent[w], Msg("cancel"))]
           BY <2>1, <3>3, <3>5, <3>6 DEF SameSockets
    <3>13. Msg("cancel") \in ToServer /\ Msg("cancel").type \notin {"ack", "chunk"}
           BY ControlMessages DEF Msg
    <3>14. Quiet(j, k)
           BY <2>2, <2>3, <3>7, <3>9, <3>10, <3>11, <3>12, <3>13 DEF Quiet
    <3>15. QED
           BY <3>6, <3>10, <3>14, QuietKeeps
  <2>4. CASE ~IsOpen(j)
    <3>1. k = [a EXCEPT !.cancelled = TRUE, !.error = TRUE]
          BY <1>2, <2>4 DEF Cancel
    <3> HIDE DEF a, k
    <3>2. /\ k \in JsRecord /\ k.cancelled = TRUE /\ k.error = TRUE
          /\ k.ws = a.ws /\ k.ready = a.ready /\ SameHandlers(a, k) /\ SamePlace(a, k)
          /\ k.sent = a.sent
          /\ k.conn_retry = a.conn_retry /\ k.orphans = a.orphans /\ k.finished = a.finished
          /\ k.can_cancel = a.can_cancel
          BY <2>1, <3>1 DEF JsRecord, SameHandlers, SamePlace
    <3>3. \A s \in Sockets : Handler(k, s) = Handler(j, s)
          BY <2>1, <3>2 DEF Handler, SameHandlers
    <3>4. Quiet(j, k)
          BY <2>1, <2>2, <3>2, <3>3 DEF Quiet, Sends, SameSockets, SamePlace
    <3>5. QED
          BY <2>1, <3>2, <3>4, QuietKeeps
  <2>5. QED
        BY <2>3, <2>4
<1>3. QED
      BY <1>1, <1>2

LEMMA PauseKeeps ==
  ASSUME NEW j \in JsRecord, NEW tb, stored \in Seq(0..Total - 1), LibraryInv(j, tb)
  PROVE  LibraryInv(Pause(j), tb) /\ Onward(j, Pause(j))
<1> DEFINE k == Pause(j)
           w == j.ws
           a == [j EXCEPT !.reader = NotLoading, !.conn_retry = FALSE,
                          !.paused = TRUE, !.can_cancel = FALSE]
           b == Send(a, Msg("pause"))
<1>1. /\ a \in JsRecord /\ a.reader = NotLoading /\ a.can_cancel = FALSE /\ a.conn_retry = FALSE
      /\ a.paused = TRUE
      /\ a.bytes_tx = j.bytes_tx /\ a.bytes_acked = j.bytes_acked /\ a.sent = j.sent
      /\ SameSockets(j, a) /\ SameHandlers(j, a)
      /\ a.orphans = j.orphans /\ a.finished = j.finished /\ a.error = j.error
      /\ a.cancelled = j.cancelled
      BY DEF JsRecord, SameSockets, SameHandlers
<1>2. /\ j.finished => accepted
      /\ j.cancelled /\ ~j.error => upload = "discarded"
      BY DEF LibraryInv, EndInv
<1>3. Msg("pause") \in ToServer /\ Msg("pause").type \notin {"ack", "chunk"}
      BY ControlMessages DEF Msg
<1>4. /\ b \in JsRecord
      /\ IF IsOpen(a) /\ link[a.ws] = "up"
         THEN b.sent = [a.sent EXCEPT ![a.ws] = Append(a.sent[a.ws], Msg("pause"))]
         ELSE b.sent = a.sent
      /\ SameSockets(a, b) /\ SameHandlers(a, b) /\ SamePlace(a, b) /\ SameFlags(a, b)
      BY <1>1, <1>3, SendEffect
<1>5. k = IF IsOpen(j) THEN Close(b) ELSE a
      BY DEF Pause
<1> HIDE DEF a, b, k
<1>6. CASE IsOpen(j)
  <2>1. w \in Sockets /\ j.ready[w] = "open" /\ w # NoSocket
        BY <1>6, JsFields DEF IsOpen
  <2>2. /\ k \in JsRecord
        /\ IF b.ws # NoSocket /\ b.ready[b.ws] \in {"connecting", "open"}
           THEN k.ready = [b.ready EXCEPT ![b.ws] = "closing"]
           ELSE k.ready = b.ready
        /\ k.ws = b.ws /\ k.sent = b.sent
        /\ SameHandlers(b, k) /\ SamePlace(b, k) /\ SameFlags(b, k)
        BY <1>4, <1>5, <1>6, CloseEffect
  <2>3. k.ws = w /\ k.ready = [j.ready EXCEPT ![w] = "closing"]
        BY <1>1, <1>4, <2>1, <2>2 DEF SameSockets
  <2>4. \A s \in Sockets : Handler(k, s) = Handler(j, s)
        BY <1>1, <1>4, <2>2 DEF Handler, SameHandlers
  <2>5. /\ k.reader = NotLoading /\ ~k.can_cancel /\ ~k.conn_retry /\ ~Sends(k)
        /\ k.bytes_tx = j.bytes_tx /\ k.bytes_acked = j.bytes_acked /\ k.orphans = j.orphans
        /\ k.finished = j.finished /\ k.cancelled = j.cancelled /\ k.error = j.error
        BY <1>1, <1>4, <2>2 DEF SamePlace, SameFlags, Sends
  <2>6. \/ k.sent = j.sent
        \/ /\ link[w] = "up"
           /\ k.sent = [j.sent EXCEPT ![w] = Append(j.sent[w], Msg("pause"))]
        BY <1>1, <1>4, <2>2 DEF SameSockets
  <2>7. Quiet(j, k)
        BY <1>2, <1>3, <1>6, <2>1, <2>3, <2>4, <2>5, <2>6 DEF Quiet
  <2>8. QED
        BY <2>2, <2>7, QuietKeeps DEF k
<1>7. CASE ~IsOpen(j)
  <2>1. k = a
        BY <1>5, <1>7
  <2>2. \A s \in Sockets : Handler(k, s) = Handler(j, s)
        BY <1>1, <2>1 DEF Handler, SameHandlers
  <2>3. Quiet(j, k)
        BY <1>1, <1>2, <2>1, <2>2 DEF Quiet, Sends, SameSockets
  <2>4. QED
        BY <1>1, <2>1, <2>3, QuietKeeps DEF k
<1>8. QED
      BY <1>6, <1>7

LEMMA ReaderStops ==
  ASSUME NEW j \in JsRecord, NEW tb, stored \in Seq(0..Total - 1), LibraryInv(j, tb)
  PROVE  /\ [j EXCEPT !.reader = NotLoading] \in JsRecord
         /\ LibraryInv([j EXCEPT !.reader = NotLoading], tb)
         /\ Onward(j, [j EXCEPT !.reader = NotLoading])
<1> DEFINE k == [j EXCEPT !.reader = NotLoading]
<1>1. /\ k \in JsRecord /\ k.reader = NotLoading
      /\ k.bytes_tx = j.bytes_tx /\ k.bytes_acked = j.bytes_acked /\ k.sent = j.sent
      /\ SameSockets(j, k) /\ SameHandlers(j, k) /\ SameFlags(j, k)
      BY DEF JsRecord, SameSockets, SameHandlers, SameFlags
<1> HIDE DEF k
<1>2. \A s \in Sockets : Handler(k, s) = Handler(j, s)
      BY <1>1 DEF Handler, SameHandlers
<1>3. /\ j.finished => accepted
      /\ j.cancelled /\ ~j.error => upload = "discarded"
      /\ j.conn_retry => ~j.finished /\ ~j.cancelled
      /\ \A s \in Sockets : j.ready[s] = "open" /\ j.onmessage[s] \in Sockets => ~j.can_cancel
      BY DEF LibraryInv, EndInv, SocketInv
<1>4. Quiet(j, k)
      BY <1>1, <1>2, <1>3 DEF Quiet, Sends, SameSockets, SameHandlers, SameFlags
<1>5. QED
      BY <1>1, <1>4, QuietKeeps DEF k

LEMMA OnLoadErrorKeeps ==
  ASSUME NEW j \in JsRecord, NEW tb, stored \in Seq(0..Total - 1), LibraryInv(j, tb)
  PROVE  LibraryInv(OnLoadError(j), tb) /\ Onward(j, OnLoadError(j))
BY ReaderStops, CancelKeeps DEF OnLoadError, Onward

LEMMA CountsSet ==
  ASSUME NEW j \in JsRecord, NEW n \in 0..Total, NEW i \in Int, NEW p \in BOOLEAN, NEW q \in BOOLEAN
  PROVE  [j EXCEPT !.bytes_tx = n, !.chunks_ahead = i, !.can_cancel = p, !.can_pause = q] \in JsRecord
BY DEF JsRecord

LEMMA OnLoadKeeps ==
  ASSUME NEW j \in JsRecord, NEW tb, stored \in Seq(0..Total - 1), LibraryInv(j, tb),
         j.reader # NotLoading
  PROVE  LibraryInv(OnLoad(j), tb) /\ Onward(j, OnLoad(j))
<1> DEFINE k == [j EXCEPT !.reader = NotLoading]
           b == Send(k, Chunk(j.reader))
           c == [b EXCEPT !.bytes_tx = @ + 1,
                          !.chunks_ahead = @ + 1,
                          !.can_cancel = @ /\ j.bytes_tx + 1 # Total,
                          !.can_pause = @ /\ j.bytes_tx + 1 # Total]
<1>1. CASE j.cancelling \/ j.cancelled \/ j.paused \/ ~IsOpen(j)
      BY <1>1, ReaderStops DEF OnLoad
<1>2. CASE ~(j.cancelling \/ j.cancelled \/ j.paused \/ ~IsOpen(j))
  <2>1. OnLoad(j) = TryLoadAndSendFileChunk(c)
        BY <1>2 DEF OnLoad
  <2>2. /\ k \in JsRecord /\ k.reader = NotLoading
        /\ k.bytes_tx = j.bytes_tx /\ k.bytes_acked = j.bytes_acked /\ k.sent = j.sent
        /\ SameSockets(j, k) /\ SameHandlers(j, k) /\ SameFlags(j, k)
        BY DEF JsRecord, SameSockets, SameHandlers, SameFlags
  <2>3. /\ j.reader \in 0..Total - 1 /\ j.bytes_tx \in Nat /\ j.bytes_tx < Total
        /\ Total \in Nat
        BY JsFields, BrowserAssumption DEF LibraryInv, ReaderInv
  <2>4. Chunk(j.reader) \in ToServer
        BY <2>3 DEF Chunk, ToServer
  <2>5. IsOpen(k) /\ j.ws \in Sockets
        BY <1>2, <2>2, JsFields DEF IsOpen, SameSockets
  <2> HIDE DEF k
  <2>6. /\ b \in JsRecord
        /\ IF IsOpen(k) /\ link[k.ws] = "up"
           THEN b.sent = [k.sent EXCEPT ![k.ws] = Append(k.sent[k.ws], Chunk(j.reader))]
           ELSE b.sent = k.sent
        /\ SameSockets(k, b) /\ SameHandlers(k, b) /\ SamePlace(k, b) /\ SameFlags(k, b)
        BY <2>2, <2>4, SendEffect
  <2> HIDE DEF b
  <2>7. /\ c.bytes_tx = b.bytes_tx + 1
        /\ c.can_cancel => b.can_cancel
        /\ c.reader = b.reader /\ c.bytes_acked = b.bytes_acked /\ c.sent = b.sent
        /\ SameSockets(b, c) /\ SameHandlers(b, c)
        /\ c.conn_retry = b.conn_retry /\ c.orphans = b.orphans /\ c.finished = b.finished
        /\ c.cancelled = b.cancelled /\ c.cancelling = b.cancelling
        /\ c.paused = b.paused /\ c.error = b.error
        BY <2>6 DEF JsRecord, SameSockets, SameHandlers
  <2>8. c \in JsRecord
    <3>1. b.bytes_tx + 1 \in 0..Total /\ b.chunks_ahead + 1 \in Int
          BY <2>2, <2>3, <2>6, JsFields DEF SamePlace
    <3> DEFINE p == b.can_cancel /\ j.bytes_tx + 1 # Total
               q == b.can_pause /\ j.bytes_tx + 1 # Total
               n == b.bytes_tx + 1
               i == b.chunks_ahead + 1
    <3>2. p \in BOOLEAN /\ q \in BOOLEAN
          OBVIOUS
    <3>3. c = [b EXCEPT !.bytes_tx = n, !.chunks_ahead = i, !.can_cancel = p, !.can_pause = q]
          OBVIOUS
    <3> HIDE DEF p, q, n, i, c
    <3>4. n \in 0..Total /\ i \in Int
          BY <3>1 DEF n, i
    <3>5. QED
          BY <2>6, <3>2, <3>3, <3>4, CountsSet
  <2> HIDE DEF c
  <2>9. SendsChunk(j, c)
    <3>1. SameSockets(j, c) /\ SameHandlers(j, c)
          BY <2>2, <2>6, <2>7 DEF SameSockets, SameHandlers
    <3>2. /\ c.reader = NotLoading /\ c.bytes_tx = j.bytes_tx + 1
          /\ c.bytes_acked = j.bytes_acked
          BY <2>2, <2>6, <2>7 DEF SamePlace
    <3>3. IF link[j.ws] = "up"
          THEN c.sent = [j.sent EXCEPT ![j.ws] = Append(j.sent[j.ws], Chunk(j.reader))]
          ELSE c.sent = j.sent
          BY <2>2, <2>5, <2>6, <2>7 DEF SameSockets
    <3>4. /\ c.conn_retry = j.conn_retry /\ c.orphans = j.orphans
          /\ c.finished = j.finished /\ c.cancelled = j.cancelled /\ c.cancelling = j.cancelling
          /\ c.paused = j.paused /\ c.error = j.error
          /\ c.can_cancel => j.can_cancel
          BY <2>2, <2>6, <2>7 DEF SameFlags
    <3>5. QED
          BY <3>1, <3>2, <3>3, <3>4 DEF SendsChunk
  <2>10. LibraryInv(c, tb)
         BY <1>2, <2>8, <2>9, ChunkSentKeeps DEF Sends
  <2>11. Receptive(c)
         BY <2>9 DEF Receptive, LibraryInv, ReaderInv, SendsChunk, SameSockets, SameHandlers, Handler
  <2>12. Onward(j, OnLoad(j))
    <3>1. SameSockets(c, OnLoad(j)) /\ SameFlags(c, OnLoad(j))
          BY <2>1, <2>8, LoadEffect
    <3>2. QED
          BY <2>9, <3>1, SameOnward DEF SendsChunk, SameSockets, SameFlags
  <2>13. QED
         BY <2>1, <2>8, <2>10, <2>11, <2>12, LoadKeeps
<1>3. QED
      BY <1>1, <1>2

LEMMA ReadKeeps ==
  ASSUME NEW j \in JsRecord, NEW tb, NEW w \in Sockets, stored \in Seq(0..Total - 1),
         LibraryInv(j, tb), j.ready[w] = "open", tb[w] # <<>>,
         NEW tc, tc = [tb EXCEPT ![w] = Tail(@)],
         Head(tb[w]).type = "conf" => Handler(j, w) # "conf"
  PROVE  LibraryInv(j, tc)
BY AckKeeps, Zenon DEF SameSockets, SameHandlers, SameFlags

\* Flags that the application sees, and the end of the socket.
LEMMA EndKeeps ==
  ASSUME NEW j \in JsRecord, NEW k \in JsRecord, NEW tb, stored \in Seq(0..Total - 1),
         LibraryInv(j, tb),
         k.ws = j.ws, SameHandlers(j, k), SamePlace(j, k), k.sent = j.sent,
         k.ready = j.ready \/ (j.ws \in Sockets /\ j.ready[j.ws] = "open"
                                /\ k.ready = [j.ready EXCEPT ![j.ws] = "closing"]),
         k.orphans = j.orphans, k.conn_retry = j.conn_retry,
         k.conn_retry => ~k.finished /\ ~k.cancelled,
         k.can_cancel => j.can_cancel,
         Sends(k) => Sends(j), j.finished => k.finished,
         k.finished => accepted, k.cancelled /\ ~k.error => upload = "discarded"
  PROVE  LibraryInv(k, tb) /\ Onward(j, k)
<1>1. \A s \in Sockets : Handler(k, s) = Handler(j, s)
      BY DEF Handler, SameHandlers
<1>2. \A s \in Sockets : k.ready[s] = "open" => j.ready[s] = "open"
      BY JsFields
<1>3. \A s \in Sockets : k.ready[s] = "open" /\ k.onmessage[s] \in Sockets => ~k.can_cancel
      BY <1>2 DEF LibraryInv, SocketInv, SameHandlers
<1>4. Quiet(j, k)
      BY <1>1, <1>3 DEF Quiet, SamePlace
<1>5. QED
      BY <1>4, QuietKeeps

LEMMA ServerErrorKeeps ==
  ASSUME NEW j \in JsRecord, NEW tb, stored \in Seq(0..Total - 1), LibraryInv(j, tb)
  PROVE  /\ LibraryInv(ServerError(j), tb) /\ Onward(j, ServerError(j))
         /\ ServerError(j).can_cancel => j.can_cancel
<1> DEFINE k == [j EXCEPT !.error = TRUE]
<1>1. /\ k \in JsRecord /\ k.error = TRUE /\ k.ws = j.ws /\ k.ready = j.ready
      /\ SameHandlers(j, k) /\ SamePlace(j, k) /\ k.sent = j.sent
      /\ k.orphans = j.orphans /\ k.conn_retry = j.conn_retry /\ k.can_cancel = j.can_cancel
      /\ k.finished = j.finished /\ k.cancelled = j.cancelled /\ k.cancelling = j.cancelling
      /\ k.paused = j.paused
      BY DEF JsRecord, SameHandlers, SamePlace
<1> HIDE DEF k
<1>2. /\ j.finished => accepted
      /\ j.conn_retry => ~j.finished /\ ~j.cancelled
      BY DEF LibraryInv, EndInv, SocketInv
<1>3. LibraryInv(k, tb) /\ Onward(j, k)
      BY <1>1, <1>2, EndKeeps DEF Sends
<1>4. LibraryInv(Cancel(k), tb) /\ Onward(k, Cancel(k)) /\ (Cancel(k).can_cancel => k.can_cancel)
      BY <1>1, <1>3, CancelKeeps
<1>5. Cancel(k) = ServerError(j)
      BY DEF ServerError, k
<1>6. QED
      BY <1>1, <1>3, <1>4, <1>5 DEF Onward

LEMMA OnConfKeeps ==
  ASSUME NEW j \in JsRecord, NEW tb, NEW w \in Sockets, stored \in Seq(0..Total - 1),
         LibraryInv(j, tb), j.ready[w] = "open", tb[w] # <<>>,
         NEW tc, tc = [tb EXCEPT ![w] = Tail(@)],
         Handler(j, w) = "conf"
  PROVE  /\ LibraryInv(OnConf(j, Head(tb[w])), tc)
         /\ OnConf(j, Head(tb[w])).can_cancel => j.can_cancel
         /\ Onward(j, OnConf(j, Head(tb[w])))
<1> DEFINE m == Head(tb[w])
<1>1. j.ws = w /\ w # NoSocket /\ tb \in [Sockets -> Seq(ToBrowser)]
      BY BrowserAssumption DEF LibraryInv, SocketInv
<1>2. m \in ToBrowser
      BY <1>1, MailRead
<1>3. CASE m.type # "conf"
  <2>1. LibraryInv(j, tc)
        BY <1>3, ReadKeeps
  <2>2. QED
        BY <1>3, <2>1, ServerErrorKeeps DEF OnConf, Onward
<1>4. CASE m.type = "conf"
  <2> DEFINE k == [j EXCEPT !.bytes_acked = m.pos, !.bytes_tx = ResumeAt(j, m.pos)]
             l == Send(k, Msg("ack"))
             a == [l EXCEPT !.can_cancel = FALSE, !.can_pause = FALSE]
             b == [l EXCEPT !.can_pause = TRUE]
  <2>1. m.pos \in 0..Total
        BY <1>2 DEF ToBrowser
  <2>2. /\ k \in JsRecord /\ k.reader = j.reader
        /\ k.bytes_tx = m.pos /\ k.bytes_acked = m.pos /\ k.sent = j.sent
        /\ SameSockets(j, k) /\ SameHandlers(j, k) /\ SameFlags(j, k)
    <3> HIDE DEF m
    <3> QED
        BY <2>1 DEF JsRecord, ResumeAt, SameSockets, SameHandlers, SameFlags
  <2>3. IsOpen(k) /\ k.ws = w /\ ~SendThrows(k)
        BY <1>1, <2>2 DEF IsOpen, SendThrows, SameSockets
  <2>4. OnConf(j, m) = IF m.pos = Total THEN Listen(a, "final")
                       ELSE TryLoadAndSendFileChunk(Listen(b, "acks"))
        BY <1>4, <2>3 DEF OnConf
  <2> HIDE DEF m, k
  <2>5. /\ l \in JsRecord
        /\ IF IsOpen(k) /\ link[k.ws] = "up"
           THEN l.sent = [k.sent EXCEPT ![k.ws] = Append(k.sent[k.ws], Msg("ack"))]
           ELSE l.sent = k.sent
        /\ SameSockets(k, l) /\ SameHandlers(k, l) /\ SamePlace(k, l) /\ SameFlags(k, l)
        BY <2>2, ControlMessages, SendEffect
  <2> HIDE DEF l
  <2>6. ASSUME NEW c \in {a, b}, NEW h \in {"acks", "final"}
        PROVE  /\ Listen(c, h) \in JsRecord
               /\ LibraryInv(Listen(c, h), tc)
               /\ Handler(Listen(c, h), w) \in {"acks", "final"}
               /\ Listen(c, h).can_cancel => j.can_cancel
               /\ SameSockets(j, Listen(c, h)) /\ Listen(c, h).finished = j.finished
    <3> DEFINE r == Listen(c, h)
    <3>1. /\ c \in JsRecord /\ c.sent = l.sent
          /\ SameSockets(l, c) /\ SamePlace(l, c)
          /\ c.conn_retry = l.conn_retry /\ c.orphans = l.orphans /\ c.finished = l.finished
          /\ c.cancelled = l.cancelled /\ c.cancelling = l.cancelling
          /\ c.paused = l.paused /\ c.error = l.error
          /\ c.can_cancel => l.can_cancel
      <4>1. CASE c = a
            BY <2>5, <4>1 DEF JsRecord, SameSockets, SamePlace
      <4>2. CASE c = b
            BY <2>5, <4>2 DEF JsRecord, SameSockets, SamePlace
      <4>3. QED
            BY <4>1, <4>2
    <3> HIDE DEF a, b, r
    <3>2. /\ r \in JsRecord
          /\ IF c.ws = NoSocket THEN r.onmessage = c.onmessage
                                ELSE r.onmessage = [c.onmessage EXCEPT ![c.ws] = h]
          /\ r.usual = c.usual /\ r.sent = c.sent
          /\ SameSockets(c, r) /\ SamePlace(c, r) /\ SameFlags(c, r)
          BY <3>1, ListenEffect DEF Usual, r
    <3>3. SameSockets(j, r) /\ c.ws = w
          BY <1>1, <2>2, <2>5, <3>1, <3>2 DEF SameSockets
    <3>4. r.onmessage[w] = h
          BY <1>1, <3>1, <3>2, <3>3, JsFields
    <3>5. r.reader = j.reader /\ r.bytes_tx = m.pos /\ r.bytes_acked = m.pos
          BY <2>2, <2>5, <3>1, <3>2 DEF SamePlace
    <3>6. IF link[w] = "up"
          THEN r.sent = [j.sent EXCEPT ![w] = Append(j.sent[w], Msg("ack"))]
          ELSE r.sent = j.sent
          BY <2>2, <2>3, <2>5, <3>1, <3>2
    <3>7. /\ r.conn_retry = j.conn_retry /\ r.orphans = j.orphans
          /\ r.finished = j.finished /\ r.cancelled = j.cancelled
          /\ r.cancelling = j.cancelling /\ r.paused = j.paused /\ r.error = j.error
          /\ r.can_cancel => j.can_cancel
          BY <2>2, <2>5, <3>1, <3>2 DEF SameFlags
    <3>8. Resumed(j, r, w, m.pos)
          BY <3>3, <3>4, <3>5, <3>6, <3>7 DEF Resumed
    <3>9. LibraryInv(r, tc)
      <4>1. r \in JsRecord
            BY <3>2
      <4>2. Head(tb[w]).type = "conf" /\ Resumed(j, r, w, Head(tb[w]).pos)
            BY <1>4, <3>8 DEF m
      <4>3. QED
            BY <4>1, <4>2, ResumeKeeps, Zenon
    <3>10. QED
           BY <3>2, <3>3, <3>4, <3>7, <3>9, NamesApart DEF Handler, r
  <2>7. CASE m.pos = Total
        BY <2>4, <2>6, <2>7, SameOnward DEF m
  <2>8. CASE m.pos # Total
    <3> DEFINE r == Listen(b, "acks")
    <3>1. r \in JsRecord /\ LibraryInv(r, tc) /\ Handler(r, w) \in {"acks", "final"}
          /\ (r.can_cancel => j.can_cancel) /\ SameSockets(j, r) /\ r.finished = j.finished
          BY <2>6
    <3> HIDE DEF r
    <3>2. Receptive(r)
          BY <1>1, <3>1 DEF Receptive, LibraryInv, SocketInv, SameSockets
    <3>3. LibraryInv(TryLoadAndSendFileChunk(r), tc)
          /\ TryLoadAndSendFileChunk(r).can_cancel = r.can_cancel
          /\ TryLoadAndSendFileChunk(r).finished = r.finished
          /\ SameSockets(r, TryLoadAndSendFileChunk(r))
          BY <3>1, <3>2, LoadKeeps, LoadEffect DEF SameFlags
    <3>4. OnConf(j, m) = TryLoadAndSendFileChunk(r)
          BY <2>4, <2>8 DEF r
    <3>5. QED
          BY <3>1, <3>3, <3>4, SameOnward DEF m, SameSockets
  <2>9. QED
        BY <2>7, <2>8
<1>5. QED
      BY <1>3, <1>4

\* The last chunk is acknowledged, and the final message is awaited.
LEMMA FinalAwaited ==
  ASSUME NEW j \in JsRecord, NEW k, NEW tb, NEW w \in Sockets, LibraryInv(j, tb),
         j.ready[w] = "open", Handler(j, w) \in {"acks", "final"}, k = Listen(j, "final")
  PROVE  LibraryInv(k, tb) /\ k.can_cancel = j.can_cancel /\ Onward(j, k)
<1> USE DEF LibraryInv
<1>1. j.ws = w /\ w # NoSocket /\ \A s \in Sockets : j.ready[s] # "closed" => s = w
      BY BrowserAssumption DEF SocketInv
<1>2. /\ k \in JsRecord
      /\ k.onmessage = [j.onmessage EXCEPT ![w] = "final"]
      /\ k.usual = j.usual /\ k.sent = j.sent
      /\ SameSockets(j, k) /\ SamePlace(j, k) /\ SameFlags(j, k)
  <2>1. "final" \in Usual \cup {j.ws}
        BY DEF Usual
  <2> HIDE DEF LibraryInv
  <2>2. QED
        BY <1>1, <2>1, ListenEffect
<1>3. k.onmessage[w] = "final" /\ Handler(k, w) = "final" /\ "final" \notin Sockets
      BY <1>2, JsFields, NamesApart DEF Handler
<1>4. (\A s \in Sockets : k.ready[s] = j.ready[s]) /\ (Sends(k) <=> Sends(j))
      BY <1>2 DEF Sends, SameSockets, SameFlags
<1>5. SocketInv(k)
  <2>1. k.ws = j.ws /\ k.conn_retry = j.conn_retry /\ k.orphans = j.orphans /\ k.finished = j.finished
        /\ k.cancelled = j.cancelled
        BY <1>2 DEF SameSockets, SameFlags
  <2>2. \A s \in Sockets : k.ready[s] # "closed" => s = w
        BY <1>1, <1>4
  <2>3. k.ready[w] = "open" /\ (link[w] = "up" => session[w] # "none")
        BY <1>4 DEF SocketInv
  <2>4. j.orphans = 0 /\ ~j.conn_retry
        BY <1>1 DEF SocketInv
  <2> HIDE DEF LibraryInv
  <2>5. QED
        BY <1>1, <1>3, <2>1, <2>2, <2>3, <2>4 DEF SocketInv
<1>6. ReaderInv(k) /\ SentInv(k)
      BY <1>1, <1>2, <1>3, <1>4 DEF ReaderInv, SentInv, SentAt, SamePlace
<1>7. MailInv(k, tb) /\ EndInv(k)
  <2>1. k.bytes_acked = j.bytes_acked /\ k.ready = j.ready
        BY <1>2 DEF SamePlace, SameSockets
  <2>2. MailInv(k, tb)
        BY <2>1 DEF MailInv, MailAt
  <2>3. QED
        BY <1>2, <2>2 DEF EndInv, SamePlace, SameFlags
<1>8. WireInv(k, tb)
  <2>1. \A d \in {0, 1} : Flows(j, tb, w, d) => Flows(k, tb, w, d)
        BY <1>2, <1>3, <1>4 DEF Flows, SamePlace
  <2>2. ~Resumes(j, tb, w)
        BY DEF Resumes
  <2>3. QED
        BY <1>1, <1>4, <2>1, <2>2 DEF WireInv, WireAt
<1>9. QED
      BY <1>2, <1>5, <1>6, <1>7, <1>8, SameOnward DEF SameFlags

LEMMA AckSet ==
  ASSUME NEW j \in JsRecord, NEW n \in 0..Total, NEW i \in Int
  PROVE  [j EXCEPT !.bytes_acked = n, !.chunks_ahead = i] \in JsRecord
BY DEF JsRecord

LEMMA OnChunkAckKeeps ==
  ASSUME NEW j \in JsRecord, NEW tb, NEW w \in Sockets, stored \in Seq(0..Total - 1),
         Len(stored) <= Total, LibraryInv(j, tb), j.ready[w] = "open", tb[w] # <<>>,
         NEW tc, tc = [tb EXCEPT ![w] = Tail(@)],
         Handler(j, w) \in {"acks", "final"}
  PROVE  /\ LibraryInv(OnChunkAck(j, Head(tb[w])), tc)
         /\ OnChunkAck(j, Head(tb[w])).can_cancel => j.can_cancel
         /\ Onward(j, OnChunkAck(j, Head(tb[w])))
<1> DEFINE m == Head(tb[w])
           k == [j EXCEPT !.bytes_acked = @ + 1, !.chunks_ahead = @ - 1]
<1>1. CASE m.type # "chunkAck"
  <2>1. LibraryInv(j, tc)
        BY ReadKeeps
  <2>2. QED
        BY <1>1, <2>1, ServerErrorKeeps DEF OnChunkAck, Onward
<1>2. CASE m.type = "chunkAck"
  <2>1. tb \in [Sockets -> Seq(ToBrowser)] /\ MailInv(j, tb)
        BY DEF LibraryInv
  <2>2. m = tb[w][1] /\ 1 \in 1..Len(tb[w])
        BY <2>1, MailRead
  <2>3. j.bytes_acked + 1 <= Len(stored)
        BY <1>2, <2>1, <2>2 DEF MailInv, MailAt
  <2>4. j.bytes_acked + 1 \in 0..Total
        BY <2>3, JsFields, LenProperties, BrowserAssumption
  <2>5. k \in JsRecord
    <3>1. j.chunks_ahead - 1 \in Int
          BY JsFields
    <3>2. QED
          BY <2>4, <3>1, AckSet
  <2>6. /\ SameSockets(j, k) /\ SameHandlers(j, k) /\ SameFlags(j, k)
        /\ k.sent = j.sent /\ k.reader = j.reader /\ k.bytes_tx = j.bytes_tx
        /\ k.bytes_acked = j.bytes_acked + 1
        BY DEF JsRecord, SameSockets, SameHandlers, SameFlags
  <2>7. OnChunkAck(j, m) = IF k.bytes_acked = Total THEN Listen(k, "final")
                                                    ELSE TryLoadAndSendFileChunk(k)
        BY <1>2 DEF OnChunkAck
  <2>8. m = Head(tb[w])
        OBVIOUS
  <2> HIDE DEF k, m
  <2>9. LibraryInv(k, tc)
        BY <1>2, <2>5, <2>6, <2>8, AckKeeps
  <2>10. k.ready[w] = "open" /\ Handler(k, w) \in {"acks", "final"}
         BY <2>6 DEF SameSockets, SameHandlers, Handler
  <2>11. CASE k.bytes_acked = Total
    <3>1. /\ LibraryInv(Listen(k, "final"), tc) /\ Listen(k, "final").can_cancel = k.can_cancel
          /\ Onward(k, Listen(k, "final"))
          BY <2>5, <2>9, <2>10, FinalAwaited
    <3>2. QED
          BY <2>6, <2>7, <2>8, <2>11, <3>1 DEF Onward, SameFlags, SameSockets
  <2>12. CASE k.bytes_acked # Total
    <3>1. Receptive(k)
          BY <2>9, <2>10 DEF Receptive, LibraryInv, SocketInv
    <3>2. LibraryInv(TryLoadAndSendFileChunk(k), tc)
          BY <2>5, <2>9, <3>1, LoadKeeps
    <3>3. /\ SameFlags(k, TryLoadAndSendFileChunk(k))
          /\ SameSockets(k, TryLoadAndSendFileChunk(k))
          BY <2>5, LoadEffect
    <3>4. QED
          BY <2>6, <2>7, <2>8, <2>12, <3>2, <3>3, SameOnward DEF SameFlags, SameSockets
  <2>13. QED
         BY <2>11, <2>12
<1>3. QED
      BY <1>1, <1>2

LEMMA OnFinalKeeps ==
  ASSUME NEW j \in JsRecord, NEW tb, NEW w \in Sockets, stored \in Seq(0..Total - 1),
         LibraryInv(j, tb), j.ready[w] = "open", tb[w] # <<>>,
         NEW tc, tc = [tb EXCEPT ![w] = Tail(@)],
         Handler(j, w) \in {"acks", "final"}
  PROVE  /\ LibraryInv(OnFinal(j, Head(tb[w])), tc)
         /\ OnFinal(j, Head(tb[w])).can_cancel => j.can_cancel
         /\ Onward(j, OnFinal(j, Head(tb[w])))
<1> DEFINE m == Head(tb[w])
<1>1. LibraryInv(j, tc)
      BY ReadKeeps
<1>2. j.ws = w /\ w # NoSocket /\ ~j.conn_retry
      BY BrowserAssumption DEF LibraryInv, SocketInv
<1>3. EndInv(j)
      BY DEF LibraryInv
<1>4. m.type = "allDone" => accepted
  <2>1. tb \in [Sockets -> Seq(ToBrowser)] /\ MailInv(j, tb)
        BY DEF LibraryInv
  <2>2. m = tb[w][1] /\ 1 \in 1..Len(tb[w])
        BY <2>1, MailRead
  <2>3. QED
        BY <2>1, <2>2 DEF MailInv, MailAt
<1>5. ASSUME NEW k \in JsRecord,
             k.ws = j.ws, k.ready = j.ready, SameHandlers(j, k), SamePlace(j, k), k.sent = j.sent,
             k.orphans = j.orphans, k.conn_retry = j.conn_retry, k.cancelled = j.cancelled,
             k.cancelling = j.cancelling, k.can_cancel = j.can_cancel, k.paused = j.paused,
             k.finished => accepted, ~k.error => ~j.error, j.finished => k.finished
      PROVE  LibraryInv(Close(k), tc) /\ (Close(k).can_cancel => j.can_cancel) /\ Onward(j, Close(k))
  <2> DEFINE c == Close(k)
  <2>1. /\ c \in JsRecord
        /\ IF k.ws # NoSocket /\ k.ready[k.ws] \in {"connecting", "open"}
           THEN c.ready = [k.ready EXCEPT ![k.ws] = "closing"]
           ELSE c.ready = k.ready
        /\ c.ws = k.ws /\ c.sent = k.sent
        /\ SameHandlers(k, c) /\ SamePlace(k, c) /\ SameFlags(k, c)
        BY CloseEffect
  <2> HIDE DEF c
  <2>2. /\ c.ws = j.ws /\ SameHandlers(j, c) /\ SamePlace(j, c) /\ c.sent = j.sent
        /\ c.orphans = j.orphans /\ c.conn_retry = j.conn_retry
        BY <1>5, <2>1 DEF SameHandlers, SamePlace, SameFlags
  <2>3. j.ws \in Sockets /\ j.ready[j.ws] = "open" /\ c.ready = [j.ready EXCEPT ![j.ws] = "closing"]
        BY <1>2, <1>5, <2>1
  <2>4. /\ ~c.conn_retry
        /\ c.can_cancel => j.can_cancel
        /\ Sends(c) => Sends(j)
        /\ c.finished => accepted
        /\ c.cancelled /\ ~c.error => upload = "discarded"
        /\ j.finished => c.finished
        BY <1>2, <1>3, <1>5, <2>1 DEF SameFlags, Sends, EndInv
  <2>5. LibraryInv(c, tc) /\ Onward(j, c)
        BY <1>1, <2>1, <2>2, <2>3, <2>4, EndKeeps, Zenon
  <2>6. QED
        BY <2>4, <2>5 DEF c
<1>6. CASE m.type = "allDone"
  <2> DEFINE k == [j EXCEPT !.finished = TRUE]
  <2>1. /\ k \in JsRecord /\ k.finished = TRUE /\ k.error = j.error
        /\ k.ws = j.ws /\ k.ready = j.ready /\ SameHandlers(j, k) /\ SamePlace(j, k) /\ k.sent = j.sent
        /\ k.orphans = j.orphans /\ k.conn_retry = j.conn_retry /\ k.cancelled = j.cancelled
        /\ k.cancelling = j.cancelling /\ k.can_cancel = j.can_cancel /\ k.paused = j.paused
        BY DEF JsRecord, SameHandlers, SamePlace
  <2>2. OnFinal(j, m) = Close(k)
        BY <1>6 DEF OnFinal
  <2> HIDE DEF k
  <2>3. LibraryInv(Close(k), tc) /\ (Close(k).can_cancel => j.can_cancel) /\ Onward(j, Close(k))
        BY <1>4, <1>5, <1>6, <2>1
  <2>4. QED
        BY <2>2, <2>3
<1>7. CASE m.type = "error"
  <2> DEFINE k == [j EXCEPT !.error = TRUE]
  <2>1. /\ k \in JsRecord /\ k.finished = j.finished /\ k.error = TRUE
        /\ k.ws = j.ws /\ k.ready = j.ready /\ SameHandlers(j, k) /\ SamePlace(j, k) /\ k.sent = j.sent
        /\ k.orphans = j.orphans /\ k.conn_retry = j.conn_retry /\ k.cancelled = j.cancelled
        /\ k.cancelling = j.cancelling /\ k.can_cancel = j.can_cancel /\ k.paused = j.paused
        BY DEF JsRecord, SameHandlers, SamePlace
  <2>2. OnFinal(j, m) = Close(k)
        BY <1>7 DEF OnFinal
  <2> HIDE DEF k
  <2>3. LibraryInv(Close(k), tc) /\ (Close(k).can_cancel => j.can_cancel) /\ Onward(j, Close(k))
        BY <1>3, <1>5, <2>1 DEF EndInv
  <2>4. QED
        BY <2>2, <2>3
<1>8. CASE m.type \notin {"allDone", "error"}
      BY <1>1, <1>8 DEF OnFinal, Onward
<1>9. QED
      BY <1>6, <1>7, <1>8

LEMMA UsualHandlerKeeps ==
  ASSUME NEW j \in JsRecord, NEW tb, NEW w \in Sockets, stored \in Seq(0..Total - 1),
         Len(stored) <= Total, LibraryInv(j, tb), j.ready[w] = "open", tb[w] # <<>>,
         NEW tc, tc = [tb EXCEPT ![w] = Tail(@)]
  PROVE  /\ LibraryInv(UsualHandler(j, Handler(j, w), Head(tb[w])), tc)
         /\ UsualHandler(j, Handler(j, w), Head(tb[w])).can_cancel => j.can_cancel
         /\ Onward(j, UsualHandler(j, Handler(j, w), Head(tb[w])))
<1> DEFINE k == UsualHandler(j, Handler(j, w), Head(tb[w]))
<1>1. Handler(j, w) \in {"conf", "acks", "final"}
  <2>1. Handler(j, w) # "none" /\ Handler(j, w) \in Usual
        BY JsFields DEF LibraryInv, SocketInv, Handler
  <2>2. QED
        BY <2>1 DEF Usual
<1>2. CASE Handler(j, w) = "conf"
  <2>1. k = OnConf(j, Head(tb[w]))
        BY <1>2 DEF UsualHandler
  <2>2. /\ LibraryInv(OnConf(j, Head(tb[w])), tc)
        /\ OnConf(j, Head(tb[w])).can_cancel => j.can_cancel
        /\ Onward(j, OnConf(j, Head(tb[w])))
        BY <1>2, OnConfKeeps, Zenon
  <2>3. QED
        BY <2>1, <2>2
<1>3. CASE Handler(j, w) = "acks"
  <2>0. Handler(j, w) \in {"acks", "final"}
        BY <1>3
  <2>1. k = OnChunkAck(j, Head(tb[w]))
        BY <1>3 DEF UsualHandler
  <2>2. /\ LibraryInv(OnChunkAck(j, Head(tb[w])), tc)
        /\ OnChunkAck(j, Head(tb[w])).can_cancel => j.can_cancel
        /\ Onward(j, OnChunkAck(j, Head(tb[w])))
        BY <2>0, OnChunkAckKeeps, Zenon
  <2>3. QED
        BY <2>1, <2>2
<1>4. CASE Handler(j, w) = "final"
  <2>0. Handler(j, w) \in {"acks", "final"}
        BY <1>4
  <2>1. k = OnFinal(j, Head(tb[w]))
        BY <1>4 DEF UsualHandler
  <2>2. /\ LibraryInv(OnFinal(j, Head(tb[w])), tc)
        /\ OnFinal(j, Head(tb[w])).can_cancel => j.can_cancel
        /\ Onward(j, OnFinal(j, Head(tb[w])))
        BY <2>0, OnFinalKeeps, Zenon
  <2>3. QED
        BY <2>1, <2>2
<1>5. QED
      BY <1>1, <1>2, <1>3, <1>4

LEMMA RecordWired ==
  ASSUME NEW j \in JsRecord
  PROVE  Wired(j)
<1>1. DOMAIN j = JsFieldNames
      BY FieldNames DEF JsRecord
<1>2. QED
      BY <1>1, JsFields DEF Wired

\* A recv_cancel_ack with a usual handler behind it calls no other.
LEMMA OneInnermost ==
  ASSUME NEW j, NEW c \in Sockets, j.usual[c] \in Usual
  PROVE  Innermost(j, c) = {c}
<1>1. j.usual[c] \notin Sockets
      BY BrowserAssumption
<1>2. c \in Called(j, c)
      BY DEF Called
<1>3. ASSUME NEW b \in Called(j, c)
      PROVE  b = c
  <2>1. {c} \in SUBSET Sockets /\ \A d \in {c} : j.usual[d] \in Sockets => j.usual[d] \in {c}
        BY <1>1
  <2>2. b \in {c}
        BY <1>3, <2>1 DEF Called
  <2>3. QED
        BY <2>2
<1>4. QED
      BY <1>2, <1>3 DEF Innermost

LEMMA OnCancelAckKeeps ==
  ASSUME NEW j \in JsRecord, NEW tb, NEW w \in Sockets, stored \in Seq(0..Total - 1),
         Len(stored) <= Total, LibraryInv(j, tb), j.ready[w] = "open", tb[w] # <<>>,
         NEW tc, tc = [tb EXCEPT ![w] = Tail(@)],
         j.onmessage[w] \in Sockets
  PROVE  LibraryInv(OnCancelAck(j, w, Head(tb[w])), tc) /\ Onward(j, OnCancelAck(j, w, Head(tb[w])))
<1> DEFINE m == Head(tb[w])
           k == UsualHandler(j, j.usual[w], m)
<1>1. j.ws = w /\ w # NoSocket /\ ~j.conn_retry /\ ~j.can_cancel
      BY BrowserAssumption DEF LibraryInv, SocketInv
<1>2. CASE m.type = "cancelAck"
  <2> DEFINE i == [j EXCEPT !.cancelled = TRUE, !.cancelling = FALSE, !.can_cancel = FALSE]
             c == Close(i)
  <2>1. LibraryInv(j, tc)
        BY <1>2, ReadKeeps
  <2>2. upload = "discarded"
    <3>1. tb \in [Sockets -> Seq(ToBrowser)] /\ MailInv(j, tb)
          BY DEF LibraryInv
    <3>2. m = tb[w][1] /\ 1 \in 1..Len(tb[w])
          BY <3>1, MailRead
    <3>3. QED
          BY <1>2, <3>1, <3>2 DEF MailInv, MailAt
  <2>3. /\ i \in JsRecord /\ i.cancelled = TRUE
        /\ i.ws = j.ws /\ i.ready = j.ready /\ SameHandlers(j, i) /\ SamePlace(j, i) /\ i.sent = j.sent
        /\ i.orphans = j.orphans /\ i.conn_retry = j.conn_retry /\ i.can_cancel = FALSE
        /\ i.finished = j.finished
        BY DEF JsRecord, SameHandlers, SamePlace
  <2>4. OnCancelAck(j, w, m) = c
        BY <1>2 DEF OnCancelAck
  <2> HIDE DEF i, m
  <2>5. /\ c \in JsRecord
        /\ IF i.ws # NoSocket /\ i.ready[i.ws] \in {"connecting", "open"}
           THEN c.ready = [i.ready EXCEPT ![i.ws] = "closing"]
           ELSE c.ready = i.ready
        /\ c.ws = i.ws /\ c.sent = i.sent
        /\ SameHandlers(i, c) /\ SamePlace(i, c) /\ SameFlags(i, c)
        BY <2>3, CloseEffect
  <2> HIDE DEF c
  <2>6. /\ c.ws = j.ws /\ SameHandlers(j, c) /\ SamePlace(j, c) /\ c.sent = j.sent
        /\ c.orphans = j.orphans /\ c.conn_retry = j.conn_retry
        BY <2>3, <2>5 DEF SameHandlers, SamePlace, SameFlags
  <2>7. j.ws \in Sockets /\ j.ready[j.ws] = "open" /\ c.ready = [j.ready EXCEPT ![j.ws] = "closing"]
        BY <1>1, <2>3, <2>5
  <2>8. j.finished => accepted
        BY DEF LibraryInv, EndInv
  <2>9. /\ ~c.conn_retry
        /\ c.can_cancel => j.can_cancel
        /\ Sends(c) => Sends(j)
        /\ c.finished => accepted
        /\ c.cancelled /\ ~c.error => upload = "discarded"
        /\ j.finished => c.finished
        BY <1>1, <2>2, <2>3, <2>5, <2>8 DEF SameFlags, Sends
  <2>10. LibraryInv(c, tc) /\ Onward(j, c)
         BY <2>1, <2>5, <2>6, <2>7, <2>9, EndKeeps, Zenon
  <2>11. QED
         BY <2>4, <2>10 DEF m
<1>3. CASE m.type # "cancelAck"
  <2>1. LibraryInv(k, tc) /\ ~k.can_cancel /\ Onward(j, k)
    <3>1. Handler(j, w) = j.usual[w]
          BY DEF Handler
    <3>2. k = UsualHandler(j, Handler(j, w), Head(tb[w]))
          BY <3>1
    <3> HIDE DEF k, m
    <3>3. /\ LibraryInv(UsualHandler(j, Handler(j, w), Head(tb[w])), tc)
          /\ UsualHandler(j, Handler(j, w), Head(tb[w])).can_cancel => j.can_cancel
          /\ Onward(j, UsualHandler(j, Handler(j, w), Head(tb[w])))
          BY UsualHandlerKeeps
    <3>4. QED
          BY <1>1, <3>2, <3>3
  <2> DEFINE r == [k EXCEPT !.usual[w] = IF k.onmessage[k.ws] = w THEN @ ELSE k.onmessage[k.ws],
                            !.onmessage[k.ws] = w]
  <2>2. OnCancelAck(j, w, m) \in {k, r}
    <3>1. j.usual[w] \in Usual
          BY JsFields
    <3>2. Innermost(j, w) = {w}
          BY <3>1, OneInnermost
    <3>3. (CHOOSE b \in {w} : TRUE) = w
          OBVIOUS
    <3>4. QED
          BY <1>3, <3>2, <3>3 DEF OnCancelAck
  <2>3. k.ws = w
    <3>1. Answers(j, k, m)
          BY RecordWired, UsualAnswers, JsFields
    <3>2. QED
          BY <1>1, <3>1 DEF Answers
  <2> DEFINE u == IF k.onmessage[w] = w THEN k.usual[w] ELSE k.onmessage[w]
  <2>4. r = [k EXCEPT !.usual[w] = u, !.onmessage[w] = w]
        BY <2>3
  <2> HIDE DEF k, m, r
  <2>5. k \in JsRecord
        BY <2>1 DEF LibraryInv
  <2>6. u \in Usual /\ Handler(k, w) = u
        BY <2>5, JsFields, BrowserAssumption DEF Handler
  <2> HIDE DEF u
  <2>7. /\ r \in JsRecord
        /\ r.usual = [k.usual EXCEPT ![w] = u]
        /\ r.onmessage = [k.onmessage EXCEPT ![w] = w]
        /\ SameSockets(k, r) /\ SamePlace(k, r) /\ SameFlags(k, r) /\ r.sent = k.sent
    <3>1. [k.onmessage EXCEPT ![w] = w] \in Handlings
          BY <2>5, JsFields DEF Handlings
    <3>2. QED
          BY <2>4, <2>5, <2>6, <3>1 DEF JsRecord, SameSockets, SamePlace, SameFlags
  <2>8. \A s \in Sockets : Handler(r, s) = Handler(k, s)
        BY <2>5, <2>6, <2>7, JsFields DEF Handler
  <2>9. ~r.can_cancel
        BY <2>1, <2>7 DEF SameFlags
  <2>10. /\ k.conn_retry => ~k.finished /\ ~k.cancelled
         /\ k.finished => accepted
         /\ k.cancelled /\ ~k.error => upload = "discarded"
         BY <2>1 DEF LibraryInv, SocketInv, EndInv
  <2>11. Quiet(k, r)
         BY <2>7, <2>8, <2>9, <2>10 DEF Quiet, Sends, SameSockets, SamePlace, SameFlags
  <2>12. LibraryInv(r, tc) /\ Onward(j, r)
         BY <2>1, <2>5, <2>7, <2>11, QuietKeeps DEF Onward
  <2>13. QED
         BY <2>1, <2>2, <2>12 DEF m
<1>4. QED
      BY <1>2, <1>3

LEMMA OnMessageKeeps ==
  ASSUME NEW j \in JsRecord, NEW tb, NEW w \in Sockets, stored \in Seq(0..Total - 1),
         Len(stored) <= Total, LibraryInv(j, tb), j.ready[w] = "open", tb[w] # <<>>,
         NEW tc, tc = [tb EXCEPT ![w] = Tail(@)]
  PROVE  LibraryInv(OnMessage(j, w, Head(tb[w])), tc) /\ Onward(j, OnMessage(j, w, Head(tb[w])))
<1>1. CASE j.onmessage[w] \in Sockets
  <2>0. j.onmessage[w] = w
        BY <1>1, JsFields, BrowserAssumption
  <2>1. LibraryInv(OnCancelAck(j, w, Head(tb[w])), tc) /\ Onward(j, OnCancelAck(j, w, Head(tb[w])))
        BY <1>1, OnCancelAckKeeps
  <2>2. OnMessage(j, w, Head(tb[w])) = OnCancelAck(j, w, Head(tb[w]))
        BY <1>1, <2>0 DEF OnMessage
  <2>3. QED
        BY <2>1, <2>2
<1>2. CASE j.onmessage[w] \notin Sockets
  <2>1. OnMessage(j, w, Head(tb[w])) = UsualHandler(j, Handler(j, w), Head(tb[w]))
        BY <1>2 DEF OnMessage, Handler
  <2>2. /\ LibraryInv(UsualHandler(j, Handler(j, w), Head(tb[w])), tc)
        /\ Onward(j, UsualHandler(j, Handler(j, w), Head(tb[w])))
        BY UsualHandlerKeeps
  <2>3. QED
        BY <2>1, <2>2
<1>3. QED
      BY <1>1, <1>2

-----------------------------------------------------------------------------
(* Steps of the browser.                                                     *)

SameServer == UNCHANGED <<link, session, stored, upload, accepted>>

LEMMA BrowserKeeps ==
  ASSUME NEW k, NEW tb, LibraryInv(k, tb), js' = k, toBrowser' = tb, SameServer
  PROVE  LibraryInv(js, toBrowser)'
<1> USE DEF LibraryInv, SameServer
<1>1. (js \in JsRecord)' /\ (toBrowser \in [Sockets -> Seq(ToBrowser)])'
      OBVIOUS
<1>2. SocketInv(js)' /\ ReaderInv(js)' /\ EndInv(js)'
      BY DEF SocketInv, ReaderInv, EndInv, Handler
<1>3. SentInv(js)'
      BY DEF SentInv, SentAt
<1>4. WireInv(js, toBrowser)'
      BY DEF WireInv, WireAt, Resumes, Flows, Handler, Sends
<1>5. MailInv(js, toBrowser)'
      BY DEF MailInv, MailAt
<1>6. QED
      BY <1>1, <1>2, <1>3, <1>4, <1>5

Started(j, k, s) ==
  /\ k.ready = [j.ready EXCEPT ![s] = "connecting"]
  /\ k.onmessage = [j.onmessage EXCEPT ![s] = "none"]
  /\ k.sent = [j.sent EXCEPT ![s] = <<>>]
  /\ k.reader = j.reader /\ k.bytes_acked = j.bytes_acked
  /\ k.orphans = j.orphans /\ k.conn_retry = j.conn_retry /\ k.finished = j.finished
  /\ k.cancelled = j.cancelled /\ k.error = j.error

LEMMA StartEffect ==
  ASSUME NEW j \in JsRecord, NEW s \in Sockets
  PROVE  /\ Start(j, s) \in JsRecord /\ Start(j, s).ws = s
         /\ Started(j, Start(j, s), s)
<1> DEFINE a == [j EXCEPT !.ws = s, !.ready[s] = "connecting",
                          !.onmessage[s] = "none", !.usual[s] = "none"]
           b == [a EXCEPT !.sent[s] = <<>>]
           n == j.bytes_acked
           k == [b EXCEPT !.bytes_tx = n, !.chunks_ahead = 0, !.connected = FALSE,
                          !.paused = FALSE, !.can_cancel = TRUE, !.can_pause = FALSE]
<1>1. a \in JsRecord
  <2>1. "connecting" \in Ready /\ "none" \in Usual
        BY DEF Ready, Usual
  <2>2. [j.onmessage EXCEPT ![s] = "none"] \in Handlings
        BY <2>1, JsFields DEF Handlings
  <2>3. QED
        BY <2>1, <2>2 DEF JsRecord
<1>2. /\ a.sent = j.sent /\ a.ws = s
      /\ a.ready = [j.ready EXCEPT ![s] = "connecting"]
      /\ a.onmessage = [j.onmessage EXCEPT ![s] = "none"]
      /\ SamePlace(j, a) /\ SameFlags(j, a)
      BY DEF JsRecord, SamePlace, SameFlags
<1>3. <<>> \in Seq(ToServer) /\ n \in 0..Total
      BY JsFields
<1>4. k = Start(j, s)
      BY DEF Start, WindowAtStart
<1> HIDE DEF a
<1>5. /\ b \in JsRecord /\ b.sent = [a.sent EXCEPT ![s] = <<>>]
      /\ SameSockets(a, b) /\ SameHandlers(a, b) /\ SamePlace(a, b) /\ SameFlags(a, b)
  <2> DEFINE q == <<>>
  <2>1. q \in Seq(ToServer) /\ b = [a EXCEPT !.sent[s] = q]
        BY <1>3
  <2>2. b.sent = [a.sent EXCEPT ![s] = q] => b.sent = [a.sent EXCEPT ![s] = <<>>]
        OBVIOUS
  <2> HIDE DEF b, q
  <2>3. QED
        BY <1>1, <2>1, <2>2, SentSet
<1> HIDE DEF b, n
<1>6. k \in JsRecord
  <2>1. \A i \in Int, p \in BOOLEAN, q \in BOOLEAN :
          [b EXCEPT !.bytes_tx = n, !.chunks_ahead = i, !.connected = p, !.paused = p,
                    !.can_cancel = q, !.can_pause = p] \in JsRecord
        BY <1>3, <1>5 DEF JsRecord
  <2>2. 0 \in Int /\ TRUE \in BOOLEAN /\ FALSE \in BOOLEAN
        OBVIOUS
  <2>3. QED
        BY <2>1, <2>2, Zenon
<1>7. /\ SameSockets(b, k) /\ SameHandlers(b, k) /\ k.sent = b.sent
      /\ k.reader = b.reader /\ k.bytes_acked = b.bytes_acked
      /\ k.orphans = b.orphans /\ k.conn_retry = b.conn_retry /\ k.finished = b.finished
      /\ k.cancelled = b.cancelled /\ k.error = b.error
      BY <1>5 DEF JsRecord, SameSockets, SameHandlers
<1> HIDE DEF k
<1>8. QED
      BY <1>2, <1>4, <1>5, <1>6, <1>7
         DEF SameSockets, SameHandlers, SamePlace, SameFlags, Started

\* The other sockets are closed when the library starts again.
LEMMA StartKeeps ==
  ASSUME LibraryInv(js, toBrowser), SessionTypes, NEW j \in JsRecord, NEW s \in Sockets,
         j = [js EXCEPT !.conn_retry = FALSE], js.ws = NoSocket, LoadsAreShort,
         StartsOn(j, s)
  PROVE  LibraryInv(js, toBrowser)' /\ js'.finished = js.finished
<1> USE DEF LibraryInv
<1>1. /\ j.ready = js.ready /\ j.sent = js.sent /\ j.onmessage = js.onmessage /\ j.usual = js.usual
      /\ j.reader = js.reader /\ j.bytes_acked = js.bytes_acked /\ j.orphans = 0
      /\ j.conn_retry = FALSE /\ j.finished = js.finished /\ j.cancelled = js.cancelled
      /\ j.error = js.error
      BY DEF JsRecord, SocketInv
<1> DEFINE k == Start(j, s)
<1>2. /\ js' = k /\ j.reader = NotLoading /\ session[s] = "none"
      /\ link' = [link EXCEPT ![s] = "up"]
      /\ toBrowser' = toBrowser /\ session' = session
      /\ UNCHANGED <<upload, stored, accepted>>
      BY DEF StartsOn, uploadVars
<1>3. /\ k \in JsRecord /\ k.ws = s
      /\ k.ready = [js.ready EXCEPT ![s] = "connecting"]
      /\ k.onmessage = [js.onmessage EXCEPT ![s] = "none"]
      /\ k.sent = [js.sent EXCEPT ![s] = <<>>]
      /\ k.reader = NotLoading /\ k.bytes_acked = js.bytes_acked /\ k.orphans = 0
      /\ k.conn_retry = FALSE /\ k.finished = js.finished /\ k.cancelled = js.cancelled
      /\ k.error = js.error
  <2>1. k \in JsRecord /\ k.ws = s /\ Started(j, k, s)
    <3> HIDE DEF LibraryInv
    <3>1. QED
          BY StartEffect
  <2>2. QED
        BY <1>1, <1>2, <2>1 DEF Started
<1> HIDE DEF k
<1>4. s # NoSocket /\ \A t \in Sockets : js.ready[t] = "closed"
      BY BrowserAssumption DEF SocketInv
<1>5. /\ \A t \in Sockets : t # s => k.ready[t] = "closed" /\ k.sent[t] = js.sent[t]
      /\ k.ready[s] = "connecting" /\ k.sent[s] = <<>> /\ Handler(k, s) = "none"
      BY <1>3, <1>4, JsFields, NamesApart DEF Handler
<1>6. (js \in JsRecord)' /\ (toBrowser \in [Sockets -> Seq(ToBrowser)])'
      BY <1>2, <1>3 DEF JsRecord, Ready, Usual, ToServer
<1>7. SocketInv(js)'
      BY <1>2, <1>3, <1>5 DEF SocketInv
<1>8. ReaderInv(js)' /\ EndInv(js)'
      BY <1>2, <1>3 DEF ReaderInv, EndInv
<1>9. SentInv(js)'
      BY <1>2, <1>5 DEF SentInv, SentAt
<1>10. WireInv(js, toBrowser)'
       BY <1>2, <1>5 DEF WireInv, WireAt
<1>11. MailInv(js, toBrowser)'
  <2>1. ASSUME NEW t \in Sockets
        PROVE  toBrowser[t] = <<>>
        BY <1>4 DEF MailInv, MailAt
  <2>2. \A t \in Sockets : toBrowser'[t] = <<>> /\ Len(toBrowser'[t]) = 0
        BY <1>2, <2>1
  <2>3. QED
        BY <2>2 DEF MailInv, MailAt
<1>12. QED
       BY <1>2, <1>3, <1>6, <1>7, <1>8, <1>9, <1>10, <1>11

LEMMA OpenKeeps ==
  ASSUME LibraryInv(js, toBrowser), SessionTypes, NEW s \in Sockets, SocketOpens(s)
  PROVE  LibraryInv(js, toBrowser)' /\ Onward(js, js')
<1> USE DEF LibraryInv
<1> DEFINE j == [js EXCEPT !.ready[s] = "open"]
           i == [j EXCEPT !.connected = TRUE]
           l == Send(i, Msg("req"))
           k == Listen(l, "conf")
<1>1. /\ js.ready[s] = "connecting" /\ link[s] = "up" /\ js' = OnOpen(j)
      /\ session' = [session EXCEPT ![s] = "request"]
      /\ link' = link /\ toBrowser' = toBrowser
      /\ UNCHANGED <<upload, stored, accepted>>
      BY DEF SocketOpens, uploadVars
<1>2. /\ js.ws = s /\ s # NoSocket /\ session[s] = "none" /\ Handler(js, s) = "none"
      /\ \A t \in Sockets : t # s => js.ready[t] = "closed"
      BY <1>1, BrowserAssumption DEF SocketInv
<1>3. /\ i \in JsRecord /\ i.ready = [js.ready EXCEPT ![s] = "open"] /\ i.ws = s
      /\ i.sent = js.sent /\ SameHandlers(js, i) /\ SamePlace(js, i) /\ SameFlags(js, i)
      BY <1>2 DEF JsRecord, Ready, SameHandlers, SamePlace, SameFlags
<1>4. i.ready[s] = "open"
      BY <1>3, JsFields
<1>5. js' = k
      BY <1>1, <1>2, <1>3, <1>4 DEF OnOpen, SendThrows
<1> HIDE DEF i, j, LibraryInv
<1>6. /\ l \in JsRecord
      /\ IF IsOpen(i) /\ link[i.ws] = "up"
         THEN l.sent = [i.sent EXCEPT ![i.ws] = Append(i.sent[i.ws], Msg("req"))]
         ELSE l.sent = i.sent
      /\ SameSockets(i, l) /\ SameHandlers(i, l) /\ SamePlace(i, l) /\ SameFlags(i, l)
      BY <1>3, ControlMessages, SendEffect
<1> HIDE DEF l
<1>7. "conf" \in Usual \cup {l.ws}
      BY DEF Usual
<1>8. /\ k \in JsRecord
      /\ IF l.ws = NoSocket THEN k.onmessage = l.onmessage
                            ELSE k.onmessage = [l.onmessage EXCEPT ![l.ws] = "conf"]
      /\ k.usual = l.usual /\ k.sent = l.sent
      /\ SameSockets(l, k) /\ SamePlace(l, k) /\ SameFlags(l, k)
      BY <1>6, <1>7, ListenEffect
<1> HIDE DEF k
<1>9. /\ k.ws = s /\ k.ready = [js.ready EXCEPT ![s] = "open"]
      /\ k.onmessage = [js.onmessage EXCEPT ![s] = "conf"]
      /\ SamePlace(js, k) /\ SameFlags(js, k)
      /\ k.sent = [js.sent EXCEPT ![s] = Append(js.sent[s], Msg("req"))]
  <2>1. IsOpen(i) /\ link[i.ws] = "up"
        BY <1>1, <1>2, <1>3, <1>4 DEF IsOpen
  <2>2. k.sent = [js.sent EXCEPT ![s] = Append(js.sent[s], Msg("req"))]
        BY <2>1, <1>3, <1>6, <1>8
  <2>3. SamePlace(js, k) /\ SameFlags(js, k)
        BY <1>3, <1>6, <1>8 DEF SamePlace, SameFlags
  <2>4. k.ws = s /\ k.ready = [js.ready EXCEPT ![s] = "open"]
        BY <1>3, <1>6, <1>8 DEF SameSockets
  <2>5. k.onmessage = [js.onmessage EXCEPT ![s] = "conf"]
        BY <1>2, <1>3, <1>6, <1>8 DEF SameSockets, SameHandlers
  <2>6. QED
        BY <2>2, <2>3, <2>4, <2>5
<1>10. js \in JsRecord /\ toBrowser \in [Sockets -> Seq(ToBrowser)] /\ SocketInv(js)
       /\ ReaderInv(js) /\ EndInv(js) /\ SentInv(js) /\ MailInv(js, toBrowser)
       BY DEF LibraryInv
<1>11. js.sent[s] = <<>>
       BY <1>2, <1>10 DEF SentInv, SentAt
<1>12. /\ k.ready[s] = "open" /\ Handler(k, s) = "conf" /\ k.onmessage[s] \notin Sockets
       /\ k.sent[s] = <<Msg("req")>>
       /\ \A t \in Sockets : t # s => k.ready[t] = "closed" /\ k.sent[t] = js.sent[t]
       BY <1>2, <1>9, <1>10, <1>11, JsFields, NamesApart DEF Handler
<1>13. session'[s] = "request" /\ \A t \in Sockets : t # s => session'[t] = session[t]
       BY <1>1 DEF SessionTypes
<1>14. (js \in JsRecord)' /\ (toBrowser \in [Sockets -> Seq(ToBrowser)])'
       BY <1>1, <1>5, <1>8, <1>10
<1>15. SocketInv(js)'
  <2>1. k.orphans = 0 /\ ~k.conn_retry
        BY <1>2, <1>9, <1>10 DEF SocketInv, SameFlags
  <2>2. QED
        BY <1>5, <1>9, <1>12, <1>13, <2>1 DEF SocketInv
<1>16. ReaderInv(js)'
  <2>1. js.reader = NotLoading
        BY <1>1, <1>2, <1>10 DEF ReaderInv
  <2>2. QED
        BY <1>5, <1>9, <2>1 DEF ReaderInv, SamePlace
<1>17. EndInv(js)'
       BY <1>1, <1>5, <1>9, <1>10 DEF EndInv, SamePlace, SameFlags
<1>18. SentInv(js)'
  <2>1. NoneOf(k.sent[s], {"ack", "chunk"})
        BY <1>12 DEF NoneOf, Msg
  <2>2. ASSUME NEW t \in Sockets, t # s
        PROVE  SentAt(js, t)'
        BY <1>1, <1>5, <1>10, <1>12, <1>13, <2>2 DEF SentInv, SentAt
  <2>3. SentAt(js, s)'
        BY <1>5, <1>13, <2>1 DEF SentAt
  <2>4. QED
        BY <2>2, <2>3 DEF SentInv
<1>19. toBrowser[s] = <<>>
       BY <1>1, <1>10 DEF MailInv, MailAt
<1>20. WireInv(js, toBrowser)'
  <2>1. Len(k.sent[s]) = 1
        BY <1>12
  <2>2. QED
    <3>1. k.sent[s] # <<>> /\ toBrowser'[s] = <<>> /\ Len(js'.sent[s]) <= 1
          BY <1>1, <1>5, <1>12, <1>19, <2>1
    <3>2. WireAt(js, toBrowser, s)'
          BY <1>5, <1>12, <1>13, <3>1 DEF WireAt, Handler
    <3>3. ASSUME NEW t \in Sockets, t # s
          PROVE  WireAt(js, toBrowser, t)'
          BY <1>5, <1>12, <3>3 DEF WireAt
    <3>4. QED
          BY <3>2, <3>3 DEF WireInv
<1>21. MailInv(js, toBrowser)'
  <2>1. ASSUME NEW t \in Sockets
        PROVE  toBrowser[t] = <<>>
        BY <1>2, <1>10, <1>19 DEF MailInv, MailAt
  <2>2. \A t \in Sockets : toBrowser'[t] = <<>> /\ Len(toBrowser'[t]) = 0
        BY <1>1, <2>1
  <2>3. QED
        BY <2>2 DEF MailInv, MailAt
<1>22. Onward(js, js')
       BY <1>1, <1>5, <1>9, <1>12 DEF Onward, SameFlags
<1>23. QED
       BY <1>14, <1>15, <1>16, <1>17, <1>18, <1>20, <1>21, <1>22 DEF LibraryInv

LEMMA SocketClosesKeeps ==
  ASSUME LibraryInv(js, toBrowser), NEW s \in Sockets, SocketCloses(s)
  PROVE  LibraryInv(js, toBrowser)' /\ Onward(js, js')
<1> USE DEF LibraryInv
<1> DEFINE c == [js EXCEPT !.ready[s] = "closed"]
           k == OnClose(c)
<1>1. /\ js.ready[s] # "closed"
      /\ js' \in {OnClose(c), OnClose(OnError(c))}
      /\ toBrowser' = [toBrowser EXCEPT ![s] = <<>>]
      /\ SameServer
      BY DEF SocketCloses, uploadVars, SameServer
<1>2. js.ws = s /\ s # NoSocket /\ ~js.conn_retry /\ \A t \in Sockets : t # s => js.ready[t] = "closed"
      BY <1>1, BrowserAssumption DEF SocketInv
<1>3. /\ c \in JsRecord /\ c.ready = [js.ready EXCEPT ![s] = "closed"] /\ c.ws = s
      /\ c.sent = js.sent /\ SamePlace(js, c) /\ SameFlags(js, c)
      BY <1>2 DEF JsRecord, Ready, SamePlace, SameFlags
<1>4. js' = k
  <2>1. c.ready[c.ws] = "closed"
        BY <1>3, JsFields
  <2>2. OnError(c) = c
        BY <2>1 DEF OnError, Close
  <2>3. QED
        BY <1>1, <2>2
<1> HIDE DEF c
<1>5. /\ k \in JsRecord /\ k.ws = NoSocket /\ k.ready = c.ready /\ k.sent = c.sent
      /\ SamePlace(c, k) /\ k.orphans = c.orphans /\ k.finished = c.finished
      /\ k.cancelled = c.cancelled /\ k.error = c.error
      /\ k.conn_retry => ~k.finished /\ ~k.cancelled
  <2>1. ~c.conn_retry
        BY <1>2, <1>3 DEF SameFlags
  <2>2. CASE StaysClosed(c)
        BY <1>3, <2>1, <2>2 DEF OnClose, JsRecord, SamePlace
  <2>3. CASE ~StaysClosed(c)
        BY <1>3, <2>1, <2>3 DEF OnClose, StaysClosed, JsRecord, SamePlace
  <2>4. QED
        BY <2>2, <2>3
<1> HIDE DEF k
<1>6. /\ \A t \in Sockets : k.ready[t] = "closed"
      /\ k.orphans = 0 /\ k.reader = js.reader /\ k.bytes_tx = js.bytes_tx /\ k.sent = js.sent
      /\ k.bytes_acked = js.bytes_acked /\ k.finished = js.finished
      /\ k.cancelled = js.cancelled /\ k.error = js.error
  <2>1. \A t \in Sockets : c.ready[t] = "closed"
        BY <1>2, <1>3, JsFields
  <2>2. c.orphans = 0
        BY <1>3 DEF SocketInv, SameFlags
  <2>3. QED
        BY <1>3, <1>5, <2>1, <2>2 DEF SamePlace, SameFlags
<1>7. (js \in JsRecord)' /\ (toBrowser \in [Sockets -> Seq(ToBrowser)])'
  <2>1. <<>> \in Seq(ToBrowser)
        OBVIOUS
  <2>2. toBrowser' \in [Sockets -> Seq(ToBrowser)]
        BY <1>1, <2>1
  <2>3. QED
        BY <1>4, <1>5, <2>2 DEF JsRecord, Ready, Usual, ToServer, ToBrowser
<1>8. SocketInv(js)' /\ ReaderInv(js)' /\ EndInv(js)'
      BY <1>1, <1>4, <1>5, <1>6 DEF SocketInv, ReaderInv, EndInv, SameServer
<1>9. SentInv(js)' /\ WireInv(js, toBrowser)'
      BY <1>1, <1>4, <1>6 DEF SentInv, SentAt, WireInv, WireAt, SameServer
<1>10. MailInv(js, toBrowser)'
  <2>1. \A t \in Sockets : toBrowser'[t] = <<>> /\ Len(toBrowser'[t]) = 0
        BY <1>1, <1>2 DEF MailInv, MailAt
  <2>2. QED
        BY <2>1 DEF MailInv, MailAt
<1>11. Onward(js, js')
       BY <1>4, <1>6 DEF Onward
<1>12. QED
       BY <1>7, <1>8, <1>9, <1>10, <1>11

-----------------------------------------------------------------------------
(* Steps of the network and of the server, which leave the library alone     *)
(* except for the messages on the sockets of S.                              *)

SameLibrary(j, k) ==
  /\ SameSockets(j, k) /\ SameHandlers(j, k) /\ SamePlace(j, k) /\ SameFlags(j, k)

\* What a step does to a socket outside of S.
LeftAlone(s) == /\ js'.sent[s] = js.sent[s] /\ toBrowser'[s] = toBrowser[s]
                /\ session'[s] = session[s] /\ link'[s] = link[s]

\* The upload gets on, but what has been promised of it stays true.
UploadGetsOn ==
  /\ stored' \in Seq(0..Total - 1) /\ Len(stored) <= Len(stored')
  /\ accepted => accepted'
  /\ upload = "discarded" => upload' = "discarded"

\* What a message to the library says is true after the step that sends it.
NewMessage(m, s) ==
  /\ m \in ToBrowser
  /\ m.type = "conf" => m.pos <= Len(stored')
  /\ m.type = "cancelAck" => upload' = "discarded"
  /\ m.type = "allDone" => accepted'
  /\ m.type = "chunkAck" => /\ js.bytes_acked + Len(toBrowser[s]) + 1 <= Len(stored')
                            /\ NoneOf(toBrowser[s], {"conf"})

LEMMA MailAdded ==
  ASSUME js \in JsRecord, toBrowser \in [Sockets -> Seq(ToBrowser)],
         stored \in Seq(0..Total - 1), NEW s \in Sockets, MailAt(js, toBrowser, s),
         js'.ready = js.ready, js'.bytes_acked = js.bytes_acked, UploadGetsOn,
         \/ toBrowser'[s] = toBrowser[s]
         \/ /\ js.ready[s] = "open"
            /\ \E m : NewMessage(m, s) /\ toBrowser'[s] = toBrowser[s] \o <<m>>
  PROVE  MailAt(js, toBrowser, s)'
<1> DEFINE q == toBrowser[s]
           n == Len(stored)
           o == Len(stored')
           b == js.bytes_acked
<1>1. q \in Seq(ToBrowser) /\ n \in Nat /\ o \in Nat /\ n <= o /\ b \in Nat /\ Len(q) \in Nat
      BY JsFields, LenProperties DEF UploadGetsOn
<1>2. ASSUME NEW i \in 1..Len(q)
      PROVE  /\ q[i].type = "conf" => q[i].pos <= o
             /\ q[i].type = "cancelAck" => upload' = "discarded"
             /\ q[i].type = "allDone" => accepted'
             /\ q[i].type = "chunkAck" /\ js.ready[s] = "open" =>
                  /\ b + i <= o
                  /\ \A h \in 1..i : q[h].type # "conf"
  <2> DEFINE m == q[i]
  <2>1. m \in ToBrowser
    <3> HIDE DEF q
    <3> QED
        BY <1>1, <1>2, ElementOfSeq
  <2>2. m.pos \in Nat
    <3> HIDE DEF m
    <3> QED
        BY <2>1, BrowserAssumption DEF ToBrowser
  <2>3. /\ m.type = "conf" => m.pos <= n
        /\ m.type = "cancelAck" => upload = "discarded"
        /\ m.type = "allDone" => accepted
        /\ m.type = "chunkAck" /\ js.ready[s] = "open" =>
             /\ b + i <= n
             /\ \A h \in 1..i : q[h].type # "conf"
        BY DEF MailAt
  <2>4. /\ m.type = "conf" => m.pos <= o
        /\ m.type = "chunkAck" /\ js.ready[s] = "open" => b + i <= o
    <3> HIDE DEF m, n, o, b, q
    <3> QED
        BY <1>1, <1>2, <2>2, <2>3
  <2>5. QED
        BY <2>3, <2>4 DEF UploadGetsOn
<1>3. CASE toBrowser'[s] = q
  <2>1. js.ready[s] \in {"closed", "connecting"} => q = <<>>
        BY DEF MailAt
  <2> HIDE DEF q
  <2>2. QED
        BY <1>2, <1>3, <2>1 DEF MailAt
<1>4. ASSUME js.ready[s] = "open", NEW m, NewMessage(m, s), toBrowser'[s] = q \o <<m>>
      PROVE  MailAt(js, toBrowser, s)'
  <2> DEFINE r == q \o <<m>>
  <2>1. m \in ToBrowser /\ <<m>> \in Seq(ToBrowser) /\ Len(<<m>>) = 1 /\ <<m>>[1] = m
        BY <1>4 DEF NewMessage
  <2>2. /\ Len(r) = Len(q) + 1
        /\ \A i \in 1..Len(q) : r[i] = q[i]
        /\ r[Len(q) + 1] = m
    <3> HIDE DEF q
    <3>1. /\ Len(r) = Len(q) + Len(<<m>>)
          /\ \A i \in 1..Len(q) + Len(<<m>>) :
               r[i] = IF i <= Len(q) THEN q[i] ELSE <<m>>[i - Len(q)]
          BY <1>1, <2>1, ConcatProperties
    <3>2. Len(q) + 1 \in 1..Len(q) + 1 /\ Len(q) + 1 - Len(q) = 1 /\ ~(Len(q) + 1 <= Len(q))
          BY <1>1
    <3>3. QED
          BY <1>1, <2>1, <3>1, <3>2
  <2>3. /\ m.type = "conf" => m.pos <= o
        /\ m.type = "cancelAck" => upload' = "discarded"
        /\ m.type = "allDone" => accepted'
        /\ m.type = "chunkAck" => /\ b + (Len(q) + 1) <= o
                                  /\ \A h \in 1..Len(q) : q[h].type # "conf"
        BY <1>1, <1>4 DEF NewMessage, NoneOf
  <2>4. toBrowser'[s] = r
        BY <1>4
  <2> HIDE DEF q, n, o, b, r
  <2>5. \A i \in 1..Len(r) : i \in 1..Len(q) \/ i = Len(q) + 1
        BY <1>1, <2>2
  <2>6. ASSUME NEW i \in 1..Len(r)
        PROVE  /\ r[i].type = "conf" => r[i].pos <= o
               /\ r[i].type = "cancelAck" => upload' = "discarded"
               /\ r[i].type = "allDone" => accepted'
               /\ r[i].type = "chunkAck" =>
                    /\ b + i <= o
                    /\ \A h \in 1..i : r[h].type # "conf"
    <3>1. CASE i \in 1..Len(q)
      <4>1. \A h \in 1..i : h \in 1..Len(q)
            BY <1>1, <3>1
      <4>2. QED
            BY <1>2, <1>4, <2>2, <3>1, <4>1
    <3>2. CASE i = Len(q) + 1
      <4>1. \A h \in 1..i : h \in 1..Len(q) \/ h = Len(q) + 1
            BY <1>1, <3>2
      <4>2. QED
            BY <2>2, <2>3, <3>2, <4>1
    <3>3. QED
          BY <2>5, <3>1, <3>2
  <2>7. js'.ready[s] \notin {"closed", "connecting"}
        BY <1>4
  <2>8. QED
        BY <2>4, <2>6, <2>7 DEF MailAt, o, b
<1>5. QED
      BY <1>3, <1>4

LEMMA ServerKeeps ==
  ASSUME LibraryInv(js, toBrowser), stored \in Seq(0..Total - 1),
         NEW S \in SUBSET Sockets,
         js' \in JsRecord, toBrowser' \in [Sockets -> Seq(ToBrowser)],
         SameLibrary(js, js'), UploadGetsOn,
         \A s \in Sockets \ S :
           LeftAlone(s) /\ (stored' = stored \/ session[s] \notin {"ack", "chunks"}),
         \A s \in S : /\ session[s] = "none" => session'[s] = "none"
                      /\ js.ready[s] = "open" /\ link'[s] = "up" => session'[s] # "none"
                      /\ SentAt(js, s)' /\ WireAt(js, toBrowser, s)' /\ MailAt(js, toBrowser, s)'
  PROVE  LibraryInv(js, toBrowser)'
<1> USE DEF LibraryInv, SameLibrary
<1>1. /\ js'.ws = js.ws /\ js'.ready = js.ready /\ js'.onmessage = js.onmessage
      /\ js'.usual = js.usual /\ js'.reader = js.reader /\ js'.bytes_tx = js.bytes_tx
      /\ js'.bytes_acked = js.bytes_acked
      BY DEF SameSockets, SameHandlers, SamePlace
<1>2. \A s \in Sockets : Handler(js', s) = Handler(js, s)
      BY <1>1 DEF Handler
<1>3. Sends(js') <=> Sends(js)
      BY DEF Sends, SameFlags
<1>4. Len(stored) \in Nat /\ Len(stored') \in Nat
      BY LenProperties DEF UploadGetsOn
<1>5. SocketInv(js)'
  <2>1. \A s \in Sockets :
          /\ session[s] = "none" => session'[s] = "none"
          /\ js.ready[s] = "open" /\ link'[s] = "up" => session'[s] # "none"
        BY DEF LeftAlone, SocketInv
  <2>2. QED
        BY <1>1, <1>2, <2>1 DEF SocketInv, SameFlags
<1>6. ReaderInv(js)'
      BY <1>1, <1>2 DEF ReaderInv
<1>7. EndInv(js)'
  <2>1. js'.bytes_acked <= Len(stored')
        BY <1>1, <1>4, JsFields DEF EndInv, UploadGetsOn
  <2>2. QED
        BY <2>1 DEF EndInv, UploadGetsOn, SameFlags
<1>8. ASSUME NEW s \in Sockets \ S
      PROVE  SentAt(js, s)' /\ WireAt(js, toBrowser, s)' /\ MailAt(js, toBrowser, s)'
  <2>1. LeftAlone(s) /\ (stored' = stored \/ session[s] \notin {"ack", "chunks"})
        OBVIOUS
  <2>2. SentAt(js, s) /\ WireAt(js, toBrowser, s) /\ MailAt(js, toBrowser, s)
        BY DEF SentInv, WireInv, MailInv
  <2>3. SentAt(js, s)'
        BY <2>1, <2>2 DEF SentAt, LeftAlone
  <2>4. WireAt(js, toBrowser, s)'
    <3>1. CASE stored' = stored
      <4>1. /\ \A d \in {0, 1} : Flows(js, toBrowser, s, d) => Flows(js, toBrowser, s, d)'
            /\ Resumes(js, toBrowser, s) => Resumes(js, toBrowser, s)'
            BY <1>1, <1>2, <1>3, <2>1, <3>1 DEF Flows, Resumes, LeftAlone
      <4>2. QED
            BY <1>1, <1>2, <1>3, <2>1, <2>2, <4>1 DEF WireAt, LeftAlone
    <3>2. CASE session[s] \notin {"ack", "chunks"}
          BY <1>1, <1>2, <1>3, <2>1, <2>2, <3>2 DEF WireAt, LeftAlone
    <3>3. QED
          BY <2>1, <3>1, <3>2
  <2>5. MailAt(js, toBrowser, s)'
    <3>1. toBrowser'[s] = toBrowser[s]
          BY <2>1 DEF LeftAlone
    <3>2. QED
          BY <1>1, <2>2, <3>1, MailAdded
  <2>6. QED
        BY <2>3, <2>4, <2>5
<1>9. SentInv(js)' /\ WireInv(js, toBrowser)' /\ MailInv(js, toBrowser)'
      BY <1>8 DEF SentInv, WireInv, MailInv
<1>10. QED
       BY <1>5, <1>6, <1>7, <1>9

-----------------------------------------------------------------------------
(* Steps of one session.                                                     *)

LEMMA SentTo ==
  ASSUME js \in JsRecord, NEW s \in Sockets, NEW q \in Seq(ToServer),
         js' = [js EXCEPT !.sent[s] = q]
  PROVE  /\ js' \in JsRecord /\ SameLibrary(js, js')
         /\ js'.sent[s] = q /\ \A t \in Sockets \ {s} : js'.sent[t] = js.sent[t]
<1>1. /\ js' \in JsRecord /\ SameLibrary(js, js')
      /\ js'.sent = [js.sent EXCEPT ![s] = q]
  <2>1. \A j \in JsRecord : \A k : k = [j EXCEPT !.sent[s] = q] =>
          /\ k \in JsRecord
          /\ k.sent = [j.sent EXCEPT ![s] = q]
          /\ SameSockets(j, k) /\ SameHandlers(j, k) /\ SamePlace(j, k) /\ SameFlags(j, k)
        BY SentSet
  <2>2. QED
        BY <2>1 DEF SameLibrary
<1>2. QED
      BY <1>1, JsFields

LEMMA SameSends ==
  ASSUME NEW j, NEW k, SameLibrary(j, k)
  PROVE  /\ k.ready = j.ready /\ k.bytes_acked = j.bytes_acked /\ k.bytes_tx = j.bytes_tx
         /\ \A s \in Sockets : Handler(k, s) = Handler(j, s)
         /\ Sends(k) <=> Sends(j)
<1>1. SameSockets(j, k) /\ SameHandlers(j, k) /\ SamePlace(j, k) /\ SameFlags(j, k)
      BY DEF SameLibrary
<1>2. k.ready = j.ready /\ k.bytes_acked = j.bytes_acked /\ k.bytes_tx = j.bytes_tx
      BY <1>1 DEF SameSockets, SamePlace
<1>3. \A s \in Sockets : Handler(k, s) = Handler(j, s)
      BY <1>1 DEF SameHandlers, Handler
<1>4. Sends(k) <=> Sends(j)
      BY <1>1 DEF SameFlags, Sends
<1>5. QED
      BY <1>2, <1>3, <1>4

LEMMA DeliveredTo ==
  ASSUME toBrowser \in [Sockets -> Seq(ToBrowser)], NEW s \in Sockets, NEW m \in ToBrowser
  PROVE  /\ Delivered(s, <<m>>) \in [Sockets -> Seq(ToBrowser)]
         /\ \A t \in Sockets \ {s} : Delivered(s, <<m>>)[t] = toBrowser[t]
         /\ Delivered(s, <<m>>)[s] = IF Listens(s) THEN toBrowser[s] \o <<m>> ELSE toBrowser[s]
         /\ Delivered(s, <<>>) = toBrowser
<1> DEFINE q == toBrowser[s]
<1>1. q \in Seq(ToBrowser) /\ <<m>> \in Seq(ToBrowser)
      OBVIOUS
<1>2. q \o <<m>> \in Seq(ToBrowser) /\ q \o <<>> = q
  <2> HIDE DEF q
  <2> QED
      BY <1>1, ConcatProperties, ConcatEmptySeq
<1>3. Delivered(s, <<>>) = toBrowser
      BY <1>2 DEF Delivered
<1>4. QED
      BY <1>1, <1>2, <1>3 DEF Delivered

\* A step of the session of s, and what it leaves on its connection.
LEMMA SessionKeeps ==
  ASSUME TransferInv, NEW s \in Sockets, NEW q \in Seq(ToServer),
         js' = [js EXCEPT !.sent[s] = q],
         toBrowser' \in [Sockets -> Seq(ToBrowser)],
         \A t \in Sockets \ {s} : /\ toBrowser'[t] = toBrowser[t]
                                  /\ session'[t] = session[t] /\ link'[t] = link[t],
         UploadGetsOn, stored' = stored \/ session[s] = "chunks",
         session[s] = "none" => session'[s] = "none",
         js.ready[s] = "open" /\ link'[s] = "up" => session'[s] # "none",
         SentAt(js, s)', WireAt(js, toBrowser, s)', MailAt(js, toBrowser, s)'
  PROVE  LibraryInv(js, toBrowser)'
<1>1. LibraryInv(js, toBrowser) /\ stored \in Seq(0..Total - 1) /\ js \in JsRecord /\ Bounded
      BY DEF TransferInv, UploadInv, LibraryInv
<1>2. /\ js' \in JsRecord /\ SameLibrary(js, js')
      /\ \A t \in Sockets \ {s} : js'.sent[t] = js.sent[t]
      BY <1>1, SentTo
<1>3. \A t \in Sockets \ {s} : LeftAlone(t)
      BY <1>2 DEF LeftAlone
<1>4. \A t \in Sockets \ {s} : stored' = stored \/ session[t] \notin {"ack", "chunks"}
      BY <1>1 DEF Bounded
<1> DEFINE S == {s}
<1>5. S \in SUBSET Sockets
      OBVIOUS
<1>6. \A t \in Sockets \ S :
        LeftAlone(t) /\ (stored' = stored \/ session[t] \notin {"ack", "chunks"})
      BY <1>3, <1>4
<1>7. \A t \in S : /\ session[t] = "none" => session'[t] = "none"
                   /\ js.ready[t] = "open" /\ link'[t] = "up" => session'[t] # "none"
                   /\ SentAt(js, t)' /\ WireAt(js, toBrowser, t)' /\ MailAt(js, toBrowser, t)'
      OBVIOUS
<1> HIDE DEF S
<1>8. QED
      BY <1>1, <1>2, <1>5, <1>6, <1>7, ServerKeeps, Zenon

\* What the last message of a session may be.
Closing(m) == /\ m \in ToBrowser /\ m.type \in {"error", "cancelAck", "allDone"}
              /\ m.type = "cancelAck" => upload' = "discarded"
              /\ m.type = "allDone" => accepted'

LEMMA ReturnsKeeps ==
  ASSUME TransferInv, NEW s \in Sockets, session[s] # "none", NEW messages,
         messages = <<>> \/ (\E m : Closing(m) /\ messages = <<m>>),
         Returns(s, messages),
         stored' = stored, accepted' = accepted, upload = "discarded" => upload' = "discarded"
  PROVE  LibraryInv(js, toBrowser)'
<1> DEFINE q == <<>>
<1>1. /\ js \in JsRecord /\ toBrowser \in [Sockets -> Seq(ToBrowser)]
      /\ MailAt(js, toBrowser, s) /\ stored \in Seq(0..Total - 1)
      /\ session \in [Sockets -> {"none", "request", "ack", "chunks", "wait"}]
      /\ link \in [Sockets -> {"up", "lost", "eof"}]
      BY DEF TransferInv, LibraryInv, MailInv, UploadInv, SessionTypes
<1>2. q \in Seq(ToServer) /\ js' = [js EXCEPT !.sent[s] = q]
      BY DEF Returns
<1>3. /\ toBrowser' = Delivered(s, messages)
      /\ session' = [session EXCEPT ![s] = "none"]
      /\ link' = [link EXCEPT ![s] = IF @ = "up" THEN "eof" ELSE @]
      BY DEF Returns
<1>4. UploadGetsOn
      BY <1>1, LenProperties DEF UploadGetsOn
<1>5. /\ toBrowser' \in [Sockets -> Seq(ToBrowser)]
      /\ \A t \in Sockets \ {s} : toBrowser'[t] = toBrowser[t]
      /\ \/ toBrowser'[s] = toBrowser[s]
         \/ /\ js.ready[s] = "open"
            /\ \E m : NewMessage(m, s) /\ toBrowser'[s] = toBrowser[s] \o <<m>>
  <2>1. CASE messages = <<>>
    <3>1. Msg("error") \in ToBrowser
          BY BrowserAssumption DEF Msg, ToBrowser
    <3>2. toBrowser' = toBrowser
          BY <1>1, <1>3, <2>1, <3>1, DeliveredTo
    <3>3. QED
          BY <1>1, <3>2
  <2>2. CASE \E m : Closing(m) /\ messages = <<m>>
    <3>0. PICK m : Closing(m) /\ messages = <<m>>
          BY <2>2
    <3>1. m \in ToBrowser /\ NewMessage(m, s)
          BY <3>0 DEF Closing, NewMessage
    <3>2. /\ toBrowser' \in [Sockets -> Seq(ToBrowser)]
          /\ \A t \in Sockets \ {s} : toBrowser'[t] = toBrowser[t]
          /\ toBrowser'[s] = IF Listens(s) THEN toBrowser[s] \o <<m>> ELSE toBrowser[s]
          BY <1>1, <1>3, <3>0, <3>1, DeliveredTo
    <3>3. QED
          BY <3>1, <3>2 DEF Listens
  <2>3. QED
        BY <2>1, <2>2
<1>6. /\ session'[s] = "none" /\ link'[s] # "up"
      /\ \A t \in Sockets \ {s} : session'[t] = session[t] /\ link'[t] = link[t]
      BY <1>1, <1>3
<1> HIDE DEF q
<1>7. SameLibrary(js, js') /\ js'.sent[s] = q
      BY <1>1, <1>2, SentTo
<1>8. js'.ready = js.ready /\ js'.bytes_acked = js.bytes_acked
      BY <1>7, SameSends
<1>9. MailAt(js, toBrowser, s)'
      BY <1>1, <1>4, <1>5, <1>8, MailAdded
<1>10. SentAt(js, s)' /\ WireAt(js, toBrowser, s)'
       BY <1>6, <1>7 DEF SentAt, WireAt, q
<1>11. QED
       BY <1>2, <1>4, <1>5, <1>6, <1>9, <1>10, SessionKeeps

LEMMA GoesOnEffect ==
  ASSUME TransferInv, NEW s \in Sockets, js.sent[s] # <<>>, NEW messages, NEW next,
         GoesOn(s, messages, next)
  PROVE  /\ js.sent[s] \in Seq(ToServer) /\ Tail(js.sent[s]) \in Seq(ToServer)
         /\ js' = [js EXCEPT !.sent[s] = Tail(js.sent[s])]
         /\ SameLibrary(js, js') /\ js'.sent[s] = Tail(js.sent[s])
         /\ toBrowser' = Delivered(s, messages) /\ link' = link /\ session'[s] = next
         /\ \A t \in Sockets \ {s} : session'[t] = session[t] /\ link'[t] = link[t]
         /\ toBrowser \in [Sockets -> Seq(ToBrowser)] /\ js \in JsRecord
         /\ stored \in Seq(0..Total - 1) /\ Len(stored) \in 0..Total /\ Len(stored) \in Nat
         /\ SentAt(js, s) /\ WireAt(js, toBrowser, s) /\ MailAt(js, toBrowser, s)
<1>1. /\ js \in JsRecord /\ toBrowser \in [Sockets -> Seq(ToBrowser)]
      /\ SentAt(js, s) /\ WireAt(js, toBrowser, s) /\ MailAt(js, toBrowser, s)
      /\ stored \in Seq(0..Total - 1) /\ Len(stored) <= Total
      /\ session \in [Sockets -> {"none", "request", "ack", "chunks", "wait"}]
      BY DEF TransferInv, LibraryInv, SentInv, WireInv, MailInv, UploadInv, SessionTypes
<1>2. Len(stored) \in Nat /\ Len(stored) \in 0..Total
      BY <1>1, LenProperties, BrowserAssumption
<1>3. js.sent[s] \in Seq(ToServer)
      BY <1>1, JsFields
<1> DEFINE q == Tail(js.sent[s])
<1>4. q \in Seq(ToServer)
      BY <1>3, HeadTailProperties
<1>5. /\ js' = [js EXCEPT !.sent[s] = q]
      /\ toBrowser' = Delivered(s, messages) /\ link' = link
      /\ session' = [session EXCEPT ![s] = next]
      BY DEF GoesOn
<1> HIDE DEF q
<1>6. SameLibrary(js, js') /\ js'.sent[s] = q
      BY <1>1, <1>4, <1>5, SentTo
<1>7. QED
      BY <1>1, <1>2, <1>3, <1>4, <1>5, <1>6 DEF q

\* A session that goes on has no message for the browser, or one that is true.
MayTell(messages, s) ==
  \/ messages = <<>>
  \/ \E m : NewMessage(m, s) /\ messages = <<m>>
  \/ ~Listens(s) /\ \E m \in ToBrowser : messages = <<m>>

LEMMA GoesOnKeeps ==
  ASSUME TransferInv, NEW s \in Sockets, js.sent[s] # <<>>, NEW messages, NEW next,
         GoesOn(s, messages, next), next # "none", session[s] # "none",
         MayTell(messages, s), UploadGetsOn, stored' = stored \/ session[s] = "chunks",
         SentAt(js, s)', WireAt(js, toBrowser, s)'
  PROVE  LibraryInv(js, toBrowser)'
<1> DEFINE q == Tail(js.sent[s])
<1>1. /\ q \in Seq(ToServer) /\ js' = [js EXCEPT !.sent[s] = q]
      /\ SameLibrary(js, js')
      /\ toBrowser' = Delivered(s, messages) /\ session'[s] = next
      /\ \A t \in Sockets \ {s} : session'[t] = session[t] /\ link'[t] = link[t]
      /\ toBrowser \in [Sockets -> Seq(ToBrowser)] /\ js \in JsRecord
      /\ stored \in Seq(0..Total - 1) /\ MailAt(js, toBrowser, s)
      BY GoesOnEffect
<1> HIDE DEF q
<1>2. /\ toBrowser' \in [Sockets -> Seq(ToBrowser)]
      /\ \A t \in Sockets \ {s} : toBrowser'[t] = toBrowser[t]
      /\ \/ toBrowser'[s] = toBrowser[s]
         \/ /\ js.ready[s] = "open"
            /\ \E m : NewMessage(m, s) /\ toBrowser'[s] = toBrowser[s] \o <<m>>
  <2>1. CASE messages = <<>>
    <3>1. Msg("error") \in ToBrowser
          BY BrowserAssumption DEF Msg, ToBrowser
    <3>2. toBrowser' = toBrowser
          BY <1>1, <2>1, <3>1, DeliveredTo
    <3>3. QED
          BY <1>1, <3>2
  <2>2. CASE \E m : NewMessage(m, s) /\ messages = <<m>>
    <3>1. PICK m : NewMessage(m, s) /\ messages = <<m>>
          BY <2>2
    <3>2. m \in ToBrowser
          BY <3>1 DEF NewMessage
    <3>3. /\ toBrowser' \in [Sockets -> Seq(ToBrowser)]
          /\ \A t \in Sockets \ {s} : toBrowser'[t] = toBrowser[t]
          /\ toBrowser'[s] = IF Listens(s) THEN toBrowser[s] \o <<m>> ELSE toBrowser[s]
          BY <1>1, <3>1, <3>2, DeliveredTo
    <3>4. QED
          BY <3>1, <3>3 DEF Listens
  <2>3. CASE ~Listens(s) /\ \E m \in ToBrowser : messages = <<m>>
    <3>1. PICK m \in ToBrowser : messages = <<m>>
          BY <2>3
    <3>2. /\ toBrowser' \in [Sockets -> Seq(ToBrowser)]
          /\ \A t \in Sockets \ {s} : toBrowser'[t] = toBrowser[t]
          /\ toBrowser'[s] = IF Listens(s) THEN toBrowser[s] \o <<m>> ELSE toBrowser[s]
          BY <1>1, <3>1, DeliveredTo
    <3>3. QED
          BY <2>3, <3>2
  <2>4. QED
        BY <2>1, <2>2, <2>3 DEF MayTell
<1>3. js'.ready = js.ready /\ js'.bytes_acked = js.bytes_acked
      BY <1>1, SameSends
<1>4. MailAt(js, toBrowser, s)'
      BY <1>1, <1>2, <1>3, MailAdded
<1>5. QED
      BY <1>1, <1>2, <1>4, SessionKeeps

LEMMA ReadsRequestKeeps ==
  ASSUME TransferInv, NEW s \in Sockets, ReadsRequest(s)
  PROVE  LibraryInv(js, toBrowser)'
<1> DEFINE n == Len(stored)
           m == Conf(n)
           q == js.sent[s]
<1>1. session[s] = "request" /\ q # <<>> /\ UNCHANGED <<upload, stored, accepted>>
      BY DEF ReadsRequest, Reads, uploadVars
<1>2. CASE Returns(s, <<Msg("error")>>)
  <2>1. Closing(Msg("error"))
        BY BrowserAssumption DEF Closing, Msg, ToBrowser
  <2>2. QED
        BY <1>1, <1>2, <2>1, ReturnsKeeps
<1>3. CASE GoesOn(s, <<m>>, "ack")
  <2>1. /\ q \in Seq(ToServer) /\ Tail(q) \in Seq(ToServer)
        /\ SameLibrary(js, js') /\ js'.sent[s] = Tail(q)
        /\ toBrowser' = Delivered(s, <<m>>) /\ link' = link /\ session'[s] = "ack"
        /\ toBrowser \in [Sockets -> Seq(ToBrowser)] /\ stored \in Seq(0..Total - 1)
        /\ n \in 0..Total /\ n \in Nat /\ SentAt(js, s) /\ WireAt(js, toBrowser, s)
        BY <1>1, <1>3, GoesOnEffect
  <2>2. m \in ToBrowser /\ m.type = "conf" /\ m.pos = n
        BY <2>1 DEF Conf, ToBrowser
  <2>3. NewMessage(m, s) /\ UploadGetsOn
        BY <1>1, <2>1, <2>2 DEF NewMessage, UploadGetsOn
  <2>4. NoneOf(q, {"ack", "chunk"})
        BY <1>1, <2>1 DEF SentAt
  <2> HIDE DEF q, m, n
  <2>5. /\ NoneOf(Tail(q), {"ack", "chunk"}) /\ Len(Tail(q)) = Len(q) - 1
        /\ Len(q) \in Nat \ {0}
        BY <1>1, <2>1, <2>4, MessagesRead
  <2>6. Run(Tail(q), 1, n)
    <3>1. \A i \in 1 + 1..Len(Tail(q)) : i \in 1..Len(Tail(q))
          BY <2>5
    <3>2. QED
          BY <2>5, <3>1 DEF Run, NoneOf
  <2>7. SentAt(js, s)'
        BY <1>1, <2>1, <2>6 DEF SentAt, n
  <2>8. WireAt(js, toBrowser, s)'
    <3> SUFFICES ASSUME Listens(s)
                 PROVE  Resumes(js, toBrowser, s)'
        BY <2>1, SameSends DEF WireAt, Listens
    <3>1. Handler(js, s) = "conf" /\ toBrowser[s] = <<>> /\ (Sends(js) => Len(q) <= 1)
          BY <1>1, <2>1 DEF WireAt, Listens, q
    <3>2. toBrowser'[s] = <<m>>
      <4>1. toBrowser'[s] = toBrowser[s] \o <<m>>
            BY <2>1, <2>2, DeliveredTo
      <4>2. <<m>> \in Seq(ToBrowser)
            BY <2>2
      <4>3. <<>> \o <<m>> = <<m>>
            BY <4>2, ConcatEmptySeq
      <4>4. QED
            BY <3>1, <4>1, <4>3
    <3>3. Sends(js) => Tail(q) = <<>>
          BY <2>1, <2>5, <3>1, EmptySeq
    <3>4. Handler(js', s) = Handler(js, s) /\ (Sends(js') <=> Sends(js))
          BY <2>1, SameSends
    <3>5. QED
          BY <1>1, <2>1, <2>5, <3>1, <3>2, <3>3, <3>4 DEF Resumes, m, n
  <2>9. /\ js.sent[s] # <<>> /\ "ack" # "none" /\ session[s] # "none" /\ stored' = stored
        /\ MayTell(<<m>>, s)
        BY <1>1, <2>3 DEF q, MayTell
  <2>10. QED
         BY <1>3, <2>3, <2>7, <2>8, <2>9, GoesOnKeeps, Zenon
<1>4. QED
      BY <1>2, <1>3 DEF ReadsRequest

LEMMA ReadsAckKeeps ==
  ASSUME TransferInv, NEW s \in Sockets, ReadsAck(s)
  PROVE  LibraryInv(js, toBrowser)'
<1> DEFINE n == Len(stored)
           q == js.sent[s]
           none == <<>>
<1>1. /\ session[s] = "ack" /\ q # <<>> /\ UNCHANGED <<upload, stored, accepted>>
      /\ Head(q).type = "ack" /\ GoesOn(s, none, "chunks")
      BY DEF ReadsAck, Reads, Received, uploadVars
<1>2. /\ q \in Seq(ToServer) /\ Tail(q) \in Seq(ToServer)
      /\ SameLibrary(js, js') /\ js'.sent[s] = Tail(q)
      /\ toBrowser' = Delivered(s, none) /\ link' = link /\ session'[s] = "chunks"
      /\ toBrowser \in [Sockets -> Seq(ToBrowser)] /\ stored \in Seq(0..Total - 1)
      /\ n \in Nat /\ SentAt(js, s) /\ WireAt(js, toBrowser, s)
      BY <1>1, GoesOnEffect
<1>3. UploadGetsOn
      BY <1>1, <1>2 DEF UploadGetsOn
<1>4. Run(q, 1, n)
      BY <1>1, <1>2 DEF SentAt
<1> HIDE DEF q, n
<1>5. /\ Run(Tail(q), 0, n) /\ Len(Tail(q)) = Len(q) - 1 /\ Len(q) \in Nat \ {0}
      /\ Head(q) = q[1] /\ (OnlyChunks(q, 1) => OnlyChunks(Tail(q), 0))
      BY <1>1, <1>2, <1>4, MessagesRead
<1>6. SentAt(js, s)'
      BY <1>1, <1>2, <1>5 DEF SentAt, n
<1>7. toBrowser' = toBrowser
  <2>1. Msg("error") \in ToBrowser
        BY BrowserAssumption DEF Msg, ToBrowser
  <2>2. QED
        BY <1>2, <2>1, DeliveredTo
<1>8. WireAt(js, toBrowser, s)'
  <2> SUFFICES ASSUME Listens(s)
               PROVE  Flows(js, toBrowser, s, 0)'
      BY <1>2, SameSends DEF WireAt, Listens
  <2>1. ~Resumes(js, toBrowser, s)
        BY <1>1, <1>5 DEF Resumes, NoneOf, q
  <2>2. Flows(js, toBrowser, s, 1)
        BY <1>1, <1>2, <2>1 DEF WireAt, Listens
  <2>3. /\ Handler(js', s) = Handler(js, s) /\ (Sends(js') <=> Sends(js))
        /\ js'.bytes_acked = js.bytes_acked /\ js'.bytes_tx = js.bytes_tx
        BY <1>2, SameSends
  <2>4. Sends(js) => /\ 0 <= Len(Tail(q)) /\ OnlyChunks(Tail(q), 0)
                     /\ js.bytes_tx = Len(stored) + Len(Tail(q)) - 0
        BY <1>2, <1>5, <2>2 DEF Flows, q, n
  <2>5. QED
        BY <1>1, <1>2, <1>7, <2>2, <2>3, <2>4 DEF Flows
<1>9. /\ js.sent[s] # <<>> /\ "chunks" # "none" /\ session[s] # "none" /\ stored' = stored
      /\ MayTell(none, s)
      BY <1>1 DEF q, MayTell
<1>10. QED
       BY <1>1, <1>3, <1>6, <1>8, <1>9, GoesOnKeeps, Zenon

LEMMA ReadsOnKeeps ==
  ASSUME TransferInv, NEW s \in Sockets, ReadsOn(s)
  PROVE  LibraryInv(js, toBrowser)'
<1> DEFINE n == Len(stored)
           q == js.sent[s]
           none == <<>>
<1>1. /\ session[s] \in {"chunks", "wait"} /\ q # <<>> /\ UNCHANGED <<upload, stored, accepted>>
      /\ session[s] = "chunks" => Head(q).type = "pause"
      /\ GoesOn(s, none, session[s])
      BY DEF ReadsOn, ReadsInLoop, InLoop, Reads, Received, uploadVars
<1>2. /\ q \in Seq(ToServer) /\ Tail(q) \in Seq(ToServer)
      /\ SameLibrary(js, js') /\ js'.sent[s] = Tail(q)
      /\ toBrowser' = Delivered(s, none) /\ link' = link /\ session'[s] = session[s]
      /\ toBrowser \in [Sockets -> Seq(ToBrowser)] /\ stored \in Seq(0..Total - 1)
      /\ n \in Nat /\ SentAt(js, s) /\ WireAt(js, toBrowser, s)
      BY <1>1, GoesOnEffect
<1>3. UploadGetsOn
      BY <1>1, <1>2 DEF UploadGetsOn
<1>4. session[s] = "chunks" => Run(q, 0, n)
      BY <1>1, <1>2 DEF SentAt
<1> HIDE DEF q, n
<1>5. /\ session[s] = "chunks" => Run(Tail(q), 0, n)
      /\ Len(q) \in Nat \ {0} /\ Head(q) = q[1]
      BY <1>1, <1>2, <1>4, MessagesRead
<1>6. SentAt(js, s)'
      BY <1>1, <1>2, <1>5 DEF SentAt, n
<1>7. toBrowser' = toBrowser
  <2>1. Msg("error") \in ToBrowser
        BY BrowserAssumption DEF Msg, ToBrowser
  <2>2. QED
        BY <1>2, <2>1, DeliveredTo
<1>8. WireAt(js, toBrowser, s)'
  <2> SUFFICES ASSUME Listens(s), session[s] = "chunks"
               PROVE  Flows(js, toBrowser, s, 0)'
      BY <1>1, <1>2, SameSends DEF WireAt, Listens
  <2>1. Flows(js, toBrowser, s, 0)
        BY <1>2 DEF WireAt, Listens
  <2>2. ~OnlyChunks(q, 0)
        BY <1>1, <1>5 DEF OnlyChunks
  <2>3. ~Sends(js)
        BY <2>1, <2>2 DEF Flows, q
  <2>4. /\ Handler(js', s) = Handler(js, s) /\ (Sends(js') <=> Sends(js))
        /\ js'.bytes_acked = js.bytes_acked
        BY <1>2, SameSends
  <2>5. QED
        BY <1>1, <1>7, <2>1, <2>3, <2>4 DEF Flows
<1>9. /\ js.sent[s] # <<>> /\ session[s] # "none" /\ stored' = stored
      /\ MayTell(none, s)
      BY <1>1 DEF q, MayTell
<1>10. QED
       BY <1>1, <1>3, <1>6, <1>8, <1>9, GoesOnKeeps, Zenon

LEMMA StoresChunkKeeps ==
  ASSUME TransferInv, NEW s \in Sockets, StoresChunk(s)
  PROVE  /\ LibraryInv(js, toBrowser)'
         /\ Received(s).pos = Len(stored)
         /\ stored' \in Seq(0..Total - 1) /\ Len(stored') = Len(stored) + 1 /\ Len(stored) < Total
<1> DEFINE n == Len(stored)
           q == js.sent[s]
           m == Msg("chunkAck")
<1>1. /\ session[s] = "chunks" /\ q # <<>> /\ n # Total /\ Head(q).type = "chunk"
      /\ stored' = Append(stored, Head(q).pos) /\ UNCHANGED <<upload, accepted>>
      /\ GoesOn(s, <<m>>, "chunks") /\ Received(s) = Head(q)
      BY DEF StoresChunk, ReadsInLoop, InLoop, Reads, Received, AllStored
<1>2. /\ q \in Seq(ToServer) /\ Tail(q) \in Seq(ToServer)
      /\ SameLibrary(js, js') /\ js'.sent[s] = Tail(q)
      /\ toBrowser' = Delivered(s, <<m>>) /\ link' = link /\ session'[s] = "chunks"
      /\ toBrowser \in [Sockets -> Seq(ToBrowser)] /\ stored \in Seq(0..Total - 1)
      /\ n \in 0..Total /\ n \in Nat /\ SentAt(js, s) /\ WireAt(js, toBrowser, s)
      BY <1>1, GoesOnEffect
<1>3. Run(q, 0, n)
      BY <1>1, <1>2 DEF SentAt
<1>4. m \in ToBrowser /\ m.type = "chunkAck"
      BY BrowserAssumption DEF Msg, ToBrowser
<1> HIDE DEF q, n, m
<1>5. /\ Head(q).pos = n /\ Run(Tail(q), 0, n + 1)
      /\ Len(Tail(q)) = Len(q) - 1 /\ Len(q) \in Nat \ {0}
      /\ (OnlyChunks(q, 0) => OnlyChunks(Tail(q), 0))
      BY <1>1, <1>2, <1>3, MessagesRead
<1>6. n < Total /\ n \in 0..Total - 1
      BY <1>1, <1>2, BrowserAssumption
<1>7. stored' \in Seq(0..Total - 1) /\ Len(stored') = n + 1
      BY <1>1, <1>2, <1>5, <1>6, AppendProperties DEF n
<1>8. UploadGetsOn
      BY <1>1, <1>2, <1>7 DEF UploadGetsOn, n
<1>9. SentAt(js, s)'
      BY <1>2, <1>5, <1>7 DEF SentAt
<1>10. Listens(s) => Flows(js, toBrowser, s, 0)
       BY <1>1, <1>2 DEF WireAt, Listens
<1>11. Listens(s) => NewMessage(m, s)
  <2> SUFFICES ASSUME Listens(s) PROVE NewMessage(m, s)
      OBVIOUS
  <2>1. NoneOf(toBrowser[s], {"conf"}) /\ js.bytes_acked + Len(toBrowser[s]) <= n
        BY <1>10 DEF Flows, n
  <2>2. js.bytes_acked \in Nat /\ Len(toBrowser[s]) \in Nat
        BY <1>2, JsFields, LenProperties DEF TransferInv, LibraryInv
  <2>3. js.bytes_acked + Len(toBrowser[s]) + 1 <= Len(stored')
        BY <1>2, <1>7, <2>1, <2>2
  <2>4. QED
        BY <1>4, <2>1, <2>3 DEF NewMessage
<1>12. WireAt(js, toBrowser, s)'
  <2> SUFFICES ASSUME Listens(s)
               PROVE  Flows(js, toBrowser, s, 0)'
      BY <1>2, SameSends DEF WireAt, Listens
  <2> DEFINE r == toBrowser[s]
             b == js.bytes_acked
  <2>1. /\ Handler(js, s) \in {"acks", "final"} /\ NoneOf(r, {"conf"})
        /\ b + Len(r) <= n
        /\ Sends(js) => OnlyChunks(q, 0) /\ js.bytes_tx = n + Len(q) - 0
        BY <1>10 DEF Flows, n, q
  <2>2. /\ Handler(js', s) = Handler(js, s) /\ (Sends(js') <=> Sends(js))
        /\ js'.bytes_acked = b /\ js'.bytes_tx = js.bytes_tx
        BY <1>2, SameSends
  <2>3. toBrowser'[s] = r \o <<m>>
        BY <1>2, <1>4, DeliveredTo
  <2>4. r \in Seq(ToBrowser) /\ <<m>> \in Seq(ToBrowser) /\ Len(<<m>>) = 1 /\ <<m>>[1] = m
        BY <1>2, <1>4
  <2>5. b \in Nat /\ Len(r) \in Nat
        BY <2>4, JsFields, LenProperties DEF TransferInv, LibraryInv
  <2>6. Len(r \o <<m>>) = Len(r) + 1 /\ NoneOf(r \o <<m>>, {"conf"})
    <3> HIDE DEF r
    <3>1. /\ Len(r \o <<m>>) = Len(r) + Len(<<m>>)
          /\ \A i \in 1..Len(r) + Len(<<m>>) :
               (r \o <<m>>)[i] = IF i <= Len(r) THEN r[i] ELSE <<m>>[i - Len(r)]
          BY <2>4, ConcatProperties
    <3>2. ASSUME NEW i \in 1..Len(r) + 1
          PROVE  (r \o <<m>>)[i].type # "conf"
      <4>1. CASE i <= Len(r)
        <5>1. i \in 1..Len(r) /\ (r \o <<m>>)[i] = r[i]
              BY <2>4, <2>5, <3>1, <4>1
        <5>2. QED
              BY <2>1, <5>1 DEF NoneOf
      <4>2. CASE ~(i <= Len(r))
        <5>1. i - Len(r) = 1 /\ (r \o <<m>>)[i] = <<m>>[i - Len(r)]
              BY <2>4, <2>5, <3>1, <4>2
        <5>2. (r \o <<m>>)[i] = m
              BY <2>4, <5>1
        <5>3. QED
              BY <1>4, <5>2
      <4>3. QED
            BY <4>1, <4>2
    <3>3. QED
          BY <2>4, <3>1, <3>2 DEF NoneOf
  <2>7. b + Len(toBrowser'[s]) <= Len(stored')
        BY <1>2, <1>7, <2>1, <2>3, <2>5, <2>6
  <2>8. Sends(js) => /\ 0 <= Len(Tail(q)) /\ OnlyChunks(Tail(q), 0)
                     /\ js.bytes_tx = Len(stored') + Len(Tail(q)) - 0
        BY <1>2, <1>5, <1>7, <2>1
  <2>9. QED
        BY <1>2, <2>1, <2>2, <2>3, <2>6, <2>7, <2>8 DEF Flows
<1>13. LibraryInv(js, toBrowser)'
  <2>1. MayTell(<<m>>, s)
        BY <1>4, <1>11 DEF MayTell
  <2>2. js.sent[s] # <<>> /\ "chunks" # "none" /\ session[s] # "none"
        BY <1>1 DEF q
  <2>3. QED
        BY <1>1, <1>8, <1>9, <1>12, <2>1, <2>2, GoesOnKeeps, Zenon
<1>14. QED
       BY <1>1, <1>5, <1>6, <1>7, <1>13 DEF n

LEMMA ReturnsAreKept ==
  ASSUME TransferInv, NEW s \in Sockets,
         ReadsNoAck(s) \/ RefusesChunk(s) \/ ReadsCancel(s) \/ Tells(s) \/ ReadFails(s)
  PROVE  LibraryInv(js, toBrowser)'
<1> DEFINE none == <<>>
<1>1. /\ upload = "finished" => accepted
      /\ upload \in {"handing", "finished", "failed", "gone"} => Len(stored) = Total
      /\ upload \in {"receiving", "discarded", "handing", "finished", "failed", "gone"}
      BY DEF TransferInv, UploadInv, SessionTypes
<1>2. Closing(Msg("error"))
      BY BrowserAssumption DEF Closing, Msg, ToBrowser
<1>3. CASE ReadsNoAck(s)
  <2>1. /\ session[s] # "none" /\ Returns(s, <<Msg("error")>>)
        /\ stored' = stored /\ accepted' = accepted /\ upload' = upload
        BY <1>3 DEF ReadsNoAck, NotAcked, OutOfPlace, ReadsInLoop, InLoop, Reads, uploadVars
  <2>2. QED
        BY <1>2, <2>1, ReturnsKeeps
<1>4. CASE RefusesChunk(s)
  <2>1. /\ session[s] # "none" /\ Returns(s, <<Msg("error")>>)
        /\ stored' = stored /\ accepted' = accepted
        /\ upload = "discarded" => upload' = "discarded"
        BY <1>4 DEF RefusesChunk, ReadsInLoop, InLoop, Discard
  <2>2. QED
        BY <1>2, <2>1, ReturnsKeeps
<1>5. CASE ReadsCancel(s)
  <2>1. /\ session[s] # "none" /\ Returns(s, <<Msg("cancelAck")>>)
        /\ stored' = stored /\ accepted' = accepted
        /\ Len(stored) # Total
        /\ upload' = IF upload = "receiving" THEN "discarded" ELSE upload
        BY <1>5 DEF ReadsCancel, ReadsInLoop, InLoop, Discard, AllStored
  <2>2. upload' = "discarded"
        BY <1>1, <2>1
  <2>3. Closing(Msg("cancelAck"))
        BY <2>2, BrowserAssumption DEF Closing, Msg, ToBrowser
  <2>4. QED
        BY <2>1, <2>2, <2>3, ReturnsKeeps
<1>6. CASE Tells(s)
  <2>1. /\ session[s] # "none" /\ Returns(s, <<FinalMessage>>)
        /\ stored' = stored /\ accepted' = accepted /\ upload # "discarded"
        BY <1>6 DEF Tells
  <2>2. Closing(FinalMessage)
        BY <1>1, <2>1, BrowserAssumption DEF FinalMessage, Closing, Msg, ToBrowser
  <2>3. QED
        BY <2>1, <2>2, ReturnsKeeps
<1>7. CASE ReadFails(s)
  <2>1. /\ session[s] # "none"
        /\ Returns(s, none) \/ Returns(s, <<Msg("error")>>)
        /\ stored' = stored /\ accepted' = accepted /\ upload' = upload
        BY <1>7 DEF ReadFails, InLoop, uploadVars
  <2>2. QED
        BY <1>2, <2>1, ReturnsKeeps
<1>8. QED
      BY <1>3, <1>4, <1>5, <1>6, <1>7

\* What a step may do that leaves what the library knows and has sent.
LEMMA UploadKeeps ==
  ASSUME TransferInv, UploadGetsOn, stored' = stored,
         js' = js, toBrowser' = toBrowser, link' = link,
         \A s \in Sockets : session'[s] = session[s] \/ (session[s] = "chunks" /\ session'[s] = "wait")
  PROVE  LibraryInv(js, toBrowser)'
<1> DEFINE S == {s \in Sockets : session'[s] # session[s]}
<1>1. /\ LibraryInv(js, toBrowser) /\ stored \in Seq(0..Total - 1)
      /\ js \in JsRecord /\ toBrowser \in [Sockets -> Seq(ToBrowser)] /\ MailInv(js, toBrowser)
      BY DEF TransferInv, UploadInv, LibraryInv
<1>2. js' \in JsRecord /\ toBrowser' \in [Sockets -> Seq(ToBrowser)] /\ SameLibrary(js, js')
      BY <1>1 DEF SameLibrary, SameSockets, SameHandlers, SamePlace, SameFlags
<1>3. \A s \in Sockets \ S :
        LeftAlone(s) /\ (stored' = stored \/ session[s] \notin {"ack", "chunks"})
      BY DEF LeftAlone
<1>4. ASSUME NEW s \in S
      PROVE  /\ session[s] = "none" => session'[s] = "none"
             /\ js.ready[s] = "open" /\ link'[s] = "up" => session'[s] # "none"
             /\ SentAt(js, s)' /\ WireAt(js, toBrowser, s)' /\ MailAt(js, toBrowser, s)'
  <2>1. session[s] = "chunks" /\ session'[s] = "wait" /\ s \in Sockets
        OBVIOUS
  <2>2. MailAt(js, toBrowser, s)'
        BY <1>1, <2>1, MailAdded DEF MailInv
  <2>3. QED
        BY <2>1, <2>2 DEF SentAt, WireAt
<1>5. S \in SUBSET Sockets
      OBVIOUS
<1> HIDE DEF S
<1>6. QED
      BY <1>1, <1>2, <1>3, <1>4, <1>5, ServerKeeps, Zenon

LEMMA HandsOverKeeps ==
  ASSUME TransferInv, NEW s \in Sockets, HandsOver(s)
  PROVE  LibraryInv(js, toBrowser)'
<1>1. UploadGetsOn
      BY LenProperties DEF TransferInv, UploadInv, HandsOver, UploadGetsOn
<1>2. \A t \in Sockets : session'[t] = session[t] \/ (session[t] = "chunks" /\ session'[t] = "wait")
      BY DEF TransferInv, SessionTypes, HandsOver
<1>3. QED
      BY <1>1, <1>2, UploadKeeps DEF HandsOver

LEMMA UploadStepsKeep ==
  ASSUME TransferInv, HandoverEnds \/ UploadExpires
  PROVE  LibraryInv(js, toBrowser)'
<1>1. /\ js' = js /\ toBrowser' = toBrowser /\ link' = link /\ session' = session
      /\ stored' = stored
      BY DEF HandoverEnds, UploadExpires, connVars
<1>2. UploadGetsOn
      BY LenProperties DEF TransferInv, UploadInv, SessionTypes, HandoverEnds, UploadExpires, UploadGetsOn
<1>3. QED
      BY <1>1, <1>2, UploadKeeps

LEMMA RestartKeeps ==
  ASSUME TransferInv, ServerRestarts
  PROVE  LibraryInv(js, toBrowser)'
<1> DEFINE none == [s \in Sockets |-> <<>>]
<1>1. /\ LibraryInv(js, toBrowser) /\ stored \in Seq(0..Total - 1)
      /\ js \in JsRecord /\ toBrowser \in [Sockets -> Seq(ToBrowser)] /\ MailInv(js, toBrowser)
      /\ upload = "discarded" => ~accepted
      BY DEF TransferInv, UploadInv, LibraryInv
<1>2. /\ js' = [js EXCEPT !.sent = none]
      /\ session' = [s \in Sockets |-> "none"]
      /\ link' = [s \in Sockets |-> IF session[s] = "none" THEN link[s] ELSE "lost"]
      /\ toBrowser' = [s \in Sockets |-> IF session[s] = "none" THEN toBrowser[s] ELSE <<>>]
      /\ upload' = IF accepted THEN "gone" ELSE "discarded"
      /\ stored' = stored /\ accepted' = accepted
      BY DEF ServerRestarts
<1>3. none \in [Sockets -> Seq(ToServer)] /\ \A s \in Sockets : none[s] = <<>>
      OBVIOUS
<1>4. toBrowser' \in [Sockets -> Seq(ToBrowser)]
      BY <1>1, <1>2
<1>5. UploadGetsOn
      BY <1>1, <1>2, LenProperties DEF UploadGetsOn
<1> HIDE DEF none
<1>6. js' \in JsRecord /\ SameLibrary(js, js') /\ js'.sent = none
  <2>1. js' \in JsRecord
        BY <1>1, <1>2, <1>3 DEF JsRecord
  <2>2. js'.sent = none
        BY <1>1, <1>2 DEF JsRecord
  <2>3. SameLibrary(js, js')
        BY <1>1, <1>2 DEF JsRecord, SameLibrary, SameSockets, SameHandlers, SamePlace, SameFlags
  <2>4. QED
        BY <2>1, <2>2, <2>3
<1>7. js'.ready = js.ready /\ js'.bytes_acked = js.bytes_acked
      BY <1>6, SameSends
<1>8. ASSUME NEW s \in Sockets
      PROVE  /\ session[s] = "none" => session'[s] = "none"
             /\ js.ready[s] = "open" /\ link'[s] = "up" => session'[s] # "none"
             /\ SentAt(js, s)' /\ WireAt(js, toBrowser, s)' /\ MailAt(js, toBrowser, s)'
  <2>1. session'[s] = "none"
        BY <1>2
  <2>2. ~(js.ready[s] = "open" /\ link'[s] = "up")
        BY <1>1, <1>2 DEF LibraryInv, SocketInv
  <2>3. SentAt(js, s)'
        BY <1>3, <1>6, <2>1 DEF SentAt
  <2>4. WireAt(js, toBrowser, s)'
        BY <2>1 DEF WireAt
  <2>5. MailAt(js, toBrowser, s)'
    <3>1. CASE session[s] = "none"
      <4>1. toBrowser'[s] = toBrowser[s] /\ MailAt(js, toBrowser, s)
            BY <1>1, <1>2, <3>1 DEF MailInv
      <4>2. QED
            BY <1>1, <1>5, <1>7, <4>1, MailAdded
    <3>2. CASE session[s] # "none"
      <4>1. toBrowser'[s] = <<>> /\ Len(toBrowser'[s]) = 0
            BY <1>2, <3>2
      <4>2. QED
            BY <4>1 DEF MailAt
    <3>3. QED
          BY <3>1, <3>2
  <2>6. QED
        BY <2>1, <2>2, <2>3, <2>4, <2>5
<1> DEFINE S == Sockets
<1>9. /\ S \in SUBSET Sockets
      /\ \A s \in Sockets \ S :
           LeftAlone(s) /\ (stored' = stored \/ session[s] \notin {"ack", "chunks"})
      /\ \A s \in S : /\ session[s] = "none" => session'[s] = "none"
                      /\ js.ready[s] = "open" /\ link'[s] = "up" => session'[s] # "none"
                      /\ SentAt(js, s)' /\ WireAt(js, toBrowser, s)' /\ MailAt(js, toBrowser, s)'
      BY <1>8
<1> HIDE DEF S
<1>10. QED
       BY <1>1, <1>4, <1>5, <1>6, <1>9, ServerKeeps, Zenon

LEMMA LossKeeps ==
  ASSUME TransferInv, NEW s \in Sockets, ConnectionLost(s)
  PROVE  LibraryInv(js, toBrowser)'
<1>1. /\ LibraryInv(js, toBrowser) /\ stored \in Seq(0..Total - 1)
      /\ js \in JsRecord /\ toBrowser \in [Sockets -> Seq(ToBrowser)] /\ SentInv(js)
      /\ link \in [Sockets -> {"up", "lost", "eof"}]
      BY DEF TransferInv, UploadInv, LibraryInv, SessionTypes
<1>2. PICK n \in 0..Len(js.sent[s]) : js' = [js EXCEPT !.sent[s] = SubSeq(js.sent[s], 1, n)]
      BY DEF ConnectionLost
<1>3. /\ link' = [link EXCEPT ![s] = "lost"] /\ toBrowser' = [toBrowser EXCEPT ![s] = <<>>]
      /\ session' = session /\ UNCHANGED <<upload, stored, accepted>>
      BY DEF ConnectionLost, uploadVars
<1> DEFINE p == js.sent[s]
           q == SubSeq(p, 1, n)
<1>4. p \in Seq(ToServer) /\ n \in 0..Len(p) /\ Len(stored) \in Nat
      BY <1>1, JsFields, LenProperties
<1>5. js' = [js EXCEPT !.sent[s] = q] /\ SentAt(js, s)
      BY <1>1, <1>2 DEF SentInv
<1>6. UploadGetsOn
      BY <1>1, <1>3, LenProperties DEF UploadGetsOn
<1>7. /\ toBrowser' \in [Sockets -> Seq(ToBrowser)] /\ toBrowser'[s] = <<>> /\ link'[s] = "lost"
      /\ \A t \in Sockets \ {s} : /\ toBrowser'[t] = toBrowser[t]
                                  /\ session'[t] = session[t] /\ link'[t] = link[t]
      BY <1>1, <1>3
<1>8. /\ session[s] = "none" => p = <<>>
      /\ session[s] = "request" => NoneOf(p, {"ack", "chunk"})
      /\ session[s] = "ack" => Run(p, 1, Len(stored))
      /\ session[s] = "chunks" => Run(p, 0, Len(stored))
      BY <1>5 DEF SentAt
<1>9. /\ q \in Seq(ToServer)
      /\ p = <<>> => q = <<>>
      /\ NoneOf(p, {"ack", "chunk"}) => NoneOf(q, {"ack", "chunk"})
      /\ \A d \in {0, 1} : Run(p, d, Len(stored)) => Run(q, d, Len(stored))
  <2> HIDE DEF p
  <2>1. QED
        BY <1>4, MessagesLost
<1> HIDE DEF p, q
<1>10. js'.sent[s] = q
       BY <1>1, <1>5, <1>9, SentTo
<1>11. SentAt(js, s)'
       BY <1>3, <1>8, <1>9, <1>10 DEF SentAt
<1>12. WireAt(js, toBrowser, s)'
       BY <1>7 DEF WireAt
<1>13. MailAt(js, toBrowser, s)'
  <2>1. Len(toBrowser'[s]) = 0
        BY <1>7
  <2>2. QED
        BY <1>7, <2>1 DEF MailAt
<1>14. QED
       BY <1>3, <1>5, <1>6, <1>7, <1>9, <1>11, <1>12, <1>13, SessionKeeps, Zenon

LEMMA SessionStepKeeps ==
  ASSUME TransferInv, NEW s \in Sockets, Session(s)
  PROVE  LibraryInv(js, toBrowser)'
BY ReadsRequestKeeps, ReadsAckKeeps, StoresChunkKeeps, ReadsOnKeeps, ReturnsAreKept, HandsOverKeeps
   DEF Session

-----------------------------------------------------------------------------
(* Every step keeps the invariant.                                           *)

\* No premise of the theorems is needed but these two.
Patient == LoadsAreShort /\ "hurry" \notin UserActs

\* What is finished stays finished.
NoReturn == js.finished => js'.finished

LEMMA StartStep ==
  ASSUME TransferInv, Patient, NEW j, j = [js EXCEPT !.conn_retry = FALSE], js.ws = NoSocket,
         ~js.finished, ~js.cancelled, NEW s \in Sockets, StartsOn(j, s)
  PROVE  LibraryInv(js, toBrowser)' /\ NoReturn
<1>1. LibraryInv(js, toBrowser) /\ SessionTypes /\ js \in JsRecord
      BY DEF TransferInv, LibraryInv
<1>2. j \in JsRecord
      BY <1>1 DEF JsRecord
<1>3. LibraryInv(js, toBrowser)' /\ js'.finished = js.finished
      BY <1>1, <1>2, StartKeeps DEF Patient
<1>4. QED
      BY <1>3 DEF NoReturn

LEMMA BrowserStep ==
  ASSUME TransferInv, Patient, Browser
  PROVE  LibraryInv(js, toBrowser)' /\ NoReturn
<1>1. /\ LibraryInv(js, toBrowser) /\ SessionTypes /\ js \in JsRecord
      /\ stored \in Seq(0..Total - 1) /\ Len(stored) <= Total
      /\ js.orphans = 0 /\ (js.conn_retry => js.ws = NoSocket /\ ~js.finished /\ ~js.cancelled)
      BY DEF TransferInv, LibraryInv, SocketInv, UploadInv
<1>2. ASSUME NEW k, NEW tb, LibraryInv(k, tb), Onward(js, k), js' = k, toBrowser' = tb, SameServer
      PROVE  LibraryInv(js, toBrowser)' /\ NoReturn
  <2>1. LibraryInv(js, toBrowser)'
        BY <1>2, BrowserKeeps
  <2>2. QED
        BY <1>2, <2>1 DEF NoReturn, Onward
<1>3. CASE RetryFires
  <2>1. PICK j \in OneTimerLess, s \in Sockets : StartsOn(j, s)
        BY <1>3 DEF RetryFires
  <2>2. j = [js EXCEPT !.conn_retry = FALSE] /\ js.conn_retry
        BY <1>1, <2>1 DEF OneTimerLess
  <2>3. QED
        BY <1>1, <2>1, <2>2, StartStep
<1>4. CASE UserUnpauses
  <2>1. PICK s \in Sockets : StartsOn([js EXCEPT !.conn_retry = FALSE], s)
        BY <1>4 DEF UserUnpauses
  <2>2. js.ws = NoSocket /\ ~js.finished /\ ~js.cancelled
        BY <1>4 DEF UserUnpauses, MayPause, Patient
  <2>3. QED
        BY <2>1, <2>2, StartStep
<1>5. CASE UserCancels
  <2>1. LibraryInv(Cancel(js), toBrowser) /\ Onward(js, Cancel(js))
        BY <1>1, CancelKeeps
  <2>2. js' = Cancel(js) /\ toBrowser' = toBrowser /\ SameServer
        BY <1>5 DEF UserCancels, connVars, uploadVars, SameServer
  <2>3. QED
        BY <1>2, <2>1, <2>2
<1>6. CASE UserPauses
  <2>1. LibraryInv(Pause(js), toBrowser) /\ Onward(js, Pause(js))
        BY <1>1, PauseKeeps
  <2>2. js' = Pause(js) /\ toBrowser' = toBrowser /\ SameServer
        BY <1>6 DEF UserPauses, connVars, uploadVars, SameServer
  <2>3. QED
        BY <1>2, <2>1, <2>2
<1>7. CASE ChunkLoaded
  <2>1. LibraryInv(OnLoad(js), toBrowser) /\ Onward(js, OnLoad(js))
        BY <1>1, <1>7, OnLoadKeeps DEF ChunkLoaded
  <2>2. js' = OnLoad(js) /\ toBrowser' = toBrowser /\ SameServer
        BY <1>7 DEF ChunkLoaded, connVars, uploadVars, SameServer
  <2>3. QED
        BY <1>2, <2>1, <2>2
<1>8. CASE ChunkLoadFails
  <2>1. LibraryInv(OnLoadError(js), toBrowser) /\ Onward(js, OnLoadError(js))
        BY <1>1, OnLoadErrorKeeps
  <2>2. js' = OnLoadError(js) /\ toBrowser' = toBrowser /\ SameServer
        BY <1>8 DEF ChunkLoadFails, connVars, uploadVars, SameServer
  <2>3. QED
        BY <1>2, <2>1, <2>2
<1>9. ASSUME NEW s \in Sockets, SocketOpens(s)
      PROVE  LibraryInv(js, toBrowser)' /\ NoReturn
      BY <1>1, <1>9, OpenKeeps DEF NoReturn, Onward
<1>10. ASSUME NEW s \in Sockets, SocketCloses(s)
       PROVE  LibraryInv(js, toBrowser)' /\ NoReturn
       BY <1>1, <1>10, SocketClosesKeeps DEF NoReturn, Onward
<1>11. ASSUME NEW s \in Sockets, MessageArrives(s)
       PROVE  LibraryInv(js, toBrowser)' /\ NoReturn
  <2> DEFINE k == OnMessage(js, s, Head(toBrowser[s]))
             tb == [toBrowser EXCEPT ![s] = Tail(@)]
  <2>1. /\ js.ready[s] = "open" /\ toBrowser[s] # <<>>
        /\ js' = k /\ toBrowser' = tb /\ SameServer
        BY <1>11 DEF MessageArrives, uploadVars, SameServer
  <2>2. LibraryInv(k, tb) /\ Onward(js, k)
        BY <1>1, <2>1, OnMessageKeeps
  <2> HIDE DEF k, tb
  <2>3. QED
        BY <1>2, <2>1, <2>2
<1>12. QED
       BY <1>3, <1>4, <1>5, <1>6, <1>7, <1>8, <1>9, <1>10, <1>11 DEF Browser

LEMMA SentOnly ==
  ASSUME js \in JsRecord, NEW q, js' = js \/ js' = [js EXCEPT !.sent = q]
  PROVE  NoReturn /\ js'.finished = js.finished
<1>1. js'.ready = js.ready /\ js'.finished = js.finished
      BY DEF JsRecord
<1>2. QED
      BY <1>1 DEF NoReturn

\* The actions of a session, and what each does to the upload.
SessionDoes(s, next) ==
  /\ session[s] # "none" /\ session' = [session EXCEPT ![s] = next]
  /\ next \in {"ack", "chunks", "wait"} => (Bound => session[s] \in {"ack", "chunks", "wait"})
  /\ next \in {"none", "ack", "chunks", "wait"}
  /\ link' = link \/ link' = [link EXCEPT ![s] = IF @ = "up" THEN "eof" ELSE @]
  /\ accepted' = accepted /\ losses' = losses
  /\ excused' = excused \/ excused' = (excused \/ ~NothingUnderWay(s))
  /\ \E q : js' = js \/ js' = [js EXCEPT !.sent = q]

UploadDoes(s) ==
  \/ upload' = upload /\ stored' = stored
  \/ upload = "receiving" /\ upload' = "receiving" /\ StoresChunk(s)
  \/ upload = "receiving" /\ upload' = "discarded" /\ stored' = stored
  \/ upload = "receiving" /\ upload' = "handing" /\ stored' = stored /\ AllStored
  \/ upload \in {"finished", "failed", "gone"} /\ upload' = "gone" /\ stored' = stored

LEMMA SessionStep ==
  ASSUME NEW s \in Sockets, Session(s)
  PROVE  (\E next : SessionDoes(s, next)) /\ UploadDoes(s)
<1> USE DEF uploadVars, Discard
<1>1. ASSUME NEW messages, NEW next, GoesOn(s, messages, next), accepted' = accepted,
             excused' = excused, session[s] # "none", next \in {"ack", "chunks", "wait"},
             Bound => session[s] \in {"ack", "chunks", "wait"}
      PROVE  SessionDoes(s, next)
      BY <1>1 DEF GoesOn, SessionDoes
<1>2. ASSUME NEW messages, Returns(s, messages), accepted' = accepted, session[s] # "none",
             excused' = excused \/ excused' = (excused \/ ~NothingUnderWay(s))
      PROVE  SessionDoes(s, "none")
      BY <1>2 DEF Returns, SessionDoes
<1>3. CASE ReadsRequest(s)
      BY <1>1, <1>2, <1>3 DEF ReadsRequest, Reads, UploadDoes
<1>4. CASE ReadsAck(s)
      BY <1>1, <1>4 DEF ReadsAck, Reads, UploadDoes
<1>5. CASE ReadsNoAck(s)
      BY <1>2, <1>5 DEF ReadsNoAck, NotAcked, OutOfPlace, ReadsInLoop, InLoop, Reads, UploadDoes
<1>6. CASE StoresChunk(s)
  <2>1. UploadDoes(s)
        BY <1>6 DEF StoresChunk, UploadDoes
  <2>2. QED
        BY <1>1, <1>6, <2>1 DEF StoresChunk, ReadsInLoop, InLoop
<1>7. CASE RefusesChunk(s)
      BY <1>2, <1>7 DEF RefusesChunk, ReadsInLoop, InLoop, UploadDoes
<1>8. CASE ReadsCancel(s)
      BY <1>2, <1>8 DEF ReadsCancel, ReadsInLoop, InLoop, UploadDoes
<1>9. CASE ReadsOn(s)
      BY <1>1, <1>9 DEF ReadsOn, ReadsInLoop, InLoop, Reads, UploadDoes
<1>10. CASE HandsOver(s)
  <2>1. SessionDoes(s, "wait")
        BY <1>10 DEF HandsOver, SessionDoes
  <2>2. QED
        BY <1>10, <2>1 DEF HandsOver, UploadDoes
<1>11. CASE Tells(s)
  <2>1. SessionDoes(s, "none")
        BY <1>2, <1>11 DEF Tells
  <2>2. QED
        BY <1>11, <2>1 DEF Tells, UploadDoes
<1>12. CASE ReadFails(s)
  <2>1. /\ session[s] # "none" /\ accepted' = accepted /\ upload' = upload /\ stored' = stored
        /\ excused' = (excused \/ ~NothingUnderWay(s))
        /\ \E messages : Returns(s, messages)
        BY <1>12 DEF ReadFails, InLoop
  <2>2. QED
        BY <1>2, <2>1 DEF UploadDoes
<1>13. QED
       BY <1>3, <1>4, <1>5, <1>6, <1>7, <1>8, <1>9, <1>10, <1>11, <1>12 DEF Session

-----------------------------------------------------------------------------
(* The rest of the invariant: one bound session, and the upload.             *)

LEMMA OneBound ==
  ASSUME TransferInv, NEW s \in Sockets, NEW next,
         session' = [session EXCEPT ![s] = next],
         next \in {"ack", "chunks", "wait"} => (Bound => session[s] \in {"ack", "chunks", "wait"})
  PROVE  Bounded'
<1>1. Bounded /\ session \in [Sockets -> {"none", "request", "ack", "chunks", "wait"}]
      BY DEF TransferInv, SessionTypes
<1>2. ASSUME NEW t \in Sockets, NEW u \in Sockets, session'[t] \in {"ack", "chunks", "wait"},
             session'[u] \in {"ack", "chunks", "wait"}
      PROVE  t = u
  <2>1. CASE t # s /\ u # s
        BY <1>1, <1>2, <2>1 DEF Bounded
  <2>2. CASE t = s /\ u # s
    <3>1. session[u] \in {"ack", "chunks", "wait"} /\ next \in {"ack", "chunks", "wait"}
          BY <1>1, <1>2, <2>2
    <3>2. session[s] \in {"ack", "chunks", "wait"}
          BY <3>1 DEF Bound
    <3>3. QED
          BY <1>1, <2>2, <3>1, <3>2 DEF Bounded
  <2>3. CASE t # s /\ u = s
    <3>1. session[t] \in {"ack", "chunks", "wait"} /\ next \in {"ack", "chunks", "wait"}
          BY <1>1, <1>2, <2>3
    <3>2. session[s] \in {"ack", "chunks", "wait"}
          BY <3>1 DEF Bound
    <3>3. QED
          BY <1>1, <2>3, <3>1, <3>2 DEF Bounded
  <2>4. QED
        BY <2>1, <2>2, <2>3
<1>3. QED
      BY <1>2 DEF Bounded

LEMMA SessionRest ==
  ASSUME TransferInv, NEW s \in Sockets, Session(s)
  PROVE  Bounded' /\ UploadInv' /\ SessionTypes'
<1>1. PICK next : SessionDoes(s, next)
      BY SessionStep
<1>2. UploadDoes(s)
      BY SessionStep
<1>3. Bounded'
      BY <1>1, OneBound DEF SessionDoes
<1>4. UploadInv'
  <2>1. UploadInv /\ accepted' = accepted
        BY <1>1 DEF TransferInv, SessionDoes
  <2>2. CASE stored' = stored
        BY <1>2, <2>1, <2>2, StoresChunkKeeps DEF UploadInv, UploadDoes, AllStored
  <2>3. CASE upload = "receiving" /\ upload' = "receiving" /\ StoresChunk(s)
    <3>1. Len(stored') <= Total
          BY <2>3, StoresChunkKeeps, BrowserAssumption, LenProperties DEF TransferInv, UploadInv
    <3>2. stored' \in Seq(0..Total - 1)
          BY <2>3, StoresChunkKeeps
    <3>3. QED
          BY <2>1, <2>3, <3>1, <3>2 DEF UploadInv
  <2>4. QED
        BY <1>2, <2>2, <2>3 DEF UploadDoes
<1>5. SessionTypes'
  <2>1. SessionTypes
        BY DEF TransferInv
  <2>2. /\ link' \in [Sockets -> {"up", "lost", "eof"}]
        /\ session' \in [Sockets -> {"none", "request", "ack", "chunks", "wait"}]
        BY <1>1, <2>1 DEF SessionTypes, SessionDoes
  <2>3. upload' \in {"receiving", "discarded", "handing", "finished", "failed", "gone"}
        BY <1>2, <2>1 DEF SessionTypes, UploadDoes
  <2>4. accepted' \in BOOLEAN /\ losses' \in 0..MaxLosses
        BY <1>1, <2>1 DEF SessionTypes, SessionDoes
  <2>5. excused' \in BOOLEAN
    <3>1. excused' = excused \/ excused' = (excused \/ ~NothingUnderWay(s))
          BY <1>1 DEF SessionDoes
    <3>2. excused \in BOOLEAN
          BY <2>1 DEF SessionTypes
    <3>3. QED
          BY <3>1, <3>2, Zenon
  <2>6. QED
        BY <2>2, <2>3, <2>4, <2>5 DEF SessionTypes
<1>6. QED
      BY <1>3, <1>4, <1>5

LEMMA StartRest ==
  ASSUME TransferInv, NEW j, NEW s \in Sockets, StartsOn(j, s)
  PROVE  Bounded' /\ UploadInv' /\ SessionTypes'
<1>1. Bounded /\ UploadInv /\ SessionTypes
      BY DEF TransferInv
<1>2. /\ session' = session /\ link' = [link EXCEPT ![s] = "up"]
      /\ UNCHANGED uploadVars /\ losses' = losses
      BY DEF StartsOn
<1>3. excused' \in BOOLEAN
  <2>1. excused' = (excused \/ ~OldSessionsEnded) /\ excused \in BOOLEAN
        BY <1>1 DEF StartsOn, SessionTypes
  <2>2. QED
        BY <2>1, Zenon
<1>4. Bounded' /\ UploadInv'
      BY <1>1, <1>2 DEF Bounded, UploadInv, uploadVars
<1>5. SessionTypes'
      BY <1>1, <1>2, <1>3 DEF SessionTypes, uploadVars
<1>6. QED
      BY <1>4, <1>5

LEMMA BrowserRest ==
  ASSUME TransferInv, Browser
  PROVE  Bounded' /\ UploadInv' /\ SessionTypes'
<1>1. Bounded /\ UploadInv /\ SessionTypes
      BY DEF TransferInv
<1>2. ASSUME UNCHANGED <<link, session, uploadVars, losses>>,
             excused' = excused \/ excused' = TRUE
      PROVE  Bounded' /\ UploadInv' /\ SessionTypes'
  <2>1. excused' \in BOOLEAN
        BY <1>1, <1>2 DEF SessionTypes
  <2>2. Bounded' /\ UploadInv'
        BY <1>1, <1>2 DEF Bounded, UploadInv, uploadVars
  <2>3. SessionTypes'
        BY <1>1, <1>2, <2>1 DEF SessionTypes, uploadVars
  <2>4. QED
        BY <2>2, <2>3
<1>3. CASE RetryFires
      BY <1>3, StartRest DEF RetryFires
<1>4. CASE UserUnpauses
      BY <1>4, StartRest DEF UserUnpauses
<1>5. CASE UserCancels \/ UserPauses \/ ChunkLoaded \/ ChunkLoadFails
  <2>1. UNCHANGED <<connVars, uploadVars, losses>> /\ (excused' = excused \/ excused' = TRUE)
        BY <1>5 DEF UserCancels, UserPauses, ChunkLoaded, ChunkLoadFails
  <2>2. UNCHANGED <<link, session, uploadVars, losses>>
        BY <2>1 DEF connVars
  <2>3. QED
        BY <1>2, <2>1, <2>2
<1>6. ASSUME NEW s \in Sockets, SocketOpens(s)
      PROVE  Bounded' /\ UploadInv' /\ SessionTypes'
  <2>1. /\ session' = [session EXCEPT ![s] = "request"]
        /\ UNCHANGED <<link, uploadVars, losses, excused>>
        BY <1>6 DEF SocketOpens
  <2>2. Bounded'
        BY <2>1, OneBound
  <2>3. UploadInv' /\ SessionTypes'
        BY <1>1, <2>1 DEF UploadInv, SessionTypes, uploadVars
  <2>4. QED
        BY <2>2, <2>3
<1>7. ASSUME NEW s \in Sockets, SocketCloses(s) \/ MessageArrives(s)
      PROVE  Bounded' /\ UploadInv' /\ SessionTypes'
      BY <1>2, <1>7 DEF SocketCloses, MessageArrives
<1>8. QED
      BY <1>3, <1>4, <1>5, <1>6, <1>7 DEF Browser

LEMMA LossRest ==
  ASSUME TransferInv, NEW s \in Sockets, ConnectionLost(s)
  PROVE  Bounded' /\ UploadInv' /\ SessionTypes'
<1>1. Bounded /\ UploadInv /\ SessionTypes
      BY DEF TransferInv
<1>2. /\ losses < MaxLosses /\ losses' = losses + 1 /\ link' = [link EXCEPT ![s] = "lost"]
      /\ UNCHANGED <<session, uploadVars, excused>>
      BY DEF ConnectionLost
<1>3. losses' \in 0..MaxLosses
      BY <1>1, <1>2, TransferAssumption DEF SessionTypes
<1>4. Bounded' /\ UploadInv'
      BY <1>1, <1>2 DEF Bounded, UploadInv, uploadVars
<1>5. SessionTypes'
      BY <1>1, <1>2, <1>3 DEF SessionTypes, uploadVars
<1>6. QED
      BY <1>4, <1>5

LEMMA UploadRest ==
  ASSUME TransferInv, HandoverEnds \/ UploadExpires \/ ServerRestarts
  PROVE  Bounded' /\ UploadInv' /\ SessionTypes'
<1>1. Bounded /\ UploadInv /\ SessionTypes
      BY DEF TransferInv
<1>2. CASE HandoverEnds \/ UploadExpires
  <2>1. UNCHANGED <<link, session, stored, losses, excused>>
        BY <1>2 DEF HandoverEnds, UploadExpires, connVars
  <2>2. Bounded'
        BY <1>1, <2>1 DEF Bounded
  <2>3. UploadInv' /\ SessionTypes'
    <3>1. CASE HandoverEnds
      <4>1. /\ upload = "handing"
            /\ \/ upload' = "finished" /\ accepted' = TRUE
               \/ upload' = "failed" /\ accepted' = accepted
            BY <3>1 DEF HandoverEnds
      <4>2. accepted' \in BOOLEAN
            BY <1>1, <4>1, Zenon DEF SessionTypes
      <4>3. CASE upload' = "finished" /\ accepted'
            BY <1>1, <2>1, <4>1, <4>2, <4>3 DEF UploadInv, SessionTypes
      <4>4. CASE upload' = "failed" /\ accepted' = accepted
        <5>1. ~accepted'
              BY <1>1, <4>1, <4>4 DEF UploadInv
        <5>2. QED
              BY <1>1, <2>1, <4>1, <4>2, <4>4, <5>1 DEF UploadInv, SessionTypes
      <4>5. QED
            BY <4>1, <4>3, <4>4
    <3>2. CASE UploadExpires
      <4>1. /\ \/ upload = "receiving" /\ upload' = "discarded"
               \/ upload \in {"finished", "failed"} /\ upload' = "gone"
            /\ accepted' = accepted
            BY <3>2 DEF UploadExpires
      <4>2. QED
            BY <1>1, <2>1, <4>1 DEF UploadInv, SessionTypes
    <3>3. QED
          BY <1>2, <3>1, <3>2
  <2>4. QED
        BY <2>2, <2>3
<1>3. CASE ServerRestarts
  <2>1. /\ upload' = IF accepted THEN "gone" ELSE "discarded"
        /\ session' = [s \in Sockets |-> "none"]
        /\ link' = [s \in Sockets |-> IF session[s] = "none" THEN link[s] ELSE "lost"]
        /\ UNCHANGED <<stored, accepted, losses, excused>>
        BY <1>3 DEF ServerRestarts
  <2>2. Bounded'
        BY <2>1 DEF Bounded
  <2>3. UploadInv'
        BY <1>1, <2>1 DEF UploadInv, SessionTypes
  <2>4. SessionTypes'
        BY <1>1, <2>1 DEF SessionTypes
  <2>5. QED
        BY <2>2, <2>3, <2>4
<1>4. QED
      BY <1>2, <1>3

LEMMA TransferInvStep ==
  ASSUME TransferInv, Patient, TransferNext
  PROVE  TransferInv'
<1>1. CASE Browser
      BY <1>1, BrowserStep, BrowserRest DEF TransferInv
<1>2. ASSUME NEW s \in Sockets, ConnectionLost(s)
      PROVE  TransferInv'
      BY <1>2, LossKeeps, LossRest DEF TransferInv
<1>3. ASSUME NEW s \in Sockets, Session(s)
      PROVE  TransferInv'
      BY <1>3, SessionStepKeeps, SessionRest DEF TransferInv
<1>4. CASE HandoverEnds \/ UploadExpires
      BY <1>4, UploadStepsKeep, UploadRest DEF TransferInv
<1>5. CASE ServerRestarts
      BY <1>5, RestartKeeps, UploadRest DEF TransferInv
<1>6. QED
      BY <1>1, <1>2, <1>3, <1>4, <1>5 DEF TransferNext

LEMMA TransferInvStutter ==
  ASSUME TransferInv, UNCHANGED transferVars
  PROVE  TransferInv'
BY DEF TransferInv, LibraryInv, SocketInv, ReaderInv, SentInv, SentAt, WireInv, WireAt, Resumes,
       Flows, MailInv, MailAt, EndInv, Bounded, UploadInv, SessionTypes,
       transferVars, connVars, uploadVars

LEMMA UnusedTyped == Unused \in JsRecord
<1> DEFINE none == [t \in Sockets |-> <<>>]
<1>1. /\ none \in [Sockets -> Seq(ToServer)]
      /\ [t \in Sockets |-> "closed"] \in [Sockets -> Ready]
      /\ [t \in Sockets |-> "none"] \in [Sockets -> Usual]
      /\ [t \in Sockets |-> "none"] \in Handlings
      /\ 0 \in 0..Total
      BY BrowserAssumption DEF Ready, Usual, Handlings
<1>2. Unused.sent = none
      BY DEF Unused
<1> HIDE DEF none
<1>3. QED
      BY <1>1, <1>2 DEF Unused, JsRecord

LEMMA TransferInvInit ==
  ASSUME TransferInit
  PROVE  TransferInv
<1>1. PICK s \in Sockets : js = Start(Unused, s)
      BY DEF TransferInit
<1>2. /\ link = [t \in Sockets |-> "up"] /\ toBrowser = [t \in Sockets |-> <<>>]
      /\ session = [t \in Sockets |-> "none"]
      /\ upload = "receiving" /\ stored = <<>> /\ accepted = FALSE /\ losses = 0 /\ excused = FALSE
      BY DEF TransferInit
<1>3. Unused \in JsRecord
      BY UnusedTyped
<1>4. /\ js \in JsRecord /\ js.ws = s /\ Started(Unused, js, s)
      BY <1>1, <1>3, StartEffect
<1>5. /\ js.ready = [t \in Sockets |-> IF t = s THEN "connecting" ELSE "closed"]
      /\ js.onmessage[s] = "none" /\ js.sent = [t \in Sockets |-> <<>>]
      /\ js.reader = NotLoading /\ js.bytes_acked = 0 /\ js.orphans = 0
      /\ js.conn_retry = FALSE /\ js.finished = FALSE /\ js.cancelled = FALSE
      BY <1>4 DEF Started, Unused
<1>6. Len(stored) = 0 /\ \A t \in Sockets : Len(toBrowser[t]) = 0 /\ toBrowser[t] = <<>>
      BY <1>2
<1>7. toBrowser \in [Sockets -> Seq(ToBrowser)]
      BY <1>2
<1>8. SocketInv(js)
      BY <1>2, <1>4, <1>5, NamesApart DEF SocketInv, Handler
<1>9. ReaderInv(js) /\ SentInv(js)
      BY <1>2, <1>5 DEF ReaderInv, SentInv, SentAt
<1>10. WireInv(js, toBrowser)
       BY <1>5 DEF WireInv, WireAt
<1>11. MailInv(js, toBrowser)
       BY <1>6 DEF MailInv, MailAt
<1>12. EndInv(js)
       BY <1>5, <1>6 DEF EndInv
<1>13. Bounded
       BY <1>2 DEF Bounded
<1>14. UploadInv /\ SessionTypes
  <2>1. stored \in Seq(0..Total - 1) /\ Len(stored) <= Total
        BY <1>2, <1>6, BrowserAssumption
  <2>2. losses \in 0..MaxLosses
        BY <1>2, TransferAssumption
  <2>3. QED
        BY <1>2, <2>1, <2>2 DEF UploadInv, SessionTypes
<1>15. QED
       BY <1>4, <1>7, <1>8, <1>9, <1>10, <1>11, <1>12, <1>13, <1>14 DEF TransferInv, LibraryInv

LEMMA TransferIsInv ==
  ASSUME Patient
  PROVE  TransferSpec => []TransferInv
<1>1. TransferInv /\ [TransferNext]_transferVars => TransferInv'
      BY TransferInvStep, TransferInvStutter
<1>2. QED
      BY <1>1, TransferInvInit, PTL DEF TransferSpec

-----------------------------------------------------------------------------
(* The steps of the file.                                                    *)

FileStep == [File!FileNext]_(File!fileVars)

\* A step that keeps the file and tells the browser nothing, or what is true.
LEMMA QuietStep ==
  ASSUME TransferInv, TransferInv', UNCHANGED uploadVars, NoReturn
  PROVE  FileStep
<1>1. UNCHANGED <<stored, upload, accepted>>
      BY DEF uploadVars
<1>2. Phase' = Phase
      BY <1>1 DEF Phase
<1>3. js.finished \in BOOLEAN /\ js'.finished \in BOOLEAN
      BY DEF TransferInv, LibraryInv, JsRecord
<1>4. CASE js'.finished = js.finished
      BY <1>1, <1>2, <1>4 DEF FileStep, File!fileVars
<1>5. CASE ~js.finished /\ js'.finished
  <2>1. accepted'
        BY <1>5 DEF TransferInv, LibraryInv, EndInv
  <2>2. accepted
        BY <1>1, <2>1
  <2>3. Phase = "accepted"
        BY <2>2 DEF Phase
  <2>4. js'.finished = TRUE
        BY <1>3, <1>5
  <2>5. File!TellFinished
        BY <1>1, <1>2, <2>3, <2>4 DEF File!TellFinished
  <2>6. QED
        BY <2>5 DEF FileStep, File!FileNext
<1>6. QED
      BY <1>3, <1>4, <1>5 DEF NoReturn

\* Phase, from what becomes of the upload.
PhaseFits ==
  /\ upload = "receiving" => Phase = "open"
  /\ upload = "handing" => Phase = "handed"
  /\ upload = "finished" => Phase = "accepted"
  /\ upload \in {"discarded", "failed"} => Phase = "failed"
  /\ upload = "gone" => Phase = IF accepted THEN "accepted" ELSE "failed"
  /\ Phase = "accepted" <=> accepted

LEMMA PhaseIs == TransferInv => PhaseFits
<1> SUFFICES ASSUME TransferInv
             PROVE  PhaseFits
    OBVIOUS
<1>1. UploadInv /\ upload \in {"receiving", "discarded", "handing", "finished", "failed", "gone"}
      BY DEF TransferInv, SessionTypes
<1>2. accepted => Phase = "accepted"
      BY DEF Phase
<1>3. CASE ~accepted
      BY <1>1, <1>3 DEF Phase, PhaseFits, UploadInv
<1>4. CASE accepted
      BY <1>1, <1>2, <1>4 DEF PhaseFits, UploadInv
<1>5. QED
      BY <1>3, <1>4

LEMMA Phases ==
  ASSUME TransferInv, TransferInv'
  PROVE  PhaseFits /\ PhaseFits'
BY PhaseIs, PTL

LEMMA SessionFile ==
  ASSUME TransferInv, TransferInv', NEW s \in Sockets, Session(s)
  PROVE  FileStep
<1>1. PICK next : SessionDoes(s, next)
      BY SessionStep
<1>2. UploadDoes(s) /\ accepted' = accepted
      BY <1>1, SessionStep DEF SessionDoes
<1>3. js \in JsRecord
      BY DEF TransferInv, LibraryInv
<1>4. NoReturn /\ js'.finished = js.finished
      BY <1>1, <1>3, SentOnly DEF SessionDoes
<1>5. CASE upload' = upload /\ stored' = stored
      BY <1>2, <1>4, <1>5, QuietStep DEF uploadVars
<1>6. CASE upload = "receiving" /\ upload' = "receiving" /\ StoresChunk(s)
  <2>1. Phase = "open" /\ Phase' = "open"
        BY <1>6, Phases DEF PhaseFits
  <2>2. Len(stored) < Total /\ stored' = Append(stored, Len(stored))
        BY <1>6, StoresChunkKeeps DEF StoresChunk
  <2>3. File!StoreNext
        BY <1>4, <2>1, <2>2 DEF File!StoreNext
  <2>4. QED
        BY <2>3 DEF FileStep, File!FileNext
<1>7. CASE upload = "receiving" /\ upload' = "discarded" /\ stored' = stored
  <2>1. Phase = "open" /\ Phase' = "failed"
        BY <1>7, Phases DEF PhaseFits
  <2>2. File!FailTransfer
        BY <1>4, <1>7, <2>1 DEF File!FailTransfer
  <2>3. QED
        BY <2>2 DEF FileStep, File!FileNext
<1>8. CASE upload = "receiving" /\ upload' = "handing" /\ stored' = stored /\ AllStored
  <2>1. Phase = "open" /\ Phase' = "handed"
        BY <1>8, Phases DEF PhaseFits
  <2>2. File!HandFileOver
        BY <1>4, <1>8, <2>1 DEF File!HandFileOver, AllStored
  <2>3. QED
        BY <2>2 DEF FileStep, File!FileNext
<1>9. CASE upload \in {"finished", "failed", "gone"} /\ upload' = "gone" /\ stored' = stored
  <2>1. Phase' = Phase
        BY <1>2, <1>9, Phases DEF PhaseFits
  <2>2. QED
        BY <1>4, <1>9, <2>1 DEF FileStep, File!fileVars
<1>10. QED
       BY <1>2, <1>5, <1>6, <1>7, <1>8, <1>9 DEF UploadDoes

LEMMA UploadFile ==
  ASSUME TransferInv, TransferInv', HandoverEnds \/ UploadExpires \/ ServerRestarts
  PROVE  FileStep /\ NoReturn
<1>1. js \in JsRecord /\ UploadInv
      BY DEF TransferInv, LibraryInv
<1>2. \E q : js' = js \/ js' = [js EXCEPT !.sent = q]
      BY DEF HandoverEnds, UploadExpires, ServerRestarts
<1>3. NoReturn /\ js'.finished = js.finished
      BY <1>1, <1>2, SentOnly
<1>4. stored' = stored
      BY DEF HandoverEnds, UploadExpires, ServerRestarts
<1>5. ASSUME Phase \in {"open", "handed"}, Phase' = "failed"
      PROVE  FileStep
      BY <1>3, <1>4, <1>5 DEF FileStep, File!FileNext, File!FailTransfer
<1>6. ASSUME Phase' = Phase
      PROVE  FileStep
      BY <1>3, <1>4, <1>6 DEF FileStep, File!fileVars
<1>7. CASE HandoverEnds
  <2>1. /\ upload = "handing" /\ Phase = "handed"
        /\ Phase' = "accepted" \/ Phase' = "failed"
        BY <1>7, Phases DEF PhaseFits, HandoverEnds
  <2>2. CASE Phase' = "accepted"
        BY <1>3, <1>4, <2>1, <2>2 DEF FileStep, File!FileNext, File!AcceptFile
  <2>3. QED
        BY <1>3, <1>5, <2>1, <2>2
<1>8. CASE UploadExpires
  <2>1. CASE upload = "receiving" /\ upload' = "discarded"
    <3>1. Phase = "open" /\ Phase' = "failed"
          BY <2>1, Phases DEF PhaseFits
    <3>2. QED
          BY <1>3, <1>5, <3>1
  <2>2. CASE upload \in {"finished", "failed"} /\ upload' = "gone" /\ accepted' = accepted
    <3>1. Phase' = Phase
          BY <1>1, <2>2, Phases DEF PhaseFits, UploadInv
    <3>2. QED
          BY <1>3, <1>6, <3>1
  <2>3. QED
        BY <1>8, <2>1, <2>2 DEF UploadExpires
<1>9. CASE ServerRestarts
  <2>1. accepted' = accepted /\ upload' = IF accepted THEN "gone" ELSE "discarded"
        BY <1>9 DEF ServerRestarts
  <2>2. CASE accepted
    <3>1. Phase = "accepted" /\ Phase' = "accepted"
          BY <2>1, <2>2 DEF Phase
    <3>2. QED
          BY <1>3, <1>6, <3>1
  <2>3. CASE ~accepted
    <3>1. Phase' = "failed"
          BY <2>1, <2>3, Phases DEF PhaseFits
    <3>2. Phase \in {"open", "handed", "failed"}
          BY <2>3 DEF Phase
    <3>3. QED
          BY <1>3, <1>5, <1>6, <3>1, <3>2
  <2>4. QED
        BY <2>2, <2>3
<1>10. QED
       BY <1>3, <1>7, <1>8, <1>9

LEMMA TransferStep ==
  ASSUME TransferInv, TransferInv', Patient, TransferNext
  PROVE  FileStep /\ NoReturn
<1>1. CASE Browser
  <2>1. UNCHANGED uploadVars
        BY <1>1 DEF Browser, RetryFires, UserUnpauses, StartsOn, UserCancels, UserPauses,
                    ChunkLoaded, ChunkLoadFails, SocketOpens, SocketCloses, MessageArrives
  <2>2. NoReturn
        BY <1>1, BrowserStep
  <2>3. QED
        BY <2>1, <2>2, QuietStep
<1>2. ASSUME NEW s \in Sockets, ConnectionLost(s)
      PROVE  FileStep /\ NoReturn
  <2>1. js \in JsRecord
        BY DEF TransferInv, LibraryInv
  <2>2. PICK n \in 0..Len(js.sent[s]) : js' = [js EXCEPT !.sent[s] = SubSeq(js.sent[s], 1, n)]
        BY <1>2 DEF ConnectionLost
  <2>3. \E q : js' = js \/ js' = [js EXCEPT !.sent = q]
        BY <2>2
  <2>4. NoReturn /\ UNCHANGED uploadVars
        BY <1>2, <2>1, <2>3, SentOnly DEF ConnectionLost
  <2>5. QED
        BY <2>4, QuietStep
<1>3. ASSUME NEW s \in Sockets, Session(s)
      PROVE  FileStep /\ NoReturn
  <2>1. PICK next : SessionDoes(s, next)
        BY <1>3, SessionStep
  <2>2. js \in JsRecord
        BY DEF TransferInv, LibraryInv
  <2>3. NoReturn
        BY <2>1, <2>2, SentOnly DEF SessionDoes
  <2>4. QED
        BY <1>3, <2>3, SessionFile
<1>4. QED
      BY <1>1, <1>2, <1>3, UploadFile DEF TransferNext

LEMMA TransferStutter ==
  ASSUME UNCHANGED transferVars
  PROVE  FileStep /\ NoReturn
<1>1. UNCHANGED <<js, stored, upload, accepted>>
      BY DEF transferVars, uploadVars
<1>2. Phase' = Phase
      BY <1>1 DEF Phase
<1>3. QED
      BY <1>1, <1>2 DEF FileStep, File!fileVars, NoReturn

LEMMA StartFresh ==
  ASSUME TransferInit
  PROVE  ~js.finished
<1>1. PICK s \in Sockets : js = Start(Unused, s)
      BY DEF TransferInit
<1>2. js.finished = Unused.finished
      BY <1>1, UnusedTyped, StartEffect DEF Started
<1>3. QED
      BY <1>2 DEF Unused

-----------------------------------------------------------------------------
(* The invariant that every regime keeps.                                    *)

\* What the server may have told: a cancel is acknowledged and the end reported
\* only when it is true, and it stays true.
Honest == {m \in [type : {"conf", "chunkAck", "cancelAck", "allDone", "error"}, pos : Nat] :
             /\ m.type = "cancelAck" => upload = "discarded"
             /\ m.type = "allDone" => accepted}

StoredInv == (\E S : stored \in Seq(S)) /\ Len(stored) <= Total

OutcomeInv ==
  /\ upload \in {"receiving", "discarded", "handing", "finished", "failed", "gone"}
  /\ accepted \in BOOLEAN
  /\ upload \in {"handing", "finished", "failed", "gone"} => AllStored
  /\ upload \in {"receiving", "discarded", "handing", "failed"} => ~accepted
  /\ upload = "finished" => accepted

AnyhowInv ==
  /\ Wired(js)
  /\ toBrowser \in [Sockets -> Seq(Honest)]
  /\ StoredInv /\ OutcomeInv
  /\ js.finished => accepted
  /\ CancelledIsDiscarded

\* What may become of the upload in one step, its chunks apart.
UploadTurns ==
  \/ upload = "receiving" /\ upload' = "discarded"
  \/ upload = "receiving" /\ upload' = "handing" /\ AllStored
  \/ upload = "handing" /\ upload' = "failed"
  \/ upload \in {"finished", "failed", "gone"} /\ upload' = "gone"
  \/ accepted /\ upload' = "gone"
  \/ ~accepted /\ upload' = "discarded"

UploadMoves ==
  \/ UNCHANGED <<upload, stored, accepted>>
  \/ /\ upload = "receiving" /\ ~AllStored /\ \E pos : stored' = Append(stored, pos)
     /\ UNCHANGED <<upload, accepted>>
  \/ UploadTurns /\ UNCHANGED <<stored, accepted>>
  \/ /\ upload = "handing" /\ upload' = "finished" /\ accepted' = TRUE
     /\ stored' = stored

LEMMA AppendAny ==
  ASSUME NEW S, NEW q \in Seq(S), NEW e
  PROVE  /\ Append(q, e) \in Seq(S \cup {e})
         /\ Len(Append(q, e)) = Len(q) + 1 /\ Len(q) \in Nat
<1>1. q \in Seq(S \cup {e}) /\ e \in S \cup {e}
  <2>1. q \in Seq(S \cup {e})
        OBVIOUS
  <2>2. QED
        BY <2>1
<1>2. QED
      BY <1>1, AppendProperties, LenProperties

LEMMA UploadMovesOn ==
  ASSUME StoredInv, OutcomeInv, UploadMoves
  PROVE  /\ StoredInv' /\ OutcomeInv'
         /\ (upload = "discarded" => upload' = "discarded") /\ (accepted => accepted')
         /\ Honest \subseteq Honest'
<1>1. PICK S : stored \in Seq(S)
      BY DEF StoredInv
<1>2. Len(stored) \in Nat /\ Len(stored) <= Total /\ Total \in Nat
      BY <1>1, LenProperties, BrowserAssumption DEF StoredInv
<1>3. ASSUME stored' = stored
      PROVE  StoredInv' /\ OutcomeInv'
  <2>1. StoredInv'
        BY <1>3 DEF StoredInv
  <2>2. AllStored' <=> AllStored
        BY <1>3 DEF AllStored
  <2>3. ASSUME accepted' = accepted
        PROVE  OutcomeInv'
    <3>1. CASE upload' = upload
          BY <1>3, <2>2, <2>3, <3>1 DEF OutcomeInv
    <3>2. CASE upload = "receiving" /\ upload' = "discarded"
          BY <2>3, <3>2 DEF OutcomeInv
    <3>3. CASE upload = "receiving" /\ upload' = "handing" /\ AllStored
          BY <2>2, <2>3, <3>3 DEF OutcomeInv
    <3>4. CASE upload = "handing" /\ upload' = "failed"
          BY <2>2, <2>3, <3>4 DEF OutcomeInv
    <3>5. CASE (upload \in {"finished", "failed", "gone"} \/ accepted) /\ upload' = "gone"
          BY <2>2, <2>3, <3>5 DEF OutcomeInv
    <3>6. CASE ~accepted /\ upload' = "discarded"
          BY <2>3, <3>6 DEF OutcomeInv
    <3>7. CASE upload = "handing" /\ upload' = "finished" /\ accepted' = TRUE
          BY <2>3, <3>7 DEF OutcomeInv
    <3>8. CASE ~AllStored /\ \E pos : stored' = Append(stored, pos)
      <4>1. PICK pos : stored' = Append(stored, pos)
            BY <3>8
      <4>2. Len(stored') = Len(stored) + 1
            BY <1>1, <4>1, AppendAny
      <4>3. QED
            BY <1>2, <1>3, <4>2
    <3>9. QED
          BY <3>1, <3>2, <3>3, <3>4, <3>5, <3>6, <3>7, <3>8 DEF UploadMoves, UploadTurns
  <2>4. ASSUME upload = "handing", upload' = "finished", accepted' = TRUE
        PROVE  OutcomeInv'
        BY <2>2, <2>4 DEF OutcomeInv
  <2>5. accepted' = accepted \/ (upload = "handing" /\ upload' = "finished" /\ accepted' = TRUE)
        BY DEF UploadMoves
  <2>6. QED
        BY <2>1, <2>3, <2>4, <2>5
<1>4. ASSUME upload = "receiving", ~AllStored, NEW pos, stored' = Append(stored, pos),
             UNCHANGED <<upload, accepted>>
      PROVE  StoredInv' /\ OutcomeInv'
  <2>1. stored' \in Seq(S \cup {pos}) /\ Len(stored') = Len(stored) + 1
        BY <1>1, <1>4, AppendAny
  <2>2. Len(stored') <= Total
        BY <1>2, <1>4, <2>1 DEF AllStored
  <2>3. StoredInv'
        BY <2>1, <2>2 DEF StoredInv
  <2>4. OutcomeInv'
        BY <1>4 DEF OutcomeInv
  <2>5. QED
        BY <2>3, <2>4
<1>5. StoredInv' /\ OutcomeInv'
      BY <1>3, <1>4 DEF UploadMoves
<1>6. (upload = "discarded" => upload' = "discarded") /\ (accepted => accepted')
      BY DEF UploadMoves, UploadTurns, OutcomeInv
<1>7. QED
      BY <1>5, <1>6 DEF Honest

-----------------------------------------------------------------------------
(* The steps of the life.                                                    *)

LifeStep == [Life!LifeNext]_(Life!lifeVars)

OutcomePhase == OutcomeInv => PhaseFits

LEMMA OutcomePhaseIs == OutcomePhase
<1> SUFFICES ASSUME OutcomeInv
             PROVE  PhaseFits
    BY DEF OutcomePhase
<1>1. accepted => Phase = "accepted"
      BY DEF Phase
<1>2. CASE ~accepted
      BY <1>2 DEF Phase, PhaseFits, OutcomeInv
<1>3. CASE accepted
      BY <1>1, <1>3 DEF PhaseFits, OutcomeInv
<1>4. QED
      BY <1>2, <1>3

\* The browser is told nothing, or what is true.
TellsTruly == \/ js'.finished = js.finished
              \/ /\ js'.finished = TRUE /\ accepted
                 /\ UNCHANGED <<upload, stored, accepted>>

LEMMA MovesLive ==
  ASSUME StoredInv, OutcomeInv, OutcomeInv', UploadMoves, TellsTruly
  PROVE  LifeStep
<1>1. PhaseFits /\ PhaseFits'
      BY OutcomePhaseIs, PTL DEF OutcomePhase
<1>2. CASE UNCHANGED <<upload, stored, accepted>>
  <2>1. Phase' = Phase
        BY <1>2 DEF Phase
  <2>2. CASE js'.finished = js.finished
        BY <1>2, <2>1, <2>2 DEF LifeStep, Life!lifeVars
  <2>3. CASE js'.finished = TRUE /\ accepted
    <3>1. Phase = "accepted"
          BY <2>3 DEF Phase
    <3>2. Life!TellBrowser
          BY <1>2, <2>1, <2>3, <3>1 DEF Life!TellBrowser
    <3>3. QED
          BY <3>2 DEF LifeStep, Life!LifeNext
  <2>4. QED
        BY <2>2, <2>3 DEF TellsTruly
<1> DEFINE Moved == ~UNCHANGED <<upload, stored, accepted>>
<1>3. Moved => js'.finished = js.finished
      BY DEF TellsTruly
<1>4. ASSUME Moved, upload = "receiving", ~AllStored, NEW pos, stored' = Append(stored, pos),
             UNCHANGED <<upload, accepted>>
      PROVE  LifeStep
  <2>1. PICK S : stored \in Seq(S)
        BY DEF StoredInv
  <2>2. Len(stored') \in Len(stored) + 1..Total
    <3>1. Len(stored') = Len(stored) + 1 /\ Len(stored) \in Nat
          BY <1>4, <2>1, AppendAny
    <3>2. Len(stored) <= Total /\ Len(stored) # Total /\ Total \in Nat
          BY <1>4, BrowserAssumption DEF StoredInv, AllStored
    <3>3. QED
          BY <3>1, <3>2
  <2>3. Phase = "open" /\ Phase' = "open"
        BY <1>1, <1>4 DEF PhaseFits
  <2>4. Life!Receive
        BY <1>3, <1>4, <2>2, <2>3 DEF Life!Receive
  <2>5. QED
        BY <2>4 DEF LifeStep, Life!LifeNext
<1>5. ASSUME Moved, stored' = stored, Phase = "open", Phase' = "handed", AllStored
      PROVE  LifeStep
      BY <1>3, <1>5 DEF LifeStep, Life!LifeNext, Life!HandOver, AllStored
<1>6. ASSUME Moved, stored' = stored, Phase = "handed", Phase' = "accepted"
      PROVE  LifeStep
      BY <1>3, <1>6 DEF LifeStep, Life!LifeNext, Life!BackendAccepts
<1>7. ASSUME Moved, stored' = stored, Phase \in {"open", "handed"}, Phase' = "failed"
      PROVE  LifeStep
      BY <1>3, <1>7 DEF LifeStep, Life!LifeNext, Life!Fail
<1>8. ASSUME Moved, stored' = stored, Phase' = Phase
      PROVE  LifeStep
      BY <1>3, <1>8 DEF LifeStep, Life!lifeVars
<1>9. ASSUME Moved, UploadTurns, UNCHANGED <<stored, accepted>>
      PROVE  LifeStep
  <2>1. CASE upload = "receiving" /\ upload' = "discarded"
        BY <1>1, <1>7, <1>9, <2>1 DEF PhaseFits
  <2>2. CASE upload = "receiving" /\ upload' = "handing" /\ AllStored
        BY <1>1, <1>5, <1>9, <2>2 DEF PhaseFits
  <2>3. CASE upload = "handing" /\ upload' = "failed"
        BY <1>1, <1>7, <1>9, <2>3 DEF PhaseFits
  <2>4. CASE upload \in {"finished", "failed", "gone"} /\ upload' = "gone"
    <3>1. Phase' = Phase
          BY <1>1, <1>9, <2>4 DEF PhaseFits
    <3>2. QED
          BY <1>8, <1>9, <3>1
  <2>5. CASE accepted /\ upload' = "gone"
    <3>1. Phase = "accepted" /\ Phase' = "accepted"
          BY <1>9, <2>5 DEF Phase
    <3>2. QED
          BY <1>8, <1>9, <3>1
  <2>6. CASE ~accepted /\ upload' = "discarded"
    <3>1. Phase' = "failed"
          BY <1>1, <2>6 DEF PhaseFits
    <3>2. Phase \in {"open", "handed", "failed"}
          BY <2>6 DEF Phase
    <3>3. QED
          BY <1>7, <1>8, <1>9, <3>1, <3>2
  <2>7. QED
        BY <1>9, <2>1, <2>2, <2>3, <2>4, <2>5, <2>6 DEF UploadTurns
<1>10. ASSUME Moved, upload = "handing", upload' = "finished", stored' = stored
       PROVE  LifeStep
       BY <1>1, <1>6, <1>10 DEF PhaseFits
<1>11. QED
       BY <1>2, <1>4, <1>9, <1>10 DEF UploadMoves

-----------------------------------------------------------------------------
(* Every step keeps that invariant and is a step of the life.                *)

Lives == AnyhowInv' /\ LifeStep

LEMMA HonestStays ==
  ASSUME StoredInv, OutcomeInv, UploadMoves, NEW tb \in [Sockets -> Seq(Honest)]
  PROVE  tb \in [Sockets -> Seq(Honest')]
<1>1. Honest \subseteq Honest'
      BY UploadMovesOn
<1> DEFINE H == Honest
           K == Honest'
<1>2. H \subseteq K /\ tb \in [Sockets -> Seq(H)]
      BY <1>1
<1> HIDE DEF H, K
<1>3. \A s \in Sockets : tb[s] \in Seq(K)
      BY <1>2
<1>4. tb \in [Sockets -> Seq(K)]
      BY <1>2, <1>3
<1>5. QED
      BY <1>4 DEF K

LEMMA SparingStep ==
  ASSUME AnyhowInv, UploadMoves, Spares(js, js'), toBrowser' \in [Sockets -> Seq(Honest')]
  PROVE  Lives
<1>1. /\ StoredInv' /\ OutcomeInv'
      /\ (upload = "discarded" => upload' = "discarded") /\ (accepted => accepted')
      BY UploadMovesOn DEF AnyhowInv
<1>2. js'.finished = js.finished /\ Wired(js)'
      BY DEF Spares, Wired
<1>3. (js'.finished => accepted') /\ CancelledIsDiscarded'
      BY <1>1, <1>2 DEF AnyhowInv, Spares, CancelledIsDiscarded
<1>4. AnyhowInv'
      BY <1>1, <1>2, <1>3 DEF AnyhowInv
<1>5. LifeStep
      BY <1>1, <1>2, MovesLive DEF TellsTruly, AnyhowInv
<1>6. QED
      BY <1>4, <1>5 DEF Lives

LEMMA StartLives ==
  ASSUME AnyhowInv, NEW j, Spares(js, j), NEW s \in Sockets, StartsOn(j, s)
  PROVE  Lives
<1>1. Spares(js, js')
  <2>1. Spares(j, Start(j, s)) /\ js' = Start(j, s)
        BY StartSpares DEF StartsOn, Spares
  <2>2. QED
        BY <2>1 DEF Spares
<1>2. UploadMoves /\ toBrowser' \in [Sockets -> Seq(Honest)]
      BY DEF StartsOn, UploadMoves, uploadVars, AnyhowInv
<1>3. QED
      BY <1>1, <1>2, SparingStep, HonestStays DEF AnyhowInv

LEMMA ClosesLives ==
  ASSUME AnyhowInv, NEW s \in Sockets, SocketCloses(s)
  PROVE  Lives
<1> DEFINE closed == [js EXCEPT !.ready[s] = "closed"]
<1>1. js' \in {OnClose(closed), OnClose(OnError(closed))}
      BY DEF SocketCloses
<1>2. Tame(js, closed)
      BY SocketTame DEF AnyhowInv
<1> HIDE DEF closed
<1>3. Tame(closed, OnError(closed)) /\ Spares(closed, OnClose(closed))
      BY <1>2, SocketTame DEF Tame, Spares
<1>4. Spares(OnError(closed), OnClose(OnError(closed)))
      BY <1>3, SocketTame DEF Tame, Spares
<1>5. Spares(js, js')
      BY <1>1, <1>2, <1>3, <1>4 DEF Tame, Spares
<1>6. /\ UploadMoves
      /\ toBrowser' = [toBrowser EXCEPT ![s] = <<>>]
      BY DEF SocketCloses, UploadMoves, uploadVars
<1>7. toBrowser' \in [Sockets -> Seq(Honest)]
      BY <1>6 DEF AnyhowInv
<1>8. QED
      BY <1>5, <1>6, <1>7, SparingStep, HonestStays DEF AnyhowInv

LEMMA MessageLives ==
  ASSUME AnyhowInv, NEW s \in Sockets, MessageArrives(s)
  PROVE  Lives
<1> DEFINE q == toBrowser[s]
           H == Honest
<1>1. /\ q # <<>> /\ js' = OnMessage(js, s, Head(q)) /\ toBrowser' = [toBrowser EXCEPT ![s] = Tail(q)]
      /\ UNCHANGED <<upload, stored, accepted>>
      BY DEF MessageArrives, uploadVars
<1>2. UploadMoves /\ StoredInv' /\ OutcomeInv' /\ StoredInv /\ OutcomeInv
      BY <1>1, UploadMovesOn DEF UploadMoves, AnyhowInv
<1>3. q \in Seq(H)
      BY DEF AnyhowInv
<1>4. Head(q) \in H /\ Tail(q) \in Seq(H)
  <2> HIDE DEF q, H
  <2>1. QED
        BY <1>1, <1>3, HeadTailProperties
<1>5. toBrowser' \in [Sockets -> Seq(Honest')]
  <2>1. toBrowser \in [Sockets -> Seq(H)]
        BY DEF AnyhowInv
  <2> HIDE DEF q, H
  <2>2. toBrowser' \in [Sockets -> Seq(H)]
        BY <1>1, <1>4, <2>1
  <2>3. QED
        BY <1>2, <2>2, HonestStays DEF H
<1>6. Answers(js, js', Head(q))
      BY <1>1, MessageAnswers DEF AnyhowInv
<1>7. Wired(js)' /\ TellsTruly /\ (js'.finished => accepted') /\ CancelledIsDiscarded'
      BY <1>1, <1>4, <1>6 DEF AnyhowInv, Answers, Wired, TellsTruly, CancelledIsDiscarded, Honest
<1>8. AnyhowInv'
      BY <1>2, <1>5, <1>7 DEF AnyhowInv
<1>9. QED
      BY <1>2, <1>7, <1>8, MovesLive DEF Lives

LEMMA BrowserLives ==
  ASSUME AnyhowInv, Browser
  PROVE  Lives
<1>1. Wired(js) /\ StoredInv /\ OutcomeInv /\ toBrowser \in [Sockets -> Seq(Honest)]
      BY DEF AnyhowInv
<1>2. ASSUME Spares(js, js'), toBrowser' = toBrowser, UNCHANGED uploadVars
      PROVE  Lives
  <2>1. UploadMoves
        BY <1>2 DEF UploadMoves, uploadVars
  <2>2. QED
        BY <1>1, <1>2, <2>1, SparingStep, HonestStays
<1>3. ASSUME NEW j, j = [js EXCEPT !.conn_retry = FALSE] \/ j = [js EXCEPT !.orphans = @ - 1]
      PROVE  Spares(js, j)
      BY <1>1, <1>3, FieldNames DEF Spares, Wired
<1>4. CASE RetryFires
      BY <1>3, <1>4, StartLives DEF RetryFires, OneTimerLess
<1>5. CASE UserUnpauses
      BY <1>3, <1>5, StartLives DEF UserUnpauses
<1>6. CASE UserCancels
      BY <1>1, <1>2, <1>6, CancelTame DEF UserCancels, connVars, Tame
<1>7. CASE UserPauses
      BY <1>1, <1>2, <1>7, PauseTame DEF UserPauses, connVars, Tame
<1>8. CASE ChunkLoaded
      BY <1>1, <1>2, <1>8, LoadTame DEF ChunkLoaded, connVars, Tame
<1>9. CASE ChunkLoadFails
      BY <1>1, <1>2, <1>9, LoadTame DEF ChunkLoadFails, connVars, Tame
<1>10. ASSUME NEW s \in Sockets, SocketOpens(s)
       PROVE  Lives
  <2> DEFINE j == [js EXCEPT !.ready[s] = "open"]
  <2>1. js' = OnOpen(j) /\ toBrowser' = toBrowser /\ UNCHANGED uploadVars
        BY <1>10 DEF SocketOpens
  <2>2. Tame(js, j)
        BY <1>1, SocketTame
  <2> HIDE DEF j
  <2>3. Tame(j, OnOpen(j))
        BY <2>2, SocketTame DEF Tame, Spares
  <2>4. QED
        BY <1>2, <2>1, <2>2, <2>3 DEF Tame, Spares
<1>11. QED
       BY <1>4, <1>5, <1>6, <1>7, <1>8, <1>9, <1>10, ClosesLives, MessageLives DEF Browser

\* A session may also let go of what it has read.
LEMMA SentSpares ==
  ASSUME Wired(js), NEW q, js' = js \/ js' = [js EXCEPT !.sent = q]
  PROVE  Spares(js, js')
BY FieldNames DEF Spares, Wired

\* What a session tells is true once it has told it.
SaysTrue(s) == \/ toBrowser' = toBrowser
               \/ toBrowser' = Delivered(s, <<>>)
               \/ \E m \in Honest' : toBrowser' = Delivered(s, <<m>>)

LEMMA SessionSaysTrue ==
  ASSUME StoredInv, OutcomeInv, OutcomeInv', NEW s \in Sockets, Session(s)
  PROVE  SaysTrue(s)
<1>1. ASSUME NEW type \in {"chunkAck", "error"}
      PROVE  Msg(type) \in Honest'
      BY DEF Msg, Honest
<1>2. Conf(Len(stored)) \in Honest'
  <2>1. Len(stored) \in Nat
        BY LenProperties DEF StoredInv
  <2>2. QED
        BY <2>1 DEF Conf, Honest
<1>3. ASSUME NEW messages, GoesOn(s, messages, "ack") \/ GoesOn(s, messages, "chunks")
                           \/ Returns(s, messages)
      PROVE  toBrowser' = Delivered(s, messages)
      BY <1>3 DEF GoesOn, Returns
<1>4. CASE ReadsRequest(s)
      BY <1>1, <1>2, <1>3, <1>4 DEF ReadsRequest, SaysTrue
<1>5. CASE ReadsAck(s)
      BY <1>3, <1>5 DEF ReadsAck, SaysTrue
<1>6. CASE ReadsNoAck(s) \/ RefusesChunk(s)
      BY <1>1, <1>3, <1>6 DEF ReadsNoAck, RefusesChunk, SaysTrue
<1>7. CASE StoresChunk(s)
      BY <1>1, <1>3, <1>7 DEF StoresChunk, SaysTrue
<1>8. CASE ReadsCancel(s)
  <2>1. ~AllStored /\ Discard /\ toBrowser' = Delivered(s, <<Msg("cancelAck")>>)
        BY <1>3, <1>8 DEF ReadsCancel, ReadsInLoop, InLoop
  <2>2. upload' = "discarded"
        BY <2>1 DEF Discard, OutcomeInv
  <2>3. Msg("cancelAck") \in Honest'
        BY <2>2 DEF Msg, Honest
  <2>4. QED
        BY <2>1, <2>3 DEF SaysTrue
<1>9. CASE ReadsOn(s)
      BY <1>9 DEF ReadsOn, GoesOn, SaysTrue
<1>10. CASE HandsOver(s)
      BY <1>10 DEF HandsOver, SaysTrue
<1>11. CASE Tells(s)
  <2>1. toBrowser' = Delivered(s, <<FinalMessage>>) /\ accepted' = accepted
        BY <1>3, <1>11 DEF Tells
  <2>2. upload = "finished" => accepted
        BY DEF OutcomeInv
  <2>3. FinalMessage \in Honest'
        BY <2>1, <2>2 DEF FinalMessage, Msg, Honest
  <2>4. QED
        BY <2>1, <2>3 DEF SaysTrue
<1>12. CASE ReadFails(s)
      BY <1>1, <1>3, <1>12 DEF ReadFails, SaysTrue
<1>13. QED
       BY <1>4, <1>5, <1>6, <1>7, <1>8, <1>9, <1>10, <1>11, <1>12 DEF Session

LEMMA SessionLives ==
  ASSUME AnyhowInv, NEW s \in Sockets, Session(s)
  PROVE  Lives
<1>1. PICK next : SessionDoes(s, next)
      BY SessionStep
<1>2. UploadMoves
  <2>1. UploadDoes(s) /\ accepted' = accepted
        BY <1>1, SessionStep DEF SessionDoes
  <2>2. StoresChunk(s) => ~AllStored /\ stored' = Append(stored, Received(s).pos)
        BY DEF StoresChunk, ReadsInLoop, InLoop
  <2>3. QED
        BY <2>1, <2>2 DEF UploadDoes, UploadMoves, UploadTurns
<1>3. StoredInv /\ OutcomeInv /\ OutcomeInv'
      BY <1>2, UploadMovesOn DEF AnyhowInv
<1>4. Spares(js, js')
      BY <1>1, SentSpares DEF SessionDoes, AnyhowInv
<1> DEFINE H == Honest'
<1>5. toBrowser \in [Sockets -> Seq(H)]
      BY <1>2, HonestStays DEF AnyhowInv
<1>6. SaysTrue(s)
      BY <1>3, SessionSaysTrue
<1>7. toBrowser' = toBrowser \/ \E q \in Seq(H) : toBrowser' = Delivered(s, q)
  <2>1. <<>> \in Seq(H) /\ \A m \in H : <<m>> \in Seq(H)
        OBVIOUS
  <2>2. QED
        BY <1>6, <2>1 DEF SaysTrue
<1> HIDE DEF H
<1>8. toBrowser' \in [Sockets -> Seq(H)]
  <2>1. \A q \in Seq(H) : toBrowser[s] \o q \in Seq(H)
        BY <1>5, ConcatProperties
  <2>2. QED
        BY <1>5, <1>7, <2>1 DEF Delivered
<1>9. QED
      BY <1>2, <1>4, <1>8, SparingStep DEF H

LEMMA LossLives ==
  ASSUME AnyhowInv, NEW s \in Sockets, ConnectionLost(s)
  PROVE  Lives
<1>1. UploadMoves /\ toBrowser' = [toBrowser EXCEPT ![s] = <<>>]
      BY DEF ConnectionLost, UploadMoves, uploadVars
<1>2. \E q : js' = js \/ js' = [js EXCEPT !.sent = q]
      BY DEF ConnectionLost
<1>3. Spares(js, js')
      BY <1>2, SentSpares DEF AnyhowInv
<1>4. toBrowser' \in [Sockets -> Seq(Honest)]
      BY <1>1 DEF AnyhowInv
<1>5. QED
      BY <1>1, <1>3, <1>4, SparingStep, HonestStays DEF AnyhowInv

LEMMA UploadLives ==
  ASSUME AnyhowInv, HandoverEnds \/ UploadExpires \/ ServerRestarts
  PROVE  Lives
<1>1. UploadMoves
  <2>1. CASE HandoverEnds
        BY <2>1 DEF HandoverEnds, UploadMoves, UploadTurns
  <2>2. CASE UploadExpires
        BY <2>2 DEF UploadExpires, UploadMoves, UploadTurns
  <2>3. CASE ServerRestarts
        BY <2>3 DEF ServerRestarts, UploadMoves, UploadTurns
  <2>4. QED
        BY <2>1, <2>2, <2>3
<1>2. \E q : js' = js \/ js' = [js EXCEPT !.sent = q]
      BY DEF HandoverEnds, UploadExpires, ServerRestarts
<1>3. Spares(js, js')
      BY <1>2, SentSpares DEF AnyhowInv
<1> DEFINE H == Honest
<1>4. toBrowser \in [Sockets -> Seq(H)] /\ <<>> \in Seq(H)
      BY DEF AnyhowInv
<1> HIDE DEF H
<1>5. toBrowser' \in [Sockets -> Seq(H)]
      BY <1>4 DEF HandoverEnds, UploadExpires, ServerRestarts, connVars
<1>6. QED
      BY <1>1, <1>3, <1>5, SparingStep, HonestStays DEF AnyhowInv, H

LEMMA AnyhowStep ==
  ASSUME AnyhowInv, [TransferNext]_transferVars
  PROVE  Lives
<1>1. CASE TransferNext
      BY <1>1, BrowserLives, LossLives, SessionLives, UploadLives DEF TransferNext
<1>2. CASE UNCHANGED transferVars
  <2>1. UNCHANGED <<js, toBrowser, upload, stored, accepted>>
        BY <1>2 DEF transferVars, connVars, uploadVars
  <2>2. UploadMoves /\ Wired(js) /\ toBrowser' \in [Sockets -> Seq(Honest)]
        BY <2>1 DEF UploadMoves, AnyhowInv
  <2>3. Spares(js, js')
        BY <2>1, <2>2 DEF Spares
  <2>4. QED
        BY <2>2, <2>3, SparingStep, HonestStays DEF AnyhowInv
<1>3. QED
      BY <1>1, <1>2

LEMMA AnyhowInvInit ==
  ASSUME TransferInit
  PROVE  AnyhowInv /\ Life!LifeInit
<1>1. PICK s \in Sockets : js = Start(Unused, s)
      BY DEF TransferInit
<1>2. Wired(Unused) /\ ~Unused.finished /\ ~Unused.cancelled
      BY DEF Wired, JsFieldNames, Unused, Usual
<1>3. Wired(js) /\ ~js.finished /\ CancelledIsDiscarded
      BY <1>1, <1>2, StartSpares DEF Spares, CancelledIsDiscarded
<1>4. toBrowser \in [Sockets -> Seq(Honest)]
  <2> DEFINE H == Honest
  <2>1. <<>> \in Seq(H) /\ toBrowser = [t \in Sockets |-> <<>>]
        BY DEF TransferInit
  <2> HIDE DEF H
  <2>2. QED
        BY <2>1 DEF H
<1>5. StoredInv /\ Len(stored) = 0
  <2>1. stored = <<>> /\ stored \in Seq({})
        BY DEF TransferInit
  <2>2. QED
        BY <2>1, BrowserAssumption DEF StoredInv
<1>6. OutcomeInv /\ Phase = "open"
      BY DEF TransferInit, OutcomeInv, Phase
<1>7. QED
      BY <1>3, <1>4, <1>5, <1>6, BrowserAssumption DEF AnyhowInv, Life!LifeInit

LEMMA TransferIsAnyhow == TransferSpec => []AnyhowInv
<1>1. AnyhowInv /\ [TransferNext]_transferVars => AnyhowInv'
      BY AnyhowStep DEF Lives
<1>2. QED
      BY <1>1, AnyhowInvInit, PTL DEF TransferSpec

-----------------------------------------------------------------------------
(* The number of chunks, or of their acks, among messages.                   *)

ChunkTypes == {"chunk", "chunkAck"}
Places(q) == {i \in DOMAIN q : q[i].type \in ChunkTypes}

LEMMA ChunksPlaced ==
  ASSUME NEW S, NEW q \in Seq(S)
  PROVE  /\ Places(q) \subseteq 1..Len(q) /\ IsFiniteSet(Places(q))
         /\ Chunks(q) = Cardinality(Places(q)) /\ Chunks(q) \in Nat
<1>1. DOMAIN q = 1..Len(q) /\ Len(q) \in Nat
      BY LenProperties
<1>2. IsFiniteSet(1..Len(q))
      BY <1>1, FS_Interval
<1>3. Places(q) \subseteq 1..Len(q)
      BY <1>1 DEF Places
<1>4. IsFiniteSet(Places(q))
      BY <1>2, <1>3, FS_Subset
<1>5. Chunks(q) = Cardinality(Places(q))
      BY DEF Chunks, Places, ChunkTypes
<1>6. QED
      BY <1>3, <1>4, <1>5, FS_CardinalityType

LEMMA ChunksNone == Chunks(<<>>) = 0
<1>1. Places(<<>>) = {}
      BY DEF Places
<1>2. Chunks(<<>>) = Cardinality(Places(<<>>))
      BY DEF Chunks, Places, ChunkTypes
<1>3. QED
      BY <1>1, <1>2, FS_EmptySet

LEMMA ChunksAppend ==
  ASSUME NEW S, NEW q \in Seq(S), NEW m \in S
  PROVE  Chunks(Append(q, m)) = IF m.type \in ChunkTypes THEN Chunks(q) + 1 ELSE Chunks(q)
<1> DEFINE n == Len(q) + 1
           r == Append(q, m)
<1>1. /\ r \in Seq(S) /\ Len(r) = n /\ Len(q) \in Nat /\ r[n] = m
      /\ \A i \in 1..Len(q) : r[i] = q[i]
      /\ DOMAIN r = 1..n /\ DOMAIN q = 1..Len(q)
      BY AppendProperties, LenProperties
<1>2. Places(r) = IF m.type \in ChunkTypes THEN Places(q) \cup {n} ELSE Places(q)
  <2> HIDE DEF r
  <2>1. \A i : i \in 1..n <=> i \in 1..Len(q) \/ i = n
        BY <1>1
  <2>2. QED
        BY <1>1, <2>1 DEF Places
<1>3. n \notin Places(q) /\ IsFiniteSet(Places(q))
      BY <1>1, ChunksPlaced
<1>4. Cardinality(Places(q) \cup {n}) = Cardinality(Places(q)) + 1
      BY <1>3, FS_AddElement
<1>5. Chunks(r) = Cardinality(Places(r)) /\ Chunks(q) = Cardinality(Places(q))
      BY <1>1, ChunksPlaced
<1>6. QED
      BY <1>2, <1>4, <1>5

LEMMA ChunksTail ==
  ASSUME NEW S, NEW q \in Seq(S), q # <<>>
  PROVE  /\ Tail(q) \in Seq(S)
         /\ Chunks(q) = IF Head(q).type \in ChunkTypes THEN Chunks(Tail(q)) + 1
                                                       ELSE Chunks(Tail(q))
<1> DEFINE r == Tail(q)
           P == Places(q) \ {1}
           f == [i \in P |-> i - 1]
<1>1. /\ r \in Seq(S) /\ Len(r) = Len(q) - 1 /\ Len(q) \in Nat \ {0} /\ Head(q) = q[1]
      /\ \A i \in 1..Len(r) : r[i] = q[i + 1]
      /\ DOMAIN r = 1..Len(r) /\ DOMAIN q = 1..Len(q)
      BY HeadTailProperties, LenProperties, EmptySeq
<1> HIDE DEF r
<1>2. IsFiniteSet(P) /\ IsFiniteSet(Places(q))
      BY ChunksPlaced, FS_RemoveElement
<1>3. f \in Bijection(P, Places(r))
  <2>1. \A i \in P : i \in 2..Len(q) /\ q[i].type \in ChunkTypes
        BY <1>1 DEF Places
  <2>2. \A i \in P : i - 1 \in Places(r)
    <3>1. \A i \in P : i - 1 \in 1..Len(r) /\ r[i - 1] = q[(i - 1) + 1] /\ (i - 1) + 1 = i
          BY <1>1, <2>1
    <3>2. QED
          BY <1>1, <2>1, <3>1 DEF Places
  <2>3. \A k \in Places(r) : k + 1 \in P /\ f[k + 1] = k
    <3>1. \A k \in Places(r) : k \in 1..Len(r) /\ k + 1 \in 2..Len(q) /\ r[k] = q[k + 1]
          BY <1>1 DEF Places
    <3>2. \A k \in Places(r) : k + 1 \in P
          BY <1>1, <3>1 DEF Places
    <3>3. QED
          BY <3>1, <3>2
  <2>4. f \in [P -> Places(r)]
        BY <2>2
  <2>5. \A h, i \in P : f[h] = f[i] => h = i
        BY <2>1
  <2>6. \A k \in Places(r) : \E i \in P : f[i] = k
        BY <2>3
  <2> HIDE DEF f, P
  <2>7. QED
        BY <2>4, <2>5, <2>6 DEF Bijection, Injection, Surjection, IsInjective
<1>4. Cardinality(Places(r)) = Cardinality(P)
      BY <1>2, <1>3, FS_Bijection DEF ExistsBijection
<1>5. 1 \in Places(q) <=> Head(q).type \in ChunkTypes
      BY <1>1 DEF Places
<1>6. Cardinality(P) = IF 1 \in Places(q) THEN Cardinality(Places(q)) - 1
                                          ELSE Cardinality(Places(q))
      BY <1>2, FS_RemoveElement
<1> HIDE DEF P
<1>7. /\ Chunks(r) = Cardinality(Places(r)) /\ Chunks(q) = Cardinality(Places(q))
      /\ Chunks(r) \in Nat /\ Chunks(q) \in Nat
      BY <1>1, ChunksPlaced
<1>8. Chunks(q) = IF Head(q).type \in ChunkTypes THEN Chunks(r) + 1 ELSE Chunks(r)
      BY <1>4, <1>5, <1>6, <1>7
<1>9. QED
      BY <1>1, <1>8 DEF r

LEMMA ChunksPrefix ==
  ASSUME NEW S, NEW q \in Seq(S), NEW n \in 0..Len(q)
  PROVE  /\ SubSeq(q, 1, n) \in Seq(S)
         /\ Chunks(SubSeq(q, 1, n)) <= Chunks(q)
<1> DEFINE r == SubSeq(q, 1, n)
<1>1. /\ r \in Seq(S) /\ Len(r) = n /\ Len(q) \in Nat
      /\ \A i \in 1..n : r[i] = q[i]
      /\ DOMAIN r = 1..Len(r) /\ DOMAIN q = 1..Len(q)
  <2>1. Len(q) \in Nat /\ n \in Int /\ \A i \in 1..n : q[i] \in S
        BY LenProperties, ElementOfSeq
  <2>2. r \in Seq(S) /\ Len(r) = n /\ \A i \in 1..n : r[i] = q[i]
        BY <2>1, SubSeqProperties
  <2>3. QED
        BY <2>1, <2>2, LenProperties
<1> HIDE DEF r
<1>2. Places(r) \subseteq Places(q)
      BY <1>1 DEF Places
<1>3. IsFiniteSet(Places(q))
      BY ChunksPlaced
<1>4. Cardinality(Places(r)) <= Cardinality(Places(q))
      BY <1>2, <1>3, FS_Subset
<1>5. Chunks(r) = Cardinality(Places(r)) /\ Chunks(q) = Cardinality(Places(q))
      BY <1>1, ChunksPlaced
<1>6. QED
      BY <1>1, <1>4, <1>5 DEF r

-----------------------------------------------------------------------------
(* The window.                                                               *)

Messages == [type : {"req", "ack", "pause", "cancel", "chunk"}, pos : Int]

FromServer == [type : {"conf", "chunkAck", "cancelAck", "allDone", "error"}, pos : Nat]

Framed(j) ==
  /\ DOMAIN j = JsFieldNames
  /\ j.ws \in Sockets \cup {NoSocket}
  /\ j.ready \in [Sockets -> Ready]
  /\ j.sent \in [Sockets -> Seq(Messages)]
  /\ j.reader \in Int /\ j.bytes_tx \in Int /\ j.bytes_acked \in Int /\ j.chunks_ahead \in Int

\* Chunks that are sent on a socket, or acknowledged, and that the library still
\* counts as ahead.
UnderWay(j, tb, s) == Chunks(j.sent[s]) + Chunks(tb[s])

WindowAt(j, tb) ==
  /\ j.chunks_ahead <= SendAhead
  /\ j.reader # NotLoading => WindowOpen(j)
  /\ \A s \in Sockets :
       /\ UnderWay(j, tb, s) <= SendAhead
       /\ j.ready[s] # "closed" => UnderWay(j, tb, s) <= j.chunks_ahead

\* A pending timer stays one, or is stopped; and while there is none in ws, the
\* upload does not end without stopping it.
KeepsTimer(j, k) ==
  k.conn_retry => /\ j.conn_retry
                  /\ k.finished \/ k.cancelled => j.finished \/ j.cancelled \/ j.ws # NoSocket

\* A call that neither starts the library nor lets go of a closed socket.
Settled(j, k) ==
  /\ Framed(k) /\ k.ws = j.ws /\ k.orphans = j.orphans
  /\ \A s \in Sockets : k.ready[s] = "closed" <=> j.ready[s] = "closed"
  /\ KeepsTimer(j, k)

\* Nor does it send a chunk or count one, and it loads one only if there is room.
Steady(j, k) ==
  /\ Settled(j, k)
  /\ k.chunks_ahead = j.chunks_ahead
  /\ \A s \in Sockets : Chunks(k.sent[s]) = Chunks(j.sent[s])
  /\ k.reader # NotLoading => j.reader # NotLoading \/ WindowOpen(j)

LEMMA SettledTwice ==
  ASSUME NEW j, NEW k, NEW l, Settled(j, k), Settled(k, l)
  PROVE  Settled(j, l)
BY DEF Settled, KeepsTimer

LEMMA SteadyTwice ==
  ASSUME NEW j, NEW k, NEW l, Steady(j, k), Steady(k, l)
  PROVE  Steady(j, l)
BY SettledTwice DEF Steady, WindowOpen

LEMMA WindowStays ==
  ASSUME NEW j, NEW k, NEW tb, WindowAt(j, tb), Steady(j, k)
  PROVE  WindowAt(k, tb)
<1>1. /\ k.chunks_ahead = j.chunks_ahead
      /\ k.reader # NotLoading => WindowOpen(j)
      /\ WindowOpen(j) => WindowOpen(k)
      BY DEF Steady, WindowAt, WindowOpen
<1>2. ASSUME NEW s \in Sockets
      PROVE  /\ UnderWay(k, tb, s) = UnderWay(j, tb, s)
             /\ k.ready[s] # "closed" => j.ready[s] # "closed"
      BY DEF Steady, Settled, UnderWay
<1>3. QED
      BY <1>1, <1>2 DEF WindowAt

\* What touches neither the sockets nor the window.
Aside(j, k) == /\ DOMAIN k = JsFieldNames
               /\ k.ws = j.ws /\ k.orphans = j.orphans /\ k.ready = j.ready /\ k.sent = j.sent
               /\ k.chunks_ahead = j.chunks_ahead /\ k.reader \in {j.reader, NotLoading}
               /\ k.bytes_tx \in Int /\ k.bytes_acked \in Int
               /\ KeepsTimer(j, k)

LEMMA AsideIsSteady ==
  ASSUME NEW j, NEW k, Framed(j), Aside(j, k)
  PROVE  Steady(j, k)
BY DEF Aside, Steady, Settled, Framed, NotLoading

LEMMA CallsSteady ==
  ASSUME NEW j, Framed(j)
  PROVE  /\ \A type \in {"req", "ack", "pause", "cancel"} : Steady(j, Send(j, Msg(type)))
         /\ Steady(j, Close(j))
         /\ \A h : Steady(j, Listen(j, h))
         /\ Steady(j, TryLoadAndSendFileChunk(j))
<1>1. ASSUME NEW type \in {"req", "ack", "pause", "cancel"}
      PROVE  Steady(j, Send(j, Msg(type)))
  <2> DEFINE w == j.ws
             q == j.sent[w]
             m == Msg(type)
             k == [j EXCEPT !.sent[w] = Append(q, m)]
  <2>1. m \in Messages /\ m.type \notin ChunkTypes
        BY DEF Msg, Messages, ChunkTypes
  <2>2. CASE IsOpen(j) /\ link[w] = "up"
    <3>1. Send(j, m) = k /\ w \in Sockets
          BY <2>2 DEF Send, IsOpen, Framed
    <3>2. q \in Seq(Messages)
          BY <3>1 DEF Framed
    <3> HIDE DEF m
    <3>3. Append(q, m) \in Seq(Messages) /\ Chunks(Append(q, m)) = Chunks(q)
          BY <2>1, <3>2, ChunksAppend, AppendProperties
    <3>4. /\ DOMAIN k = JsFieldNames /\ k.ws = j.ws /\ k.ready = j.ready
          /\ k.sent = [j.sent EXCEPT ![w] = Append(q, m)]
          /\ k.reader = j.reader /\ k.bytes_tx = j.bytes_tx /\ k.bytes_acked = j.bytes_acked
          /\ k.chunks_ahead = j.chunks_ahead
          /\ k.orphans = j.orphans /\ k.conn_retry = j.conn_retry
          /\ k.finished = j.finished /\ k.cancelled = j.cancelled
          BY FieldNames DEF Framed
    <3> HIDE DEF k, w
    <3>5. /\ k.sent \in [Sockets -> Seq(Messages)]
          /\ \A s \in Sockets : Chunks(k.sent[s]) = Chunks(j.sent[s])
          BY <3>1, <3>3, <3>4 DEF Framed
    <3>6. Steady(j, k)
          BY <3>4, <3>5 DEF Steady, Settled, KeepsTimer, Framed
    <3>7. QED
          BY <3>1, <3>6 DEF m
  <2>3. CASE ~(IsOpen(j) /\ link[w] = "up")
        BY <2>3 DEF Send, Steady, Settled, KeepsTimer
  <2>4. QED
        BY <2>2, <2>3
<1>2. Steady(j, Close(j))
      BY FieldNames DEF Close, Steady, Settled, KeepsTimer, Framed, Ready
<1>3. ASSUME NEW h
      PROVE  Steady(j, Listen(j, h))
      BY FieldNames DEF Listen, Steady, Settled, KeepsTimer, Framed
<1>4. Steady(j, TryLoadAndSendFileChunk(j))
      BY FieldNames DEF TryLoadAndSendFileChunk, Steady, Settled, KeepsTimer, Framed
<1>5. QED
      BY <1>1, <1>2, <1>3, <1>4

LEMMA CancelSteady ==
  ASSUME NEW j, Framed(j)
  PROVE  Steady(j, Cancel(j))
<1> DEFINE k == [j EXCEPT !.reader = NotLoading, !.can_cancel = FALSE, !.can_pause = FALSE,
                          !.conn_retry = FALSE]
           l == Send(k, Msg("cancel"))
           n == [l EXCEPT !.cancelling = TRUE, !.usual[j.ws] = j.onmessage[j.ws]]
           z == [k EXCEPT !.cancelled = TRUE, !.error = TRUE]
<1>1. Cancel(j) \in {j, Listen(n, j.ws), z}
      BY DEF Cancel
<1>2. Aside(j, k) /\ k.conn_retry = FALSE
      BY FieldNames DEF Aside, Framed, KeepsTimer
<1> HIDE DEF k
<1>3. Steady(j, k)
      BY <1>2, AsideIsSteady
<1>4. Steady(k, l)
      BY <1>3, CallsSteady DEF Steady, Settled
<1>5. Aside(k, z)
      BY <1>2, <1>3, FieldNames DEF Aside, Framed, Steady, Settled, KeepsTimer
<1> HIDE DEF l, z
<1>6. Aside(l, n)
      BY <1>4, FieldNames DEF Aside, Framed, Steady, Settled, KeepsTimer
<1> HIDE DEF n
<1>7. Steady(k, z) /\ Steady(l, n)
      BY <1>3, <1>4, <1>5, <1>6, AsideIsSteady DEF Steady, Settled
<1>8. Steady(n, Listen(n, j.ws))
      BY <1>7, CallsSteady DEF Steady, Settled
<1>9. Steady(j, z) /\ Steady(j, Listen(n, j.ws))
      BY <1>3, <1>4, <1>7, <1>8, SteadyTwice
<1>10. Steady(j, j)
       BY DEF Steady, Settled, KeepsTimer
<1>11. QED
       BY <1>1, <1>9, <1>10

LEMMA UserSteady ==
  ASSUME NEW j, Framed(j)
  PROVE  Steady(j, Pause(j)) /\ Steady(j, OnLoadError(j)) /\ Steady(j, ServerError(j))
<1>1. Steady(j, Pause(j))
  <2> DEFINE k == [j EXCEPT !.reader = NotLoading, !.conn_retry = FALSE,
                            !.paused = TRUE, !.can_cancel = FALSE]
             l == Send(k, Msg("pause"))
  <2>1. Pause(j) \in {Close(l), k}
        BY DEF Pause
  <2>2. Aside(j, k)
        BY FieldNames DEF Aside, Framed, KeepsTimer
  <2> HIDE DEF k
  <2>3. Steady(j, k)
        BY <2>2, AsideIsSteady
  <2>4. Steady(k, l)
        BY <2>3, CallsSteady DEF Steady, Settled
  <2> HIDE DEF l
  <2>5. Steady(l, Close(l))
        BY <2>4, CallsSteady DEF Steady, Settled
  <2>6. QED
        BY <2>1, <2>3, <2>4, <2>5, SteadyTwice
<1>2. ASSUME NEW k, k = [j EXCEPT !.reader = NotLoading] \/ k = [j EXCEPT !.error = TRUE]
      PROVE  Steady(j, Cancel(k))
  <2>1. Aside(j, k)
        BY <1>2, FieldNames DEF Aside, Framed, KeepsTimer
  <2>2. Steady(j, k)
        BY <2>1, AsideIsSteady
  <2>3. Steady(k, Cancel(k))
        BY <2>2, CancelSteady DEF Steady, Settled
  <2>4. QED
        BY <2>2, <2>3, SteadyTwice
<1>3. QED
      BY <1>1, <1>2 DEF OnLoadError, ServerError

LEMMA SocketSteady ==
  ASSUME NEW j, Framed(j)
  PROVE  /\ \A s : j.ready[s] # "closed" => Steady(j, [j EXCEPT !.ready[s] = "open"])
         /\ Steady(j, OnOpen(j)) /\ Steady(j, OnError(j))
<1>1. ASSUME NEW s, j.ready[s] # "closed"
      PROVE  Steady(j, [j EXCEPT !.ready[s] = "open"])
      BY <1>1, FieldNames DEF Steady, Settled, KeepsTimer, Framed, Ready
<1>2. Steady(j, OnOpen(j))
  <2> DEFINE k == [j EXCEPT !.connected = TRUE]
             l == Send(k, Msg("req"))
  <2>1. OnOpen(j) \in {k, Listen(l, "conf")}
        BY DEF OnOpen
  <2>2. Aside(j, k)
        BY FieldNames DEF Aside, Framed, KeepsTimer
  <2> HIDE DEF k
  <2>3. Steady(j, k)
        BY <2>2, AsideIsSteady
  <2>4. Steady(k, l)
        BY <2>3, CallsSteady DEF Steady, Settled
  <2> HIDE DEF l
  <2>5. Steady(l, Listen(l, "conf"))
        BY <2>4, CallsSteady DEF Steady, Settled
  <2>6. QED
        BY <2>1, <2>3, <2>4, <2>5, SteadyTwice
<1>3. Steady(j, OnError(j))
      BY CallsSteady DEF OnError
<1>4. QED
      BY <1>1, <1>2, <1>3

LEMMA ConfSteady ==
  ASSUME NEW j, Framed(j), NEW m, m.pos \in Int
  PROVE  Steady(j, OnConf(j, m))
<1> DEFINE k == [j EXCEPT !.bytes_acked = m.pos, !.bytes_tx = ResumeAt(j, m.pos)]
           l == Send(k, Msg("ack"))
           a == [l EXCEPT !.can_cancel = FALSE, !.can_pause = FALSE]
           b == [l EXCEPT !.can_pause = TRUE]
           c == Listen(b, "acks")
<1>1. OnConf(j, m) \in {ServerError(j), j, k, Listen(a, "final"), TryLoadAndSendFileChunk(c)}
      BY DEF OnConf
<1>2. Aside(j, k)
      BY FieldNames DEF Aside, Framed, ResumeAt, KeepsTimer
<1> HIDE DEF k
<1>3. Steady(j, k)
      BY <1>2, AsideIsSteady
<1>4. Steady(k, l)
      BY <1>3, CallsSteady DEF Steady, Settled
<1> HIDE DEF l
<1>5. Aside(l, a) /\ Aside(l, b)
      BY <1>4, FieldNames DEF Aside, Framed, Steady, Settled, KeepsTimer
<1> HIDE DEF a, b
<1>6. Steady(l, a) /\ Steady(l, b)
      BY <1>4, <1>5, AsideIsSteady DEF Steady, Settled
<1>7. Steady(a, Listen(a, "final")) /\ Steady(b, c)
  <2>1. Framed(a) /\ Framed(b)
        BY <1>6 DEF Steady, Settled
  <2>2. QED
        BY <2>1, CallsSteady
<1> HIDE DEF c
<1>8. Steady(c, TryLoadAndSendFileChunk(c))
  <2>1. Framed(c)
        BY <1>7 DEF Steady, Settled
  <2>2. QED
        BY <2>1, CallsSteady
<1>9. Steady(j, l)
      BY <1>3, <1>4, SteadyTwice
<1>10. Steady(j, Listen(a, "final")) /\ Steady(j, TryLoadAndSendFileChunk(c))
       BY <1>6, <1>7, <1>8, <1>9, SteadyTwice
<1>11. Steady(j, j)
       BY DEF Steady, Settled, KeepsTimer
<1>12. QED
       BY <1>1, <1>3, <1>10, <1>11, UserSteady

LEMMA FinalSteady ==
  ASSUME NEW j, Framed(j), j.ws # NoSocket, NEW m
  PROVE  Steady(j, OnFinal(j, m))
<1>1. ASSUME NEW k, k = [j EXCEPT !.finished = TRUE] \/ k = [j EXCEPT !.error = TRUE]
      PROVE  Steady(j, Close(k))
  <2>1. Aside(j, k)
        BY <1>1, FieldNames DEF Aside, Framed, KeepsTimer
  <2>2. Steady(j, k)
        BY <2>1, AsideIsSteady
  <2>3. Steady(k, Close(k))
        BY <2>2, CallsSteady DEF Steady, Settled
  <2>4. QED
        BY <2>2, <2>3, SteadyTwice
<1>2. Steady(j, j)
      BY DEF Steady, Settled, KeepsTimer
<1>3. QED
      BY <1>1, <1>2 DEF OnFinal

\* An ack makes room for another chunk.
Acked(j) == [j EXCEPT !.bytes_acked = @ + 1, !.chunks_ahead = @ - 1]

AnswersInWindow(j, k, m) ==
  Steady(j, k) \/ (m.type = "chunkAck" /\ Steady(Acked(j), k))

LEMMA AckedFramed ==
  ASSUME NEW j, Framed(j)
  PROVE  /\ Settled(j, Acked(j)) /\ Framed(Acked(j)) /\ Acked(j).sent = j.sent /\ Acked(j).ready = j.ready
         /\ Acked(j).reader = j.reader /\ Acked(j).chunks_ahead = j.chunks_ahead - 1
BY FieldNames DEF Acked, Framed, Settled, KeepsTimer

LEMMA UsualInWindow ==
  ASSUME NEW j, Framed(j), j.ws # NoSocket, NEW m, m.pos \in Int, NEW handler \in Usual
  PROVE  AnswersInWindow(j, UsualHandler(j, handler, m), m)
<1>1. Steady(j, j)
      BY DEF Steady, Settled, KeepsTimer
<1>2. AnswersInWindow(j, OnChunkAck(j, m), m)
  <2> DEFINE k == Acked(j)
  <2>1. \/ OnChunkAck(j, m) \in {ServerError(j), j}
        \/ /\ OnChunkAck(j, m) \in {Listen(k, "final"), TryLoadAndSendFileChunk(k)}
           /\ m.type = "chunkAck"
        BY DEF OnChunkAck, Acked
  <2>2. Steady(k, Listen(k, "final")) /\ Steady(k, TryLoadAndSendFileChunk(k))
        BY AckedFramed, CallsSteady
  <2>3. QED
        BY <1>1, <2>1, <2>2, UserSteady DEF AnswersInWindow
<1>3. AnswersInWindow(j, OnConf(j, m), m) /\ AnswersInWindow(j, OnFinal(j, m), m)
      BY ConfSteady, FinalSteady DEF AnswersInWindow
<1>4. UsualHandler(j, handler, m) \in {OnConf(j, m), OnChunkAck(j, m), OnFinal(j, m), j}
      BY DEF UsualHandler, Usual
<1>5. QED
      BY <1>1, <1>2, <1>3, <1>4 DEF AnswersInWindow

LEMMA CancelledSteady ==
  ASSUME NEW j, Framed(j), j.ws # NoSocket
  PROVE  Steady(j, Close([j EXCEPT !.cancelled = TRUE, !.cancelling = FALSE, !.can_cancel = FALSE]))
<1> DEFINE a == [j EXCEPT !.cancelled = TRUE, !.cancelling = FALSE, !.can_cancel = FALSE]
<1>1. Aside(j, a)
      BY FieldNames DEF Aside, Framed, KeepsTimer
<1> HIDE DEF a
<1>2. Steady(j, a)
      BY <1>1, AsideIsSteady
<1>3. Steady(a, Close(a))
      BY <1>2, CallsSteady DEF Steady, Settled
<1>4. Steady(j, Close(a))
      BY <1>2, <1>3, SteadyTwice
<1>5. QED
      BY <1>4 DEF a

LEMMA MessageInWindow ==
  ASSUME NEW j, Framed(j), j.ws # NoSocket, NEW m, m.pos \in Int, NEW s,
         j.onmessage[s] \in Usual \cup Sockets
  PROVE  AnswersInWindow(j, OnMessage(j, s, m), m)
<1>1. CASE j.onmessage[s] \notin Sockets
      BY <1>1, UsualInWindow DEF OnMessage
<1>2. CASE j.onmessage[s] \in Sockets
  <2> DEFINE c == j.onmessage[s]
             b == CHOOSE b \in Innermost(j, c) : TRUE
             k == UsualHandler(j, j.usual[b], m)
             a == [j EXCEPT !.cancelled = TRUE, !.cancelling = FALSE, !.can_cancel = FALSE]
             u == IF k.onmessage[k.ws] = b THEN k.usual[b] ELSE k.onmessage[k.ws]
             r == [k EXCEPT !.usual[b] = u, !.onmessage[k.ws] = c]
  <2>1. CASE Innermost(j, c) = {}
    <3>1. OnMessage(j, s, m) \in {Close(a), j}
          BY <1>2, <2>1 DEF OnMessage, OnCancelAck
    <3>2. Steady(j, j)
          BY DEF Steady, Settled, KeepsTimer
    <3>3. QED
          BY <3>1, <3>2, CancelledSteady DEF AnswersInWindow
  <2>2. CASE Innermost(j, c) # {}
    <3>1. OnMessage(j, s, m) \in {Close(a), r, k}
      <4>1. OnMessage(j, s, m) = OnCancelAck(j, c, m)
            BY <1>2 DEF OnMessage
      <4> HIDE DEF c
      <4>2. OnCancelAck(j, c, m) \in {Close(a), r, k}
            BY <2>2 DEF OnCancelAck
      <4>3. QED
            BY <4>1, <4>2
    <3>2. j.usual[b] \in Usual
      <4>1. b \in Innermost(j, c)
            BY <2>2
      <4> HIDE DEF b
      <4>2. QED
            BY <4>1 DEF Innermost
    <3>3. AnswersInWindow(j, k, m)
          BY <3>2, UsualInWindow
    <3> HIDE DEF a, b, k, u
    <3>4. Steady(k, r)
      <4>1. Framed(k)
            BY <3>3 DEF AnswersInWindow, Steady, Settled
      <4>2. Aside(k, r)
            BY <4>1, FieldNames DEF Aside, Framed, KeepsTimer
      <4> HIDE DEF r
      <4>3. QED
            BY <4>1, <4>2, AsideIsSteady
    <3> HIDE DEF r
    <3>5. AnswersInWindow(j, r, m)
          BY <3>3, <3>4, SteadyTwice DEF AnswersInWindow
    <3>6. QED
          BY <3>1, <3>3, <3>5, CancelledSteady DEF a, AnswersInWindow
  <2>3. QED
        BY <2>1, <2>2
<1>3. QED
      BY <1>1, <1>2

\* Chunks under way are counted by a natural number.
LEMMA UnderWayNat ==
  ASSUME NEW j, Framed(j), NEW tb \in [Sockets -> Seq(FromServer)], NEW s \in Sockets
  PROVE  /\ Chunks(j.sent[s]) \in Nat /\ Chunks(tb[s]) \in Nat /\ UnderWay(j, tb, s) \in Nat
<1>1. j.sent[s] \in Seq(Messages) /\ tb[s] \in Seq(FromServer)
      BY DEF Framed
<1>2. Chunks(j.sent[s]) \in Nat /\ Chunks(tb[s]) \in Nat
      BY <1>1, ChunksPlaced
<1>3. QED
      BY <1>2 DEF UnderWay

SameTimers(j, k) == /\ k.orphans = j.orphans /\ k.conn_retry = j.conn_retry
                    /\ k.finished = j.finished /\ k.cancelled = j.cancelled

\* start takes a free slot and opens the window.
Opened(j, k, s) ==
  /\ Framed(k) /\ k.ws = s /\ SameTimers(j, k)
  /\ k.ready = [j.ready EXCEPT ![s] = "connecting"]
  /\ k.sent = [j.sent EXCEPT ![s] = <<>>]
  /\ k.reader = j.reader /\ k.chunks_ahead = 0

LEMMA StartSets ==
  ASSUME NEW j, Framed(j), NEW s \in Sockets
  PROVE  Opened(j, Start(j, s), s)
<1> DEFINE a == [j EXCEPT !.ws = s, !.ready[s] = "connecting", !.onmessage[s] = "none"]
           b == [a EXCEPT !.usual[s] = "none", !.sent[s] = <<>>, !.bytes_tx = j.bytes_acked]
           c == [b EXCEPT !.chunks_ahead = 0, !.connected = FALSE,
                          !.paused = FALSE, !.can_cancel = TRUE, !.can_pause = FALSE]
           Rest(l) == /\ DOMAIN l = JsFieldNames /\ l.ws = s
                      /\ SameTimers(j, l)
                      /\ l.ready = [j.ready EXCEPT ![s] = "connecting"]
                      /\ l.reader = j.reader /\ l.bytes_acked = j.bytes_acked
<1>1. Start(j, s) = c
      BY DEF Start, WindowAtStart
<1>2. Rest(a) /\ a.sent = j.sent /\ a.bytes_tx = j.bytes_tx /\ a.chunks_ahead = j.chunks_ahead
      BY FieldNames DEF Framed, SameTimers
<1> HIDE DEF a
<1>3. /\ Rest(b) /\ b.sent = [j.sent EXCEPT ![s] = <<>>] /\ b.bytes_tx = j.bytes_acked
      /\ b.chunks_ahead = j.chunks_ahead
      BY <1>2, FieldNames DEF SameTimers
<1> HIDE DEF b
<1>4. /\ Rest(c) /\ c.sent = [j.sent EXCEPT ![s] = <<>>] /\ c.bytes_tx = j.bytes_acked
      /\ c.chunks_ahead = 0
      BY <1>3, FieldNames DEF SameTimers
<1> HIDE DEF c
<1>5. /\ c.sent \in [Sockets -> Seq(Messages)] /\ c.ready \in [Sockets -> Ready]
      BY <1>4, EmptySeq DEF Framed, Ready
<1>6. Framed(c)
      BY <1>4, <1>5 DEF Framed
<1>7. QED
      BY <1>1, <1>4, <1>6 DEF Opened

LEMMA StartInWindow ==
  ASSUME NEW j, Framed(j), NEW s \in Sockets, NEW tb \in [Sockets -> Seq(FromServer)],
         \A t \in Sockets : j.ready[t] = "closed", tb[s] = <<>>,
         \A t \in Sockets : UnderWay(j, tb, t) <= SendAhead
  PROVE  WindowAt(Start(j, s), tb)
<1> DEFINE k == Start(j, s)
<1>1. /\ k.ready = [j.ready EXCEPT ![s] = "connecting"]
      /\ k.sent = [j.sent EXCEPT ![s] = <<>>]
      /\ k.chunks_ahead = 0
      BY StartSets DEF Opened
<1> HIDE DEF k
<1>2. j.ready \in [Sockets -> Ready] /\ j.sent \in [Sockets -> Seq(Messages)]
      BY DEF Framed
<1>3. ASSUME NEW t \in Sockets
      PROVE  /\ UnderWay(k, tb, t) <= SendAhead
             /\ k.ready[t] # "closed" => UnderWay(k, tb, t) <= k.chunks_ahead
  <2>1. CASE t = s
        BY <1>1, <1>2, <2>1, ChunksNone, BrowserAssumption DEF UnderWay
  <2>2. CASE t # s
        BY <1>1, <1>2, <2>2 DEF UnderWay
  <2>3. QED
        BY <2>1, <2>2
<1>4. QED
      BY <1>1, <1>3, BrowserAssumption DEF WindowAt, WindowOpen, k

\* The chunk that was loaded is sent where there was room for it.
LEMMA LoadInWindow ==
  ASSUME NEW j, Framed(j), NEW tb \in [Sockets -> Seq(FromServer)], WindowAt(j, tb),
         j.reader # NotLoading,
         \A s \in Sockets : j.ready[s] # "closed" => j.ws = s
  PROVE  WindowAt(OnLoad(j), tb) /\ Settled(j, OnLoad(j))
<1> DEFINE k == [j EXCEPT !.reader = NotLoading]
           l == Send(k, Chunk(j.reader))
           n == [l EXCEPT !.bytes_tx = @ + 1, !.chunks_ahead = @ + 1,
                          !.can_cancel = @ /\ j.bytes_tx + 1 # Total,
                          !.can_pause = @ /\ j.bytes_tx + 1 # Total]
           w == j.ws
<1>1. Framed(j)
      OBVIOUS
<1>2. Aside(j, k) /\ k.reader = NotLoading /\ k.ws = w
      BY <1>1, FieldNames DEF Aside, Framed, KeepsTimer
<1>3. OnLoad(j) = k \/ (OnLoad(j) = TryLoadAndSendFileChunk(n) /\ IsOpen(j))
      BY DEF OnLoad
<1> HIDE DEF k
<1>4. Steady(j, k)
      BY <1>1, <1>2, AsideIsSteady
<1>5. ASSUME IsOpen(j)
      PROVE  WindowAt(n, tb) /\ Settled(j, n)
  <2> DEFINE q == j.sent[w]
             m == Chunk(j.reader)
  <2>1. w \in Sockets /\ q \in Seq(Messages) /\ m \in Messages /\ m.type \in ChunkTypes
        BY <1>1, <1>5 DEF IsOpen, Framed, Chunk, Messages, ChunkTypes
  <2>2. /\ Framed(l) /\ l.ready = j.ready /\ l.chunks_ahead = j.chunks_ahead /\ l.reader = NotLoading
        /\ l.ws = w /\ SameTimers(j, l)
        /\ l.sent = j.sent \/ l.sent = [j.sent EXCEPT ![w] = Append(q, m)]
    <3>1. Framed(k) /\ k.sent = j.sent /\ k.ready = j.ready /\ k.chunks_ahead = j.chunks_ahead
          BY <1>2, <1>4 DEF Aside, Steady, Settled
    <3>7. SameTimers(j, k)
          BY <1>1, FieldNames DEF SameTimers, Framed, k
    <3>2. l = k \/ l = [k EXCEPT !.sent[w] = Append(q, m)]
          BY <1>2, <3>1 DEF Send
    <3>3. Append(q, m) \in Seq(Messages)
          BY <2>1, AppendProperties
    <3> HIDE DEF l, q, m
    <3>4. CASE l = k
          BY <1>2, <3>1, <3>4, <3>7
    <3>5. CASE l = [k EXCEPT !.sent[w] = Append(q, m)]
      <4>1. /\ DOMAIN l = JsFieldNames /\ l.ready = k.ready /\ l.chunks_ahead = k.chunks_ahead
            /\ l.reader = k.reader /\ l.ws = k.ws /\ l.bytes_tx = k.bytes_tx
            /\ l.bytes_acked = k.bytes_acked /\ SameTimers(k, l)
            BY <3>1, <3>5, FieldNames DEF Framed, SameTimers
      <4>2. l.sent = [k.sent EXCEPT ![w] = Append(q, m)]
            BY <3>1, <3>5, FieldNames DEF Framed
      <4>3. l.sent \in [Sockets -> Seq(Messages)]
            BY <2>1, <3>1, <3>3, <4>2 DEF Framed
      <4>4. QED
            BY <1>2, <3>1, <3>7, <4>1, <4>2, <4>3 DEF Framed, SameTimers
    <3>6. QED
          BY <3>2, <3>4, <3>5
  <2> HIDE DEF l
  <2>3. /\ Framed(n) /\ n.sent = l.sent /\ n.ready = j.ready /\ n.reader = NotLoading
        /\ n.chunks_ahead = j.chunks_ahead + 1
    <3>1. /\ Framed(l) /\ l.ready = j.ready /\ l.chunks_ahead = j.chunks_ahead
          /\ l.reader = NotLoading
          BY <2>2
    <3>2. /\ DOMAIN n = JsFieldNames /\ n.ws = l.ws /\ n.ready = l.ready /\ n.sent = l.sent
          /\ n.reader = l.reader /\ n.bytes_acked = l.bytes_acked
          BY <3>1, FieldNames DEF Framed
    <3>3. n.bytes_tx = l.bytes_tx + 1 /\ n.chunks_ahead = l.chunks_ahead + 1
          BY <3>1, FieldNames DEF Framed
    <3> HIDE DEF n
    <3>4. QED
          BY <3>1, <3>2, <3>3 DEF Framed
  <2>15. n.ws = w
         BY <2>2, FieldNames DEF Framed
  <2>14. SameTimers(j, n)
    <3>1. SameTimers(l, n)
          BY <2>2, FieldNames DEF Framed, SameTimers
    <3>2. QED
          BY <2>2, <3>1 DEF SameTimers
  <2> HIDE DEF n
  <2>4. Chunks(Append(q, m)) = Chunks(q) + 1
        BY <2>1, ChunksAppend
  <2> HIDE DEF q, m
  <2>5. \A t \in Sockets : UnderWay(j, tb, t) \in Nat /\ Chunks(j.sent[t]) \in Nat /\ Chunks(tb[t]) \in Nat
        BY <1>1, UnderWayNat
  <2>6. \A t \in Sockets : n.sent[t] = j.sent[t] \/ (t = w /\ n.sent[t] = Append(q, m))
        BY <1>1, <2>1, <2>2, <2>3 DEF Framed
  <2>7. ASSUME NEW t \in Sockets
        PROVE  /\ UnderWay(n, tb, t) <= UnderWay(j, tb, t) + 1
               /\ (t # w => UnderWay(n, tb, t) = UnderWay(j, tb, t))
    <3>1. CASE n.sent[t] = j.sent[t]
          BY <2>5, <3>1 DEF UnderWay
    <3>2. CASE t = w /\ n.sent[t] = Append(q, m)
      <4>1. Chunks(n.sent[t]) = Chunks(j.sent[t]) + 1
            BY <2>4, <3>2 DEF q
      <4>2. QED
            BY <2>5, <3>2, <4>1 DEF UnderWay
    <3>3. QED
          BY <2>6, <3>1, <3>2
  <2>8. j.ready[w] # "closed" /\ WindowOpen(j)
        BY <1>5 DEF IsOpen, WindowAt
  <2>9. j.chunks_ahead \in Int /\ j.chunks_ahead < SendAhead /\ SendAhead \in Nat
        BY <1>1, <2>8, BrowserAssumption DEF Framed, WindowOpen
  <2>10. ASSUME NEW t \in Sockets
         PROVE  /\ UnderWay(n, tb, t) <= SendAhead
                /\ n.ready[t] # "closed" => UnderWay(n, tb, t) <= n.chunks_ahead
    <3>1. UnderWay(n, tb, t) \in Nat
          BY <2>3, UnderWayNat
    <3>2. CASE t = w
      <4>1. UnderWay(j, tb, t) <= j.chunks_ahead
            BY <2>1, <2>8, <3>2 DEF WindowAt
      <4>2. UnderWay(n, tb, t) <= UnderWay(j, tb, t) + 1 /\ UnderWay(j, tb, t) \in Nat
            BY <2>5, <2>7
      <4>3. QED
            BY <2>3, <2>9, <3>1, <4>1, <4>2
    <3>3. CASE t # w
      <4>1. j.ready[t] = "closed"
            BY <3>3
      <4>2. UnderWay(n, tb, t) = UnderWay(j, tb, t)
            BY <2>7, <3>3
      <4>3. UnderWay(j, tb, t) <= SendAhead
            BY DEF WindowAt
      <4>4. n.ready[t] = "closed"
            BY <2>3, <4>1
      <4>5. QED
            BY <4>2, <4>3, <4>4
    <3>4. QED
          BY <3>2, <3>3
  <2>11. WindowAt(n, tb)
         BY <2>3, <2>9, <2>10 DEF WindowAt
  <2>12. Settled(j, n)
         BY <2>3, <2>14, <2>15 DEF Settled, KeepsTimer, SameTimers
  <2>13. QED
         BY <2>11, <2>12
<1> HIDE DEF n
<1>6. ASSUME IsOpen(j)
      PROVE  WindowAt(TryLoadAndSendFileChunk(n), tb) /\ Settled(j, TryLoadAndSendFileChunk(n))
  <2>1. Steady(n, TryLoadAndSendFileChunk(n))
        BY <1>5, <1>6, CallsSteady DEF Settled
  <2>2. QED
        BY <1>5, <1>6, <2>1, WindowStays, SettledTwice DEF Steady
<1>7. WindowAt(k, tb) /\ Settled(j, k)
      BY <1>4, WindowStays DEF Steady
<1>8. QED
      BY <1>3, <1>6, <1>7

\* An ack counts one chunk less, and is one message less.
LEMMA AckInWindow ==
  ASSUME NEW j, Framed(j), NEW tb \in [Sockets -> Seq(FromServer)], WindowAt(j, tb),
         NEW s \in Sockets, \A t \in Sockets : j.ready[t] # "closed" => j.ws = t,
         j.ready[s] = "open", tb[s] # <<>>, Head(tb[s]).type = "chunkAck"
  PROVE  WindowAt(Acked(j), [tb EXCEPT ![s] = Tail(@)])
<1> DEFINE k == Acked(j)
           q == Tail(tb[s])
           tb2 == [tb EXCEPT ![s] = q]
<1>1. /\ Framed(j) /\ Framed(k) /\ k.sent = j.sent /\ k.ready = j.ready
      /\ k.chunks_ahead = j.chunks_ahead - 1 /\ j.chunks_ahead \in Int
      BY AckedFramed DEF Framed
<1>2. q \in Seq(FromServer) /\ Chunks(tb[s]) = Chunks(q) + 1
      BY ChunksTail DEF ChunkTypes
<1> HIDE DEF q, k
<1>3. tb2 \in [Sockets -> Seq(FromServer)] /\ tb2[s] = q /\ \A t \in Sockets \ {s} : tb2[t] = tb[t]
      BY <1>2
<1> HIDE DEF tb2
<1>4. ASSUME NEW t \in Sockets
      PROVE  /\ UnderWay(k, tb2, t) <= SendAhead
             /\ (k.ready[t] # "closed" => UnderWay(k, tb2, t) <= k.chunks_ahead)
  <2>1. /\ Chunks(j.sent[t]) \in Nat /\ Chunks(tb[t]) \in Nat /\ Chunks(tb2[t]) \in Nat
        /\ UnderWay(j, tb, t) <= SendAhead
        BY <1>1, <1>3, UnderWayNat DEF WindowAt
  <2>2. CASE t = s
    <3>1. UnderWay(k, tb2, t) = UnderWay(j, tb, t) - 1
          BY <1>1, <1>2, <1>3, <2>1, <2>2 DEF UnderWay
    <3>2. UnderWay(j, tb, t) <= j.chunks_ahead /\ UnderWay(j, tb, t) \in Nat
          BY <1>1, <2>2, UnderWayNat DEF WindowAt
    <3>3. QED
          BY <1>1, <2>1, <3>1, <3>2, BrowserAssumption
  <2>3. CASE t # s
        BY <1>1, <1>3, <2>1, <2>3 DEF UnderWay
  <2>4. QED
        BY <2>2, <2>3
<1>5. k.chunks_ahead <= SendAhead /\ k.chunks_ahead < SendAhead
      BY <1>1, BrowserAssumption DEF WindowAt
<1>6. QED
      BY <1>4, <1>5 DEF WindowAt, WindowOpen, tb2, q, k

\* What reads or loses messages, or puts an ack in the place of a chunk.
LEMMA LessInWindow ==
  ASSUME NEW j, Framed(j), NEW k, Framed(k), NEW tb \in [Sockets -> Seq(FromServer)],
         NEW tb2 \in [Sockets -> Seq(FromServer)], WindowAt(j, tb),
         k.chunks_ahead = j.chunks_ahead, k.reader = j.reader, k.ready = j.ready,
         \A t \in Sockets : UnderWay(k, tb2, t) <= UnderWay(j, tb, t)
  PROVE  WindowAt(k, tb2)
<1>1. ASSUME NEW t \in Sockets
      PROVE  /\ UnderWay(k, tb2, t) <= SendAhead
             /\ (k.ready[t] # "closed" => UnderWay(k, tb2, t) <= k.chunks_ahead)
  <2>1. UnderWay(k, tb2, t) \in Nat /\ UnderWay(j, tb, t) \in Nat /\ j.chunks_ahead \in Int
        BY UnderWayNat DEF Framed
  <2>2. /\ UnderWay(j, tb, t) <= SendAhead
        /\ (j.ready[t] # "closed" => UnderWay(j, tb, t) <= j.chunks_ahead)
        BY DEF WindowAt
  <2>3. QED
        BY <2>1, <2>2, BrowserAssumption
<1>2. QED
      BY <1>1 DEF WindowAt, WindowOpen

-----------------------------------------------------------------------------
(* Where the user waits for a paused socket, only the socket in ws may be    *)
(* open, and a timer is pending only while there is none.                    *)

Tidy(j, tb) ==
  /\ j.orphans = 0
  /\ \A s \in Sockets : /\ j.ready[s] # "closed" => j.ws = s
                        /\ j.ready[s] = "closed" => tb[s] = <<>>
  /\ j.conn_retry => j.ws = NoSocket /\ ~j.finished /\ ~j.cancelled

Calm(j, tb) == Framed(j) /\ Tidy(j, tb) /\ WindowAt(j, tb)

CalmInv == AnyhowInv /\ Calm(js, toBrowser)

LEMMA TidyStays ==
  ASSUME NEW j, NEW k, NEW tb, NEW tb2, Tidy(j, tb), Settled(j, k),
         \A s \in Sockets : tb[s] = <<>> => tb2[s] = <<>>
  PROVE  Tidy(k, tb2)
BY DEF Tidy, Settled, KeepsTimer

LEMMA CalmStays ==
  ASSUME NEW j, NEW k, NEW tb, Calm(j, tb), Steady(j, k)
  PROVE  Calm(k, tb)
BY WindowStays, TidyStays DEF Calm, Steady, Settled

LEMMA CalmTyped ==
  ASSUME CalmInv
  PROVE  /\ Framed(js) /\ toBrowser \in [Sockets -> Seq(FromServer)]
         /\ js.sent \in [Sockets -> Seq(Messages)]
         /\ \A t \in Sockets : js.ready[t] # "closed" => js.ws = t
<1> DEFINE H == Honest
           F == FromServer
<1>1. H \subseteq F /\ toBrowser \in [Sockets -> Seq(H)]
      BY DEF Honest, FromServer, CalmInv, AnyhowInv
<1> HIDE DEF H, F
<1>2. \A s \in Sockets : toBrowser[s] \in Seq(F)
      BY <1>1
<1>3. toBrowser \in [Sockets -> Seq(F)]
      BY <1>1, <1>2
<1>4. QED
      BY <1>3 DEF F, CalmInv, Calm, Tidy, Framed

-----------------------------------------------------------------------------
(* The steps that read, write or lose messages.                              *)

\* A step on the connection of s that leaves no more chunks and acks than before.
LEMMA SocketCalm ==
  ASSUME CalmInv, NEW s \in Sockets, NEW q \in Seq(Messages),
         js' = [js EXCEPT !.sent[s] = q], NEW r \in Seq(FromServer),
         toBrowser' = [toBrowser EXCEPT ![s] = r],
         toBrowser[s] = <<>> /\ ~Listens(s) => r = <<>>,
         Chunks(q) + Chunks(r) <= Chunks(js.sent[s]) + Chunks(toBrowser[s])
  PROVE  Calm(js', toBrowser')
<1>1. /\ Framed(js) /\ toBrowser \in [Sockets -> Seq(FromServer)]
      /\ js.sent \in [Sockets -> Seq(Messages)]
      /\ Tidy(js, toBrowser) /\ WindowAt(js, toBrowser)
      BY CalmTyped DEF CalmInv, Calm
<1>2. /\ DOMAIN js' = JsFieldNames /\ js'.sent = [js.sent EXCEPT ![s] = q]
      /\ js'.ws = js.ws /\ js'.ready = js.ready /\ js'.reader = js.reader
      /\ js'.bytes_tx = js.bytes_tx /\ js'.bytes_acked = js.bytes_acked
      /\ js'.chunks_ahead = js.chunks_ahead /\ js'.orphans = js.orphans
      /\ js'.conn_retry = js.conn_retry
      /\ js'.finished = js.finished /\ js'.cancelled = js.cancelled
      BY <1>1, FieldNames DEF Framed
<1>3. /\ js'.sent \in [Sockets -> Seq(Messages)] /\ js'.sent[s] = q
      /\ \A t \in Sockets \ {s} : js'.sent[t] = js.sent[t]
      BY <1>1, <1>2
<1>4. Framed(js')
      BY <1>1, <1>2, <1>3 DEF Framed
<1>5. /\ toBrowser' \in [Sockets -> Seq(FromServer)]
      /\ toBrowser'[s] = r /\ \A t \in Sockets \ {s} : toBrowser'[t] = toBrowser[t]
      BY <1>1
<1>6. ASSUME NEW t \in Sockets
      PROVE  UnderWay(js', toBrowser', t) <= UnderWay(js, toBrowser, t)
  <2>1. CASE t = s
        BY <1>3, <1>5, <2>1 DEF UnderWay
  <2>2. CASE t # s
    <3>1. UnderWay(js', toBrowser', t) = UnderWay(js, toBrowser, t)
          BY <1>3, <1>5, <2>2 DEF UnderWay
    <3>2. UnderWay(js, toBrowser, t) \in Nat
          BY <1>1, UnderWayNat
    <3>3. QED
          BY <3>1, <3>2
  <2>3. QED
        BY <2>1, <2>2
<1>7. WindowAt(js', toBrowser')
      BY <1>1, <1>2, <1>4, <1>5, <1>6, LessInWindow
<1>8. \A t \in Sockets : js.ready[t] = "closed" => toBrowser'[t] = <<>>
      BY <1>1, <1>5 DEF Tidy, Listens
<1>9. Tidy(js', toBrowser')
      BY <1>1, <1>2, <1>8 DEF Tidy
<1>10. QED
       BY <1>4, <1>7, <1>9 DEF Calm

\* Only a session that has read a chunk writes an ack.
LEMMA DeliveredCalm ==
  ASSUME CalmInv, NEW s \in Sockets, NEW m \in FromServer, NEW messages,
         messages = <<>> \/ messages = <<m>>
  PROVE  \E r \in Seq(FromServer) :
           /\ Delivered(s, messages) = [toBrowser EXCEPT ![s] = r]
           /\ toBrowser[s] = <<>> /\ ~Listens(s) => r = <<>>
           /\ Chunks(r) <= Chunks(toBrowser[s]) + 1
           /\ (messages = <<>> \/ m.type # "chunkAck" => Chunks(r) = Chunks(toBrowser[s]))
<1> DEFINE q == toBrowser[s]
<1>1. toBrowser \in [Sockets -> Seq(FromServer)] /\ q \in Seq(FromServer)
      BY CalmTyped
<1>2. m.type \in ChunkTypes <=> m.type = "chunkAck"
      BY DEF FromServer, ChunkTypes
<1>3. Chunks(q) \in Nat
      BY <1>1, ChunksPlaced
<1>4. toBrowser = [toBrowser EXCEPT ![s] = q]
      BY <1>1
<1>5. CASE ~Listens(s) \/ messages = <<>>
  <2>1. q \o <<>> = q
    <3> HIDE DEF q
    <3> QED
        BY <1>1, ConcatEmptySeq
  <2>2. Delivered(s, messages) = [toBrowser EXCEPT ![s] = q]
        BY <1>4, <1>5, <2>1 DEF Delivered
  <2>3. /\ Chunks(q) <= Chunks(toBrowser[s]) + 1 /\ Chunks(q) = Chunks(toBrowser[s])
        /\ toBrowser[s] = <<>> /\ ~Listens(s) => q = <<>>
        BY <1>3
  <2>4. QED
        BY <1>1, <2>2, <2>3, Zenon
<1>6. CASE Listens(s) /\ messages = <<m>>
  <2>1. Delivered(s, messages) = [toBrowser EXCEPT ![s] = q \o <<m>>]
        BY <1>1, <1>6 DEF Delivered
  <2> HIDE DEF q
  <2>2. q \o <<m>> = Append(q, m)
        BY <1>1, AppendIsConcat
  <2>3. Append(q, m) \in Seq(FromServer)
        BY <1>1, AppendProperties
  <2>4. Chunks(Append(q, m)) = IF m.type \in ChunkTypes THEN Chunks(q) + 1 ELSE Chunks(q)
        BY <1>1, ChunksAppend
  <2>5. messages # <<>>
        BY <1>6
  <2> DEFINE r == Append(q, m)
  <2>6. Chunks(r) <= Chunks(q) + 1 /\ (m.type # "chunkAck" => Chunks(r) = Chunks(q))
        BY <1>2, <1>3, <2>4
  <2>7. r \in Seq(FromServer) /\ Delivered(s, messages) = [toBrowser EXCEPT ![s] = r]
        BY <2>1, <2>2, <2>3
  <2> HIDE DEF r
  <2>8. QED
        BY <1>6, <2>5, <2>6, <2>7, Zenon DEF q
<1>7. QED
      BY <1>5, <1>6

LEMMA ReturnsCalm ==
  ASSUME CalmInv, NEW s \in Sockets, NEW m \in FromServer, m.type # "chunkAck",
         NEW messages, messages = <<>> \/ messages = <<m>>, Returns(s, messages)
  PROVE  Calm(js', toBrowser')
<1>1. js.sent[s] \in Seq(Messages) /\ toBrowser \in [Sockets -> Seq(FromServer)]
      BY CalmTyped
<1>2. Chunks(js.sent[s]) \in Nat /\ Chunks(toBrowser[s]) \in Nat
      BY <1>1, ChunksPlaced
<1> DEFINE q == <<>>
<1>3. q \in Seq(Messages) /\ Chunks(q) = 0 /\ js' = [js EXCEPT !.sent[s] = q]
      BY ChunksNone DEF Returns
<1>4. PICK r \in Seq(FromServer) :
        /\ Delivered(s, messages) = [toBrowser EXCEPT ![s] = r]
        /\ toBrowser[s] = <<>> /\ ~Listens(s) => r = <<>>
        /\ Chunks(r) = Chunks(toBrowser[s])
      BY DeliveredCalm
<1>5. toBrowser' = [toBrowser EXCEPT ![s] = r]
      BY <1>4 DEF Returns
<1> HIDE DEF q
<1>6. Chunks(q) + Chunks(r) <= Chunks(js.sent[s]) + Chunks(toBrowser[s])
      BY <1>2, <1>3, <1>4
<1>7. QED
      BY <1>3, <1>4, <1>5, <1>6, SocketCalm

LEMMA GoesOnCalm ==
  ASSUME CalmInv, NEW s \in Sockets, NEW m \in FromServer, NEW messages,
         js.sent[s] # <<>>,
         \/ messages = <<>>
         \/ messages = <<m>> /\ (m.type # "chunkAck" \/ Head(js.sent[s]).type = "chunk"),
         NEW next, GoesOn(s, messages, next)
  PROVE  Calm(js', toBrowser')
<1> DEFINE p == js.sent[s]
           q == Tail(p)
<1>1. p \in Seq(Messages) /\ toBrowser \in [Sockets -> Seq(FromServer)]
      BY CalmTyped
<1>2. Chunks(toBrowser[s]) \in Nat
      BY <1>1, ChunksPlaced
<1>3. js' = [js EXCEPT !.sent[s] = q] /\ toBrowser' = Delivered(s, messages)
      BY DEF GoesOn
<1> HIDE DEF p
<1>4. /\ q \in Seq(Messages) /\ p # <<>>
      /\ Chunks(p) = IF Head(p).type \in ChunkTypes THEN Chunks(q) + 1 ELSE Chunks(q)
      BY <1>1, ChunksTail DEF p
<1> HIDE DEF q
<1>5. Chunks(q) \in Nat
      BY <1>4, ChunksPlaced
<1>6. PICK r \in Seq(FromServer) :
        /\ Delivered(s, messages) = [toBrowser EXCEPT ![s] = r]
        /\ toBrowser[s] = <<>> /\ ~Listens(s) => r = <<>>
        /\ Chunks(r) <= Chunks(toBrowser[s]) + 1
        /\ (messages = <<>> \/ m.type # "chunkAck" => Chunks(r) = Chunks(toBrowser[s]))
      BY DeliveredCalm
<1>7. Chunks(r) \in Nat
      BY ChunksPlaced
<1>8. CASE messages = <<>> \/ m.type # "chunkAck"
  <2>1. Chunks(q) + Chunks(r) <= Chunks(p) + Chunks(toBrowser[s])
        BY <1>2, <1>4, <1>5, <1>6, <1>7, <1>8
  <2>2. QED
        BY <1>3, <1>4, <1>6, <2>1, SocketCalm DEF p
<1>9. CASE Head(p).type = "chunk"
  <2>1. Chunks(p) = Chunks(q) + 1
        BY <1>4, <1>9 DEF ChunkTypes
  <2>2. Chunks(q) + Chunks(r) <= Chunks(p) + Chunks(toBrowser[s])
        BY <1>2, <1>5, <1>6, <1>7, <2>1
  <2>3. QED
        BY <1>3, <1>4, <1>6, <2>2, SocketCalm DEF p
<1>10. QED
       BY <1>8, <1>9 DEF p

LEMMA SessionCalm ==
  ASSUME CalmInv, NEW s \in Sockets, Session(s)
  PROVE  Calm(js', toBrowser')
<1> DEFINE none == <<>>
<1>1. /\ Msg("error") \in FromServer /\ Msg("cancelAck") \in FromServer
      /\ Msg("chunkAck") \in FromServer /\ FinalMessage \in FromServer
      /\ Msg("error").type # "chunkAck" /\ Msg("cancelAck").type # "chunkAck"
      /\ FinalMessage.type # "chunkAck"
      BY BrowserAssumption DEF Msg, FromServer, FinalMessage
<1>2. Conf(Len(stored)) \in FromServer /\ Conf(Len(stored)).type # "chunkAck"
      BY LenProperties, BrowserAssumption DEF Conf, FromServer, CalmInv, AnyhowInv, StoredInv
<1>3. CASE ReadsRequest(s)
      BY <1>1, <1>2, <1>3, GoesOnCalm, ReturnsCalm DEF ReadsRequest, Reads
<1>4. CASE ReadsAck(s) \/ ReadsOn(s)
  <2>1. js.sent[s] # <<>> /\ \E next : GoesOn(s, none, next)
        BY <1>4 DEF ReadsAck, ReadsOn, ReadsInLoop, Reads
  <2>2. QED
        BY <1>1, <2>1, GoesOnCalm
<1>5. CASE ReadsNoAck(s) \/ RefusesChunk(s) \/ ReadsCancel(s) \/ Tells(s) \/ ReadFails(s)
  <2>1. \/ \E m \in {Msg("error"), Msg("cancelAck"), FinalMessage} : Returns(s, <<m>>)
        \/ Returns(s, none)
        BY <1>5 DEF ReadsNoAck, RefusesChunk, ReadsCancel, Tells, ReadFails
  <2>2. QED
        BY <1>1, <2>1, ReturnsCalm
<1>6. CASE StoresChunk(s)
  <2>1. /\ js.sent[s] # <<>> /\ Head(js.sent[s]).type = "chunk"
        /\ GoesOn(s, <<Msg("chunkAck")>>, "chunks")
        BY <1>6 DEF StoresChunk, ReadsInLoop, Reads, Received
  <2>2. QED
        BY <1>1, <2>1, GoesOnCalm
<1>7. CASE HandsOver(s)
      BY <1>7 DEF HandsOver, CalmInv
<1>8. QED
      BY <1>3, <1>4, <1>5, <1>6, <1>7 DEF Session

LEMMA LossCalm ==
  ASSUME CalmInv, NEW s \in Sockets, ConnectionLost(s)
  PROVE  Calm(js', toBrowser')
<1>1. js.sent[s] \in Seq(Messages) /\ toBrowser \in [Sockets -> Seq(FromServer)]
      BY CalmTyped
<1>2. Chunks(js.sent[s]) \in Nat /\ Chunks(toBrowser[s]) \in Nat
      BY <1>1, ChunksPlaced
<1>3. PICK n \in 0..Len(js.sent[s]) : js' = [js EXCEPT !.sent[s] = SubSeq(js.sent[s], 1, n)]
      BY DEF ConnectionLost
<1> DEFINE p == js.sent[s]
           q == SubSeq(p, 1, n)
           r == <<>>
<1>4. js' = [js EXCEPT !.sent[s] = q] /\ toBrowser' = [toBrowser EXCEPT ![s] = r]
      BY <1>3 DEF ConnectionLost
<1> HIDE DEF p
<1>5. p \in Seq(Messages) /\ n \in 0..Len(p)
      BY <1>1, <1>3 DEF p
<1>6. q \in Seq(Messages) /\ Chunks(q) <= Chunks(p)
      BY <1>5, ChunksPrefix
<1>7. Chunks(q) \in Nat
      BY <1>6, ChunksPlaced
<1>8. r \in Seq(FromServer) /\ Chunks(r) = 0 /\ r = <<>>
      BY ChunksNone
<1> HIDE DEF q, r
<1>9. Chunks(q) + Chunks(r) <= Chunks(p) + Chunks(toBrowser[s])
      BY <1>2, <1>6, <1>7, <1>8 DEF p
<1>10. QED
       BY <1>4, <1>6, <1>8, <1>9, SocketCalm DEF p

LEMMA RestartCalm ==
  ASSUME CalmInv, ServerRestarts
  PROVE  Calm(js', toBrowser')
<1> DEFINE none == [t \in Sockets |-> <<>>]
<1>1. /\ Framed(js) /\ toBrowser \in [Sockets -> Seq(FromServer)]
      /\ js.sent \in [Sockets -> Seq(Messages)]
      /\ Tidy(js, toBrowser) /\ WindowAt(js, toBrowser)
      BY CalmTyped DEF CalmInv, Calm
<1>2. /\ js' = [js EXCEPT !.sent = none]
      /\ toBrowser' = [t \in Sockets |-> IF session[t] = "none" THEN toBrowser[t] ELSE <<>>]
      BY DEF ServerRestarts
<1>3. none \in [Sockets -> Seq(Messages)] /\ \A t \in Sockets : none[t] = <<>>
      BY EmptySeq
<1> HIDE DEF none
<1>4. /\ Framed(js') /\ js'.sent = none
      /\ js'.chunks_ahead = js.chunks_ahead /\ js'.reader = js.reader /\ js'.ready = js.ready
      BY <1>1, <1>2, <1>3, FieldNames DEF Framed
<1>5. /\ js'.ws = js.ws /\ js'.orphans = js.orphans /\ js'.conn_retry = js.conn_retry
      /\ js'.finished = js.finished /\ js'.cancelled = js.cancelled
      BY <1>1, <1>2, FieldNames DEF Framed
<1>6. toBrowser' \in [Sockets -> Seq(FromServer)]
      BY <1>1, <1>2
<1>7. ASSUME NEW t \in Sockets
      PROVE  UnderWay(js', toBrowser', t) <= UnderWay(js, toBrowser, t)
  <2>1. Chunks(js.sent[t]) \in Nat /\ Chunks(toBrowser[t]) \in Nat
        BY <1>1, UnderWayNat
  <2>2. Chunks(js'.sent[t]) = 0
        BY <1>3, <1>4, ChunksNone
  <2>3. toBrowser'[t] = toBrowser[t] \/ Chunks(toBrowser'[t]) = 0
        BY <1>2, ChunksNone
  <2>4. QED
        BY <2>1, <2>2, <2>3 DEF UnderWay
<1>8. WindowAt(js', toBrowser')
      BY <1>1, <1>4, <1>6, <1>7, LessInWindow
<1>9. Tidy(js', toBrowser')
      BY <1>1, <1>2, <1>4, <1>5 DEF Tidy
<1>10. QED
       BY <1>4, <1>8, <1>9 DEF Calm

-----------------------------------------------------------------------------
(* The steps of the browser.                                                 *)

\* No connection is opened for an upload that has ended.
StaysShut == Ended => \A s \in Sockets : js.ready[s] = "closed" => js'.ready[s] = "closed"

\* A new connection starts with an empty window: no other is left open.
LEMMA StartCalm ==
  ASSUME CalmInv, js.ws = NoSocket, ~js.finished, ~js.cancelled, NEW s \in Sockets,
         StartsOn([js EXCEPT !.conn_retry = FALSE], s)
  PROVE  Calm(js', toBrowser') /\ StaysShut
<1> DEFINE j == [js EXCEPT !.conn_retry = FALSE]
<1>1. /\ Framed(js) /\ toBrowser \in [Sockets -> Seq(FromServer)]
      /\ Tidy(js, toBrowser) /\ WindowAt(js, toBrowser)
      /\ \A t \in Sockets : js.ready[t] = "closed"
      BY CalmTyped, BrowserAssumption DEF CalmInv, Calm
<1>2. /\ Framed(j) /\ j.ready = js.ready /\ j.sent = js.sent /\ j.orphans = js.orphans
      /\ j.conn_retry = FALSE
      BY <1>1, FieldNames DEF Framed
<1>3. StartsOn(j, s)
      OBVIOUS
<1> HIDE DEF j
<1>4. js' = Start(j, s) /\ toBrowser' = toBrowser
      BY <1>3 DEF StartsOn
<1>5. toBrowser[s] = <<>> /\ \A t \in Sockets : j.ready[t] = "closed"
      BY <1>1, <1>2 DEF Tidy
<1>6. \A t \in Sockets : UnderWay(j, toBrowser, t) <= SendAhead
      BY <1>1, <1>2 DEF WindowAt, UnderWay
<1>7. WindowAt(Start(j, s), toBrowser)
      BY <1>1, <1>2, <1>5, <1>6, StartInWindow
<1>8. Opened(j, Start(j, s), s)
      BY <1>2, StartSets
<1>9. /\ Framed(js') /\ js'.ws = s /\ js'.orphans = js.orphans /\ js'.conn_retry = FALSE
      /\ js'.ready = [js.ready EXCEPT ![s] = "connecting"]
      BY <1>2, <1>4, <1>8 DEF Opened, SameTimers
<1>10. Tidy(js', toBrowser')
  <2>1. \A t \in Sockets : t # s => js'.ready[t] = "closed"
        BY <1>1, <1>9
  <2>2. \A t \in Sockets : toBrowser'[t] = <<>>
        BY <1>1, <1>4 DEF Tidy
  <2>3. QED
        BY <1>1, <1>9, <2>1, <2>2 DEF Tidy
<1>11. QED
       BY <1>4, <1>7, <1>9, <1>10 DEF Calm, StaysShut, Ended

LEMMA ArrivesCalm ==
  ASSUME CalmInv, NEW s \in Sockets, MessageArrives(s)
  PROVE  Calm(js', toBrowser') /\ StaysShut
<1> DEFINE m == Head(toBrowser[s])
           q == Tail(toBrowser[s])
           tb == [toBrowser EXCEPT ![s] = q]
           k == OnMessage(js, s, m)
<1>1. /\ Framed(js) /\ toBrowser \in [Sockets -> Seq(FromServer)]
      /\ \A t \in Sockets : js.ready[t] # "closed" => js.ws = t
      /\ Tidy(js, toBrowser) /\ WindowAt(js, toBrowser)
      BY CalmTyped DEF CalmInv, Calm
<1>2. js.ready[s] = "open" /\ toBrowser[s] # <<>> /\ js' = k /\ toBrowser' = tb
      BY DEF MessageArrives
<1>3. toBrowser[s] \in Seq(FromServer) /\ m \in FromServer
      BY <1>1, <1>2, HeadTailProperties
<1>4. m.pos \in Int
      BY <1>3, BrowserAssumption DEF FromServer
<1>5. js.onmessage[s] \in Usual \cup Sockets
      BY DEF CalmInv, AnyhowInv, Wired
<1>6. js.ws # NoSocket
      BY <1>1, <1>2, BrowserAssumption
<1> HIDE DEF m
<1>7. AnswersInWindow(js, k, m)
      BY <1>1, <1>4, <1>5, <1>6, MessageInWindow
<1> HIDE DEF k
<1>8. ASSUME Steady(js, k)
      PROVE  WindowAt(js', toBrowser') /\ Settled(js, js')
  <2> HIDE DEF q
  <2>1. /\ q \in Seq(FromServer)
        /\ (Chunks(toBrowser[s]) = Chunks(q) + 1 \/ Chunks(toBrowser[s]) = Chunks(q))
        BY <1>2, <1>3, ChunksTail DEF q
  <2>2. Chunks(q) <= Chunks(toBrowser[s])
    <3>1. Chunks(q) \in Nat
          BY <2>1, ChunksPlaced
    <3>2. QED
          BY <2>1, <3>1
  <2>3. tb \in [Sockets -> Seq(FromServer)] /\ tb[s] = q /\ \A t \in Sockets \ {s} : tb[t] = toBrowser[t]
        BY <1>1, <2>1
  <2> HIDE DEF tb
  <2>4. ASSUME NEW t \in Sockets
        PROVE  UnderWay(js, tb, t) <= UnderWay(js, toBrowser, t)
    <3>1. Chunks(js.sent[t]) \in Nat /\ Chunks(toBrowser[t]) \in Nat /\ Chunks(tb[t]) \in Nat
          BY <1>1, <2>3, UnderWayNat
    <3>2. Chunks(tb[t]) <= Chunks(toBrowser[t])
          BY <2>2, <2>3, <3>1
    <3>3. QED
          BY <3>1, <3>2 DEF UnderWay
  <2>5. WindowAt(js, tb)
        BY <1>1, <2>3, <2>4, LessInWindow
  <2>6. WindowAt(k, tb)
        BY <1>8, <2>5, WindowStays
  <2>7. QED
        BY <1>2, <1>8, <2>6 DEF Steady
<1>9. ASSUME m.type = "chunkAck", Steady(Acked(js), k)
      PROVE  WindowAt(js', toBrowser') /\ Settled(js, js')
  <2>1. WindowAt(Acked(js), tb)
        BY <1>1, <1>2, <1>9, AckInWindow DEF m
  <2>2. WindowAt(k, tb)
        BY <1>9, <2>1, WindowStays
  <2>3. Settled(js, k)
        BY <1>1, <1>9, AckedFramed, SettledTwice DEF Steady
  <2>4. QED
        BY <1>2, <2>2, <2>3
<1>10. WindowAt(js', toBrowser') /\ Settled(js, js')
       BY <1>7, <1>8, <1>9 DEF AnswersInWindow
<1>11. \A t \in Sockets : toBrowser[t] = <<>> => toBrowser'[t] = <<>>
       BY <1>1, <1>2
<1>12. Tidy(js', toBrowser')
       BY <1>1, <1>10, <1>11, TidyStays
<1>13. QED
       BY <1>10, <1>12 DEF Calm, Settled, StaysShut

\* The socket that closes is the one in ws, and the timer that OnClose sets is the
\* only one.
LEMMA ClosesCalm ==
  ASSUME CalmInv, NEW s \in Sockets, SocketCloses(s)
  PROVE  Calm(js', toBrowser') /\ StaysShut
<1> DEFINE c == [js EXCEPT !.ready[s] = "closed"]
           tb == [toBrowser EXCEPT ![s] = <<>>]
           k == [c EXCEPT !.ws = NoSocket, !.connected = FALSE]
           retry == [k EXCEPT !.can_pause = TRUE, !.conn_retry = TRUE,
                              !.orphans = IF c.conn_retry THEN @ + 1 ELSE @]
<1>1. /\ Framed(js) /\ toBrowser \in [Sockets -> Seq(FromServer)]
      /\ Tidy(js, toBrowser) /\ WindowAt(js, toBrowser)
      BY CalmTyped DEF CalmInv, Calm
<1>2. /\ js' \in {OnClose(c), OnClose(OnError(c))} /\ toBrowser' = tb
      /\ js.ready[s] # "closed"
      BY DEF SocketCloses
<1>3. js.ws = s /\ ~js.conn_retry
      BY <1>1, <1>2, BrowserAssumption DEF Tidy
<1>4. /\ DOMAIN c = JsFieldNames /\ c.ws = s /\ c.ready = [js.ready EXCEPT ![s] = "closed"]
      /\ c.sent = js.sent /\ c.reader = js.reader /\ c.bytes_tx = js.bytes_tx
      /\ c.bytes_acked = js.bytes_acked /\ c.chunks_ahead = js.chunks_ahead
      /\ c.orphans = js.orphans /\ c.conn_retry = js.conn_retry
      /\ c.finished = js.finished /\ c.cancelled = js.cancelled
      BY <1>1, <1>3, FieldNames DEF Framed
<1> HIDE DEF c
<1>5. c.ready \in [Sockets -> Ready] /\ c.ready[s] = "closed"
      BY <1>1, <1>4 DEF Framed, Ready
<1>6. OnError(c) = c
      BY <1>4, <1>5 DEF OnError, Close
<1>7. js' = k \/ (js' = retry /\ ~StaysClosed(c))
      BY <1>2, <1>6 DEF OnClose
<1>8. /\ DOMAIN k = JsFieldNames /\ k.ws = NoSocket /\ k.ready = c.ready
      /\ k.sent = js.sent /\ k.reader = js.reader /\ k.bytes_tx = js.bytes_tx
      /\ k.bytes_acked = js.bytes_acked /\ k.chunks_ahead = js.chunks_ahead
      /\ k.orphans = js.orphans /\ k.conn_retry = js.conn_retry
      /\ k.finished = js.finished /\ k.cancelled = js.cancelled
      BY <1>4, FieldNames
<1> HIDE DEF k
<1>9. /\ DOMAIN retry = JsFieldNames /\ retry.ws = k.ws /\ retry.ready = k.ready
      /\ retry.sent = k.sent /\ retry.reader = k.reader /\ retry.bytes_tx = k.bytes_tx
      /\ retry.bytes_acked = k.bytes_acked /\ retry.chunks_ahead = k.chunks_ahead
      /\ retry.orphans = k.orphans
      /\ retry.finished = k.finished /\ retry.cancelled = k.cancelled
      BY <1>3, <1>4, <1>8, FieldNames
<1> HIDE DEF retry
<1>10. /\ DOMAIN js' = JsFieldNames /\ js'.ws = NoSocket /\ js'.ready = c.ready
       /\ js'.sent = js.sent /\ js'.reader = js.reader /\ js'.bytes_tx = js.bytes_tx
       /\ js'.bytes_acked = js.bytes_acked /\ js'.chunks_ahead = js.chunks_ahead
       /\ js'.orphans = js.orphans
       BY <1>7, <1>8, <1>9
<1>11. js'.conn_retry => ~js'.finished /\ ~js'.cancelled
       BY <1>3, <1>4, <1>7, <1>8, <1>9 DEF StaysClosed
<1>12. Framed(js')
       BY <1>1, <1>5, <1>10 DEF Framed
<1>13. /\ tb \in [Sockets -> Seq(FromServer)] /\ tb[s] = <<>>
       /\ \A t \in Sockets \ {s} : tb[t] = toBrowser[t]
       BY <1>1
<1> HIDE DEF tb
<1>14. \A t \in Sockets : js'.ready[t] = "closed"
       BY <1>1, <1>3, <1>4, <1>5, <1>10 DEF Tidy, Framed
<1>15. ASSUME NEW t \in Sockets
       PROVE  UnderWay(js', tb, t) <= SendAhead
  <2>1. Chunks(js.sent[t]) \in Nat /\ Chunks(toBrowser[t]) \in Nat
        BY <1>1, UnderWayNat
  <2>2. tb[t] = toBrowser[t] \/ Chunks(tb[t]) = 0
        BY <1>13, ChunksNone
  <2>3. Chunks(js.sent[t]) + Chunks(toBrowser[t]) <= SendAhead
        BY <1>1 DEF WindowAt, UnderWay
  <2>4. QED
        BY <1>10, <2>1, <2>2, <2>3, BrowserAssumption DEF UnderWay
<1>16. WindowAt(js', tb)
       BY <1>1, <1>10, <1>14, <1>15 DEF WindowAt, WindowOpen
<1>17. Tidy(js', tb)
  <2>1. \A t \in Sockets : tb[t] = <<>>
        BY <1>1, <1>3, <1>13 DEF Tidy
  <2>2. QED
        BY <1>1, <1>10, <1>11, <1>14, <2>1 DEF Tidy
<1>18. QED
       BY <1>2, <1>12, <1>14, <1>16, <1>17 DEF Calm, StaysShut

LEMMA BrowserCalm ==
  ASSUME CalmInv, "hurry" \notin UserActs, Browser
  PROVE  Calm(js', toBrowser') /\ StaysShut
<1>1. /\ Framed(js) /\ toBrowser \in [Sockets -> Seq(FromServer)]
      /\ Calm(js, toBrowser) /\ WindowAt(js, toBrowser)
      /\ \A t \in Sockets : js.ready[t] # "closed" => js.ws = t
      /\ js.orphans = 0 /\ (js.conn_retry => js.ws = NoSocket /\ ~js.finished /\ ~js.cancelled)
      BY CalmTyped DEF CalmInv, Calm, Tidy
<1>2. ASSUME NEW k, Steady(js, k), js' = k, toBrowser' = toBrowser
      PROVE  Calm(js', toBrowser') /\ StaysShut
  <2>1. Calm(js', toBrowser')
        BY <1>1, <1>2, CalmStays
  <2>2. QED
        BY <1>2, <2>1 DEF Steady, Settled, StaysShut
<1>3. CASE RetryFires
  <2>1. PICK j \in OneTimerLess, s \in Sockets : StartsOn(j, s)
        BY <1>3 DEF RetryFires
  <2>2. j = [js EXCEPT !.conn_retry = FALSE] /\ js.conn_retry
        BY <1>1, <2>1 DEF OneTimerLess
  <2>3. QED
        BY <1>1, <2>1, <2>2, StartCalm
<1>4. CASE UserUnpauses
  <2>1. PICK s \in Sockets : StartsOn([js EXCEPT !.conn_retry = FALSE], s)
        BY <1>4 DEF UserUnpauses
  <2>2. js.ws = NoSocket /\ ~js.finished /\ ~js.cancelled
        BY <1>4 DEF UserUnpauses, MayPause
  <2>3. QED
        BY <2>1, <2>2, StartCalm
<1>5. CASE UserCancels
      BY <1>1, <1>2, <1>5, CancelSteady DEF UserCancels, connVars
<1>6. CASE UserPauses
      BY <1>1, <1>2, <1>6, UserSteady DEF UserPauses, connVars
<1>7. CASE ChunkLoaded
  <2>1. js' = OnLoad(js) /\ toBrowser' = toBrowser /\ js.reader # NotLoading
        BY <1>7 DEF ChunkLoaded, connVars
  <2>2. WindowAt(js', toBrowser') /\ Settled(js, js')
        BY <1>1, <2>1, LoadInWindow
  <2>3. Tidy(js', toBrowser')
        BY <1>1, <2>1, <2>2, TidyStays DEF Calm
  <2>4. QED
        BY <2>2, <2>3 DEF Calm, Settled, StaysShut
<1>8. CASE ChunkLoadFails
      BY <1>1, <1>2, <1>8, UserSteady DEF ChunkLoadFails, connVars
<1>9. ASSUME NEW s \in Sockets, SocketOpens(s)
      PROVE  Calm(js', toBrowser') /\ StaysShut
  <2> DEFINE o == [js EXCEPT !.ready[s] = "open"]
  <2>1. js' = OnOpen(o) /\ toBrowser' = toBrowser /\ js.ready[s] # "closed"
        BY <1>9 DEF SocketOpens
  <2>2. Steady(js, o)
        BY <1>1, <2>1, SocketSteady
  <2> HIDE DEF o
  <2>3. Steady(o, OnOpen(o))
        BY <2>2, SocketSteady DEF Steady, Settled
  <2>4. QED
        BY <1>2, <2>1, <2>2, <2>3, SteadyTwice
<1>10. QED
       BY <1>3, <1>4, <1>5, <1>6, <1>7, <1>8, <1>9, ArrivesCalm, ClosesCalm DEF Browser

-----------------------------------------------------------------------------
(* The invariant.                                                            *)

\* What the server and the network do leaves every socket in the browser as it is.
LEMMA SocketsLeft ==
  ASSUME CalmInv, NEW q, js' = js \/ js' = [js EXCEPT !.sent = q]
  PROVE  StaysShut
<1>1. js'.ready = js.ready
      BY CalmTyped, FieldNames DEF Framed
<1>2. QED
      BY <1>1 DEF StaysShut

LEMMA CalmStep ==
  ASSUME CalmInv, "hurry" \notin UserActs, [TransferNext]_transferVars
  PROVE  CalmInv' /\ StaysShut
<1>1. AnyhowInv'
      BY AnyhowStep DEF CalmInv, Lives
<1>2. CASE HandoverEnds \/ UploadExpires \/ UNCHANGED transferVars
  <2>1. js' = js /\ toBrowser' = toBrowser
        BY <1>2 DEF HandoverEnds, UploadExpires, transferVars, connVars
  <2>2. Calm(js', toBrowser') /\ StaysShut
        BY <2>1 DEF CalmInv, StaysShut
  <2>3. QED
        BY <1>1, <2>2 DEF CalmInv
<1>3. CASE Browser
      BY <1>1, <1>3, BrowserCalm DEF CalmInv
<1>4. ASSUME NEW s \in Sockets, ConnectionLost(s)
      PROVE  CalmInv' /\ StaysShut
  <2>1. \E q : js' = [js EXCEPT !.sent = q]
        BY <1>4 DEF ConnectionLost
  <2>2. QED
        BY <1>1, <1>4, <2>1, LossCalm, SocketsLeft DEF CalmInv
<1>5. ASSUME NEW s \in Sockets, Session(s)
      PROVE  CalmInv' /\ StaysShut
  <2>1. \E q : js' = js \/ js' = [js EXCEPT !.sent = q]
        BY <1>5, SessionStep DEF SessionDoes
  <2>2. QED
        BY <1>1, <1>5, <2>1, SessionCalm, SocketsLeft DEF CalmInv
<1>6. CASE ServerRestarts
  <2>1. \E q : js' = [js EXCEPT !.sent = q]
        BY <1>6 DEF ServerRestarts
  <2>2. QED
        BY <1>1, <1>6, <2>1, RestartCalm, SocketsLeft DEF CalmInv
<1>7. QED
      BY <1>2, <1>3, <1>4, <1>5, <1>6 DEF TransferNext

LEMMA CalmInvInit ==
  ASSUME TransferInit
  PROVE  CalmInv
<1>1. PICK s \in Sockets : js = Start(Unused, s)
      BY DEF TransferInit
<1>2. /\ Framed(Unused) /\ Unused.reader = NotLoading /\ Unused.orphans = 0
      /\ Unused.conn_retry = FALSE
      /\ \A t \in Sockets : Unused.ready[t] = "closed" /\ Unused.sent[t] = <<>>
  <2> DEFINE none == [t \in Sockets |-> <<>>]
  <2>1. none \in [Sockets -> Seq(Messages)] /\ Unused.sent = none
        BY EmptySeq DEF Unused
  <2> HIDE DEF none
  <2>2. Framed(Unused)
        BY <2>1 DEF Framed, JsFieldNames, Unused, Ready, NotLoading
  <2>3. QED
        BY <2>2 DEF Unused
<1>3. toBrowser = [t \in Sockets |-> <<>>]
      BY DEF TransferInit
<1>4. /\ toBrowser \in [Sockets -> Seq(FromServer)] /\ \A t \in Sockets : toBrowser[t] = <<>>
      BY <1>3
<1>5. ASSUME NEW t \in Sockets
      PROVE  UnderWay(Unused, toBrowser, t) <= SendAhead
  <2>1. Chunks(Unused.sent[t]) = 0 /\ Chunks(toBrowser[t]) = 0
        BY <1>2, <1>4, ChunksNone
  <2>2. QED
        BY <2>1, BrowserAssumption DEF UnderWay
<1>6. WindowAt(Start(Unused, s), toBrowser)
      BY <1>2, <1>4, <1>5, StartInWindow
<1>7. Opened(Unused, js, s)
      BY <1>1, <1>2, StartSets
<1>8. /\ Framed(js) /\ js.ws = s /\ js.orphans = 0 /\ js.conn_retry = FALSE
      /\ js.ready = [Unused.ready EXCEPT ![s] = "connecting"]
      BY <1>2, <1>7 DEF Opened, SameTimers
<1>9. Tidy(js, toBrowser)
  <2>1. \A t \in Sockets : t # s => js.ready[t] = "closed"
        BY <1>2, <1>8 DEF Framed
  <2>2. QED
        BY <1>4, <1>8, <2>1 DEF Tidy
<1>10. QED
       BY <1>1, <1>6, <1>8, <1>9, AnyhowInvInit DEF CalmInv, Calm

LEMMA TransferIsCalm ==
  ASSUME "hurry" \notin UserActs
  PROVE  TransferSpec => []CalmInv
<1>1. CalmInv /\ [TransferNext]_transferVars => CalmInv'
      BY CalmStep
<1>2. QED
      BY <1>1, CalmInvInit, PTL DEF TransferSpec

-----------------------------------------------------------------------------
(* What has arrived.                                                         *)

Numbered == \A i \in 1..Len(stored) : stored[i] = i - 1

WholeFile == stored = [i \in 1..Total |-> i - 1]

LEMMA NumberedStep ==
  ASSUME TransferInv, TransferInv', Patient, Numbered, [TransferNext]_transferVars
  PROVE  Numbered'
<1>1. FileStep
      BY TransferStep, TransferStutter
<1>2. stored' = stored \/ stored' = Append(stored, Len(stored))
      BY <1>1 DEF FileStep, File!FileNext, File!fileVars, File!StoreNext, File!HandFileOver,
                  File!AcceptFile, File!FailTransfer, File!TellFinished
<1>3. CASE stored' = stored
      BY <1>3 DEF Numbered
<1>4. CASE stored' = Append(stored, Len(stored))
  <2>1. stored \in Seq(0..Total - 1) /\ stored' \in Seq(0..Total - 1)
        BY DEF TransferInv, UploadInv
  <2>2. /\ Len(stored) \in Nat /\ Len(stored') = Len(stored) + 1
        /\ \A i \in 1..Len(stored) : stored'[i] = stored[i]
        /\ stored'[Len(stored) + 1] = Len(stored)
    <3>1. stored \in Seq(Int) /\ Len(stored) \in Int
          BY <2>1, LenProperties, ElementOfSeq, BrowserAssumption
    <3>2. QED
          BY <1>4, <3>1, AppendProperties, LenProperties
  <2>3. QED
        BY <2>2 DEF Numbered
<1>5. QED
      BY <1>2, <1>3, <1>4

LEMMA WhatArrives ==
  ASSUME TransferInv, Numbered
  PROVE  /\ upload \in {"handing", "finished", "failed", "gone"} => WholeFile
         /\ accepted => WholeFile
         /\ js.finished => accepted
<1>1. stored \in Seq(0..Total - 1) /\ Total \in Nat
      BY BrowserAssumption DEF TransferInv, UploadInv
<1>2. Len(stored) = Total => WholeFile
      BY <1>1, LenProperties DEF Numbered, WholeFile
<1>3. QED
      BY <1>2 DEF TransferInv, UploadInv, SessionTypes, LibraryInv, EndInv

-----------------------------------------------------------------------------
(* The theorems.                                                             *)

\* Whatever the user and the loads do, an upload over any number of connections lives
\* as UploadLife says: it receives no more than its size (websocket.go:382), is handed
\* over when that is complete (websocket.go:487) and receives nothing after that, and
\* the library reports it as finished (jslib:255) only after the backend has accepted it.
THEOREM TransferFollowsLife == TransferSpec => FollowsLife
<1>1. AnyhowInv /\ [TransferNext]_transferVars => [Life!LifeNext]_(Life!lifeVars)
      BY AnyhowStep DEF Lives, LifeStep
<1>2. QED
      BY <1>1, AnyhowInvInit, TransferIsAnyhow, PTL DEF TransferSpec, FollowsLife, Life!LifeSpec

\* The transfer implements FileTransfer: the stored file grows by the next chunk
\* only, whatever connections are lost and resumed (websocket.go:346, jslib:317), it is
\* handed over complete, and the browser is told "finished" (jslib:255) only after
\* the app backend has accepted it.
THEOREM TransferKeepsOrder ==
  ASSUME LoadsAreShort, "hurry" \notin UserActs
  PROVE  TransferSpec => KeepsOrder
<1>1. Patient
      BY DEF Patient
<1>2. TransferInit => File!FileInit
      BY StartFresh DEF TransferInit, Phase, File!FileInit
<1>3. TransferInv /\ TransferInv' /\ [TransferNext]_transferVars => [File!FileNext]_(File!fileVars)
      BY <1>1, TransferStep, TransferStutter DEF FileStep
<1>4. TransferSpec => []TransferInv
      BY <1>1, TransferIsInv
<1>5. QED
      BY <1>2, <1>3, <1>4, PTL DEF TransferSpec, KeepsOrder, File!FileSpec

\* What is handed over to the app backend (websocket.go:487), and what it accepts, is
\* the file of the browser, every chunk in its place and none missing or twice, over
\* however many connections it came; and the library reports "finished" (jslib:255)
\* only of such a file.
THEOREM TransferArrivesWhole ==
  ASSUME LoadsAreShort, "hurry" \notin UserActs
  PROVE  TransferSpec => [](/\ upload \in {"handing", "finished", "failed", "gone"} => WholeFile
                            /\ js.finished => accepted /\ WholeFile)
<1>1. Patient
      BY DEF Patient
<1>2. TransferSpec => []TransferInv
      BY <1>1, TransferIsInv
<1>3. TransferInit => Numbered
      BY DEF TransferInit, Numbered
<1>4. TransferInv /\ TransferInv' /\ Numbered /\ [TransferNext]_transferVars => Numbered'
      BY <1>1, NumberedStep
<1>5. TransferInv /\ Numbered =>
        /\ upload \in {"handing", "finished", "failed", "gone"} => WholeFile
        /\ js.finished => accepted /\ WholeFile
      BY WhatArrives
<1>6. QED
      BY <1>2, <1>3, <1>4, <1>5, PTL DEF TransferSpec

\* The library never counts a chunk as arrived that the server has not stored
\* (bytes_acked, doc/api.md:54, jslib:317): the acks of a lost connection are not counted on top of
\* the position that the next connection is given.
THEOREM TransferAcked ==
  ASSUME LoadsAreShort, "hurry" \notin UserActs
  PROVE  TransferSpec => []AckedIsStored
<1>1. TransferInv => AckedIsStored
      BY DEF TransferInv, LibraryInv, EndInv, AckedIsStored
<1>2. TransferSpec => []TransferInv
      BY TransferIsInv DEF Patient
<1>3. QED
      BY <1>1, <1>2, PTL

\* When the library says "cancelled" (jslib:390), without an error, the server has
\* given the upload up (websocket.go:427) and does not hand it over any more,
\* whatever the user does and however long a chunk loads.
THEOREM TransferCancelled == TransferSpec => []CancelledIsDiscarded
<1>1. AnyhowInv => CancelledIsDiscarded
      BY DEF AnyhowInv
<1>2. QED
      BY <1>1, TransferIsAnyhow, PTL

\* At most SendAhead chunks of a connection are sent and not yet acknowledged
\* (jslib:152), however long a chunk loads, where the user waits for a paused socket.
THEOREM TransferWindow ==
  ASSUME "hurry" \notin UserActs
  PROVE  TransferSpec => []WindowRespected
<1>1. CalmInv => WindowRespected
      BY DEF CalmInv, Calm, WindowAt, UnderWay, WindowRespected
<1>2. QED
      BY <1>1, TransferIsCalm, PTL

\* Nothing opens another connection for an upload that is finished or cancelled
\* (jslib:343, 429): no timer is pending then, however long a chunk loads.
THEOREM TransferStaysEnded ==
  ASSUME "hurry" \notin UserActs
  PROVE  TransferSpec => StaysEnded
<1>1. CalmInv /\ [TransferNext]_transferVars
        => [Ended => \A s \in Sockets : js.ready[s] = "closed" => js'.ready[s] = "closed"]_transferVars
      BY CalmStep DEF StaysShut
<1>2. QED
      BY <1>1, TransferIsCalm, PTL DEF TransferSpec, StaysEnded

\* Type correctness: of the library, whose uploads, sockets and timers JsUploader
\* keeps in one record, of what is under way, of the sessions (websocket.go) and
\* of the upload.
THEOREM TransferTyped ==
  ASSUME LoadsAreShort, "hurry" \notin UserActs
  PROVE  TransferSpec => []TransferTypeOK
<1>1. TransferInv => TransferTypeOK
  <2> SUFFICES ASSUME TransferInv
               PROVE  TransferTypeOK
      OBVIOUS
  <2>1. js \in JsRecord /\ toBrowser \in [Sockets -> Seq(ToBrowser)] /\ UploadInv /\ SessionTypes
        BY DEF TransferInv, LibraryInv
  <2>2. JsTypeOK
        BY <2>1 DEF JsTypeOK, JsRecord, Handlings, ToServer, Ready, Usual
  <2>3. QED
        BY <2>1, <2>2 DEF TransferTypeOK, ToBrowser, UploadInv, SessionTypes
<1>2. TransferSpec => []TransferInv
      BY TransferIsInv DEF Patient
<1>3. QED
      BY <1>1, <1>2, PTL

=============================================================================
