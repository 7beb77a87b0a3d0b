------------------------------ MODULE WsConnProofs ------------------------------
(***************************************************************************)
(* The goroutines of one connection, however many messages wait in the     *)
(* socket.                                                                 *)
(***************************************************************************)
EXTENDS WsConn, TLAPS

WsInv == WsTypeOK /\ WriterServesHandler

LEMMA UnreadBounds ==
  ASSUME NEW n \in 0..MaxUnread
  PROVE  /\ n < MaxUnread => n + 1 \in 0..MaxUnread
         /\ n > 0 => n - 1 \in 0..MaxUnread
BY MaxUnreadAssumption

LEMMA WsInvInit == WsInit => WsInv
<1> SUFFICES ASSUME WsInit
             PROVE  WsInv
    OBVIOUS
<1>1. unread = 0
      BY DEF WsInit
<1>2. unread \in 0..MaxUnread
      BY <1>1, MaxUnreadAssumption
<1>3. QED
      BY <1>2, Zenon DEF WsInit, WsInv, WsTypeOK, WriterServesHandler

LEMMA WsInvStep == WsInv /\ [WsNext]_wsVars => WsInv'
<1> SUFFICES ASSUME WsInv, [WsNext]_wsVars
             PROVE  WsInv'
    OBVIOUS
<1> USE MaxUnreadAssumption DEF WsInv, WsTypeOK, WriterServesHandler
<1>1. CASE BrowserSends
  <2>1. unread < MaxUnread /\ unread' = unread + 1
        BY <1>1 DEF BrowserSends
  <2>2. unread' \in 0..MaxUnread
        BY <2>1, UnreadBounds, Zenon
  <2>3. QED
        BY <1>1, <2>2, Zenon DEF BrowserSends
<1>2. CASE ConnectionLost
      BY <1>2 DEF ConnectionLost
<1>3. CASE ReaderSteps
  <2>1. CASE ReadsMessage
    <3>1. unread > 0 /\ unread' = unread - 1
          BY <2>1 DEF ReadsMessage
    <3>2. unread' \in 0..MaxUnread
          BY <3>1, UnreadBounds, Zenon
    <3>3. QED
          BY <2>1, <3>2 DEF ReadsMessage
  <2>2. CASE ReadFails
        BY <2>2 DEF ReadFails
  <2>3. CASE Delivers
        BY <2>3 DEF Delivers
  <2>4. CASE OfferExpires
        BY <2>4 DEF OfferExpires
  <2>5. QED
        BY <1>3, <2>1, <2>2, <2>3, <2>4 DEF ReaderSteps
<1>4. CASE HandlerSteps
  <2>1. CASE StartsReceiving \/ StartsSending \/ Returns
        BY <2>1 DEF StartsReceiving, StartsSending, Returns
  <2>2. CASE FindsClosed
        BY <2>2 DEF FindsClosed
  <2>3. QED
        BY <1>4, <2>1, <2>2 DEF HandlerSteps
<1>5. CASE WriterSteps
  <2>1. CASE TakesCommand
        BY <2>1 DEF TakesCommand
  <2>2. CASE WriteEnds
        BY <2>2 DEF WriteEnds, WithResult
  <2>3. CASE RepliesToHandler
        BY <2>3 DEF RepliesToHandler
  <2>4. CASE ClosesSocket
        BY <2>4 DEF ClosesSocket
  <2>5. QED
        BY <1>5, <2>1, <2>2, <2>3, <2>4 DEF WriterSteps
<1>6. CASE UNCHANGED wsVars
      BY <1>6 DEF wsVars
<1>7. QED
      BY <1>1, <1>2, <1>3, <1>4, <1>5, <1>6 DEF WsNext

LEMMA AlwaysWsInv == WsSpec => []WsInv
BY WsInvInit, WsInvStep, PTL DEF WsSpec

\* The states of the goroutines are those that the code has a place for.
THEOREM WsTypeCorrect == WsSpec => []WsTypeOK
<1>1. WsInv => WsTypeOK
      BY DEF WsInv
<1>2. QED
      BY <1>1, AlwaysWsInv, PTL

\* All sends of a handler share the channel chWriteRet; a result is there exactly
\* for the send that waits for it, so a send never takes the result of an earlier
\* one and the writer never blocks on one that nobody takes (websocket.go:180-235).
THEOREM WsWriterServesHandler == WsSpec => []WriterServesHandler
<1>1. WsInv => WriterServesHandler
      BY DEF WsInv
<1>2. QED
      BY <1>1, AlwaysWsInv, PTL

=============================================================================
