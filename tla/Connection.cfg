CONSTANT MaxUnread = 4
SPECIFICATION WsSpec
CHECK_DEADLOCK FALSE
INVARIANTS
  WsTypeOK
  WriterServesHandler
PROPERTIES
  SendReturns
  ReceiveReturns
  SocketCloses
  ReaderLeaves
