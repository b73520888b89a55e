SPECIFICATION FairSpec
CONSTANTS
  k1 = k1
  k2 = k2
  None = None
  Conn = {k1, k2}
  TLSConn = {k1}
  ServerConn = {}
  WebConn = {k2}
  SendQ <- SmallSendQ
  RecvQ <- SmallRecvQ
  Room = 1
  MaxLine = 3
  MaxIn = 2
  MaxTls = 1
  MaxEof = 1
INVARIANTS
  TypeOK
  Wakeable
PROPERTIES
  KeepsPromise
  Progress
CHECK_DEADLOCK FALSE
