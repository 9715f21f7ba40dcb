CONSTANTS
  Ids = {a, b}
  Endpoints = {e1, e2}
  a = a
  b = b
  e1 = e1
  e2 = e2
  NoEndpoint = NoEndpoint
  NoPacket = NoPacket
  ClientDatagrams <- MCClient
  PeerDatagrams <- MCPeer
  IdSize = 8
  Threads = {t1, t2}
  MultiThreaded = TRUE
  OneShot = TRUE
  ClientReceives = 2
SPECIFICATION FairSpec
INVARIANTS TypeOK MapAccessExclusive ReceivesConserved
PROPERTIES ImplementsService PeerPortServed HandlersReturn DeliveredIsForwarded
CHECK_DEADLOCK FALSE
