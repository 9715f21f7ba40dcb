CONSTANTS
  Ids = {a, b}
  Endpoints = {e1, e2}
  a = a
  b = b
  e1 = e1
  e2 = e2
  NoEndpoint = NoEndpoint
  NoPacket = NoPacket
  ClientDatagrams <- MCClientFew
  PeerDatagrams <- MCPeerFew
  IdSize = 8
  Threads = {t1, t2}
  MultiThreaded = FALSE
  OneShot = FALSE
  ClientReceives = 2
SPECIFICATION Spec
INVARIANTS MapAccessExclusive
CHECK_DEADLOCK FALSE
