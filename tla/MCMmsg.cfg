CONSTANTS
  Ids = {a, b}
  Endpoints = {e1, e2}
  a = a
  b = b
  e1 = e1
  e2 = e2
  NoEndpoint = NoEndpoint
  NoPacket = NoPacket
  ClientDatagrams <- MCClient
  PeerDatagrams <- MCPeer
  IdSize = 8
  PacketSize = 9
  Capacity = 2
SPECIFICATION FairSpec
INVARIANTS TypeOK MessagesIntact CountedIsSent
PROPERTIES ImplementsService DeliveredIsForwarded
CHECK_DEADLOCK FALSE
