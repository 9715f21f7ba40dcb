CONSTANTS
  Ids = {idA, idB}
  Endpoints = {e1, e2}
  idA = idA
  idB = idB
  e1 = e1
  e2 = e2
  NoEndpoint = NoEndpoint
  NoPacket = NoPacket
  ClientDatagrams <- MCClient
  PeerDatagrams <- MCPeer
  IdSize = 8
  BufferSize = 9
  NumEvents = 5
  MaxFailures = 1
SPECIFICATION Spec
INVARIANTS ForwardedWhole
CHECK_DEADLOCK FALSE
