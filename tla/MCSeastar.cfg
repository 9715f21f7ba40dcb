CONSTANTS
  Ids = {idA}
  Endpoints = {e1, e2}
  idA = idA
  e1 = e1
  e2 = e2
  NoEndpoint = NoEndpoint
  ClientDatagrams <- MCClient
  PeerDatagrams <- MCPeer
  IdSize = 8
  NoPacket = NoPacket
  Shards = {s0, s1}
  MaxFailures = 2
SPECIFICATION Spec
INVARIANTS SentInOrder EndsOnlyDeaf
PROPERTIES UnracedImplementsService
CHECK_DEADLOCK FALSE
