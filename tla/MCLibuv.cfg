CONSTANTS
  Ids = {a}
  Endpoints = {e1, e2}
  a = a
  e1 = e1
  e2 = e2
  NoEndpoint = NoEndpoint
  NoPacket = NoPacket
  ClientDatagrams <- MCClient
  PeerDatagrams <- MCPeer
  IdSize = 8
  Builds = {TRUE, FALSE}
  MaxSlots = 2
  MaxChunks = 2
  MaxBuffers = 4
SPECIFICATION FairSpec
INVARIANTS BuffersAccounted ChunksDistinct ChunksSuffice
PROPERTIES PoolIsLifo ImplementsService BuffersReturn
CHECK_DEADLOCK FALSE
