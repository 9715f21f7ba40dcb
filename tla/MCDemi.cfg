CONSTANTS
  Ids = {idA, idB}
  Endpoints = {e1, e2}
  idA = idA
  idB = idB
  e1 = e1
  e2 = e2
  NoEndpoint = NoEndpoint
  Nothing = Nothing
  ClientDatagrams <- MCClient
  PeerDatagrams <- MCPeer
  IdSize = 8
SPECIFICATION Spec
INVARIANTS PushesAreInitialised LossIsBounded
CHECK_DEADLOCK FALSE
