CONSTANTS
  Sessions <- MCSessions
  shape <- MCShape
  Peers <- MCPeers
  MaxUpsets = 1
SPECIFICATION Spec
INVARIANT RpcInv
INVARIANT CancelInTime
PROPERTY LoadEnds
