CONSTANTS
  Threads <- MCThreads
  ChunkSize = 24
  plan <- MCPlan
  Cuts = {7}
  BufferSize = 20
  BufferCount = 3
  MaxPacket = 20
SPECIFICATION Spec
CHECK_DEADLOCK FALSE
INVARIANT PipeInv
PROPERTY RefinesRecvBuffer
PROPERTY RefinesPacketChannel
PROPERTY EveryPacketHandled
