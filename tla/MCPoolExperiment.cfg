CONSTANTS
  Main = main
  Workers = {w1, w2}
  Threads = {main, w1, w2}
  ObjectSizes = {20, 2560}
  HeaderSize = 32
  Iterations = 2
  ThreadIterations = 2
  StressIterations = 3
  Batch = 2
  MaxBlocks = 8
  PoolSizes <- MCPoolSizes
  PoolOf <- MCPoolOf
SPECIFICATION Spec
CHECK_DEADLOCK FALSE
INVARIANT BlocksInv
PROPERTY RefinesBlockStore
