SPECIFICATION FairSpec
CONSTANTS
  Workers = {w1, w2}
  Main = Main
  Jobs = {j1, j2, j3}
  NoJob = NoJob
  NoThread = NoThread
  MaxSpurious = 1
CHECK_DEADLOCK FALSE
INVARIANTS
  PoolInv
  NoJobAbandoned
PROPERTY
  EveryJobStarts
