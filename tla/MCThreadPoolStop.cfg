SPECIFICATION FairSpec
CONSTANTS
  Workers = {w1, w2}
  Main = Main
  Jobs = {j1}
  NoJob = NoJob
  NoThread = NoThread
  MaxSpurious = 0
CHECK_DEADLOCK FALSE
PROPERTY
  StopEndsWorkers
