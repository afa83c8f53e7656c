SPECIFICATION FairSpec
CONSTANTS
  Threads = {t1, t2}
  Queues = {q1, q2}
  Jobs = {j1, j2, j3}
  NoQueue = NoQueue
  NoJob = NoJob
  PushModes = {FALSE, TRUE}
  MaxClears = 1
INVARIANTS
  QueueInv
  SerialExecution
  NoLostWakeup
PROPERTIES
  RefinesSerialQueue
  EveryJobLeaves
  ComesToRest
