SPECIFICATION TimerFairSpec
CONSTANTS
  Threads = {t1, t2}
  Queues = {q1}
  Jobs = {j1, j2}
  NoQueue = NoQueue
  NoJob = NoJob
  PushModes = {FALSE}
  MaxClears = 1
  MethodJobs = {j1}
  Delays = {0, 1}
  MaxTick = 1
  MaxTimerClears = 1
INVARIANTS
  TimerInv
  TickOrder
PROPERTIES
  NotEarly
  NothingLost
  TimersFire
  RefinesJobQueue
