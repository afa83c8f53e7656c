SPECIFICATION FairSpec
CONSTANTS
  Threads <- MCThreads
  MaxDepth = 3
  ReadSpan = 16
INVARIANTS
  LockInv
  MutualExclusion
  WriteCountRaceFree
  OnlyUpgradesCrash
PROPERTIES
  RefinesRWLock
  FreeLockIsTaken
CHECK_DEADLOCK FALSE
