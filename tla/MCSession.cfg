SPECIFICATION FairSpec
CONSTANTS
  Threads = {t1, t2, t3}
  Buffers = {b1, b2}
  NoThread = NoThread
  NoBuffer = NoBuffer
  MaxFailures = 1
CHECK_DEADLOCK FALSE
INVARIANTS
  SessionInv
  CompletionsOwned
  ReleaseFindsSession
  NoForgottenSend
PROPERTIES
  RefinesSendStream
  EveryBufferSent
  DisconnectReleases
