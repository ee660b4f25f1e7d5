CONSTANTS
  t1 = t1
  t2 = t2
  t3 = t3
  NoThread = NoThread
  Threads = {t1, t2, t3}
  QMax = 2
  MaxMsgs = 4
SPECIFICATION FairSpec
INVARIANTS
  TypeOK
  WriterServesQueue
  StreamIsPrefix
  StreamInOrder
  NothingLost
  OverflowStops
  StopRunsOnce
  ReleasedClean
PROPERTIES
  ImplementsChannel
  StoppedIsReleased
  PeerEndsConnection
