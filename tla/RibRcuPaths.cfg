CONSTANTS
  c1 = c1 c2 = c2 p1 = p1 a1 = a1 a2 = a2 a3 = a3 r1 = r1
  Lcore <- MCLcore
  Port <- MCPort
  QueueId <- MCQueueId
  Route <- MCRoute
  Addr <- MCAddr
  NoRib = NoRib
  MsgType <- MCPaths
  RingSize = 2
  Burst = 2
  MaxRxq = 2
  MaxVer = 3
  MallocMayFail = TRUE
SPECIFICATION FairSpec
INVARIANTS NothingLeaked StopFlagCleared
PROPERTY BatchProcessed
