CONSTANTS
  c1 = c1 c2 = c2 p1 = p1 a1 = a1 a2 = a2 a3 = a3 r1 = r1
  Lcore <- MCLcore
  Port <- MCPort
  QueueId <- MCQueueId
  Route <- MCRoute
  Addr <- MCAddr
  NoRib = NoRib
  MsgType <- MCPortGet
  RingSize = 1
  Burst = 1
  MaxRxq = 2
  MaxVer = 3
  MallocMayFail = FALSE
SPECIFICATION Spec
SYMMETRY MCSymmetry
INVARIANT FibMatchesMaster
