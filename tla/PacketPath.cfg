CONSTANTS
  Port = {0, 1}
  Slot = {1, 2}
  Scene <- MCScene
  RingSize = 2
  TxBurst = 2
  RxSize = 1
  QueueSize = 2
SPECIFICATION Spec
INVARIANTS BuffersAccounted Isolated OncePerLink
PROPERTIES Returned Resolved
CHECK_DEADLOCK FALSE
