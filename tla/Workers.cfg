CONSTANTS
  Lcore = {0, 1, 2}
  Main = 0
  Func = {"router", "rib_manager", "netlink_thread"}
  Vty = {"v"}
  Site <- MCSite
  ThreadLimit = 4
  MayStopMain = TRUE
SPECIFICATION Spec
INVARIANTS CounterShown OneManager
PROPERTIES RestartRuns CommandEnds
