----------------------------- MODULE MCWorkers ------------------------------
(* One operator restarts forwarding workers on two lcores while a vty       *)
(* client comes and goes; the others run a manager on one lcore, in turn    *)
(* with a worker or with netlink_thread, or as an lthread.                  *)
EXTENDS Workers

MCSite ==
  {[lcore |-> {1, 2}, func |-> {"router"}, vty |-> {"v"}, lthread |-> FALSE],
   [lcore |-> {1}, func |-> {"router", "rib_manager"}, vty |-> {}, lthread |-> TRUE],
   [lcore |-> {1}, func |-> {"rib_manager", "netlink_thread"}, vty |-> {},
    lthread |-> TRUE]}
=============================================================================
