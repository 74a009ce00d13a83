------------------------------- MODULE RibRcu -------------------------------
(***************************************************************************)
(* How sdplane publishes its forwarding state.                             *)
(*                                                                         *)
(* One thread, rib_manager, takes messages from a bounded ring, builds a   *)
(* modified copy of the rib, publishes it with rcu_assign_pointer, waits   *)
(* for a QSBR grace period and frees the rib it replaced.  The worker      *)
(* lcores (router, l2_switch, vlan_switch, ...) dereference the pointer    *)
(* once per loop, poll the rx queues that rib assigns to their lcore and   *)
(* then report a quiescent state.                                          *)
(*                                                                         *)
(* A rib is reduced to what the protocol depends on: its version, the      *)
(* assignment of rx queues to lcores, the FIB, the ports' stop flag, and   *)
(* whether it has a rib_info at all (the "zero" rib has none).             *)
(***************************************************************************)
EXTENDS Integers, Sequences, FiniteSets

CONSTANTS
  Lcore,          \* lcores that run a forwarding worker
  Port,           \* DPDK ports
  QueueId,        \* rx queue numbers of a port: 0 .. n-1
  Route,          \* routes of the master routing table
  Addr,           \* addresses malloc may return for a rib
  NoRib,          \* the NULL pointer
  MsgType,        \* message types the shell and the netlink thread send
  RingSize,       \* usable slots of msg_queue_rib
  Burst,          \* RIB_RING_BURST_SIZE
  MaxRxq,         \* MAX_RX_QUEUE_PER_LCORE
  MaxVer,         \* bound: no message is sent that could make a rib newer
  MallocMayFail   \* whether malloc of the zero rib may return NULL

ASSUME NoRibAssumption == NoRib \notin Addr
ASSUME QueueIdAssumption == QueueId \subseteq Nat
ASSUME RingAssumption == RingSize \in Nat \ {0} /\ Burst \in Nat \ {0}
ASSUME MaxRxqAssumption == MaxRxq \in Nat
ASSUME MaxVerAssumption == MaxVer \in Nat
ASSUME MallocAssumption == MallocMayFail \in BOOLEAN

MsgTypes == {"qconf", "txrx", "tap_if", "port_get", "route", "other"}

ASSUME MsgTypeAssumption == MsgType \subseteq MsgTypes

Queue == Port \X QueueId
Qconf == [Lcore -> SUBSET Queue]

VARIABLES
  thread_qconf,  \* the shell's wanted assignment of queues to lcores
  ring,          \* msg_queue_rib
  batch,         \* messages dequeued by the manager, not yet processed
  master,        \* rib_tree_master: the routes of the routing table
  gptr,          \* rcu_global_ptr_rib
  heap,          \* the ribs, by address
  mpc,           \* where the manager is
  mnew,          \* the manager's private copy under construction
  pub,           \* ribs it has still to publish for this message
  mold,          \* the rib it is replacing
  mspare,        \* port_get: the copy process_message made and will delete
  waiting,       \* readers the grace period still waits for
  wpc,           \* where each worker is in its loop
  wrib,          \* the worker's rib pointer
  polled,        \* queues it has visited in this loop
  rxq            \* the queue it is inside rte_eth_rx_burst of

shellVars == <<thread_qconf>>
mgrVars == <<batch, master, gptr, heap, mpc, mnew, pub, mold, mspare>>
workerVars == <<wpc, wrib, polled, rxq>>
vars == <<shellVars, ring, mgrVars, waiting, workerVars>>

Message == [type : MsgTypes, qconf : Qconf, routes : SUBSET Route]

RibRecord == [live : BOOLEAN, info : BOOLEAN, ver : Nat, qconf : Qconf,
              fib : SUBSET Route, stopped : BOOLEAN]

\* An address that is not allocated; what freed memory holds is not used.
NoQueues == [l \in Lcore |-> {}]
Unused == [live |-> FALSE, info |-> FALSE, ver |-> 0, qconf |-> NoQueues,
           fib |-> {}, stopped |-> FALSE]

Init ==
  /\ thread_qconf = NoQueues
  /\ ring = <<>> /\ batch = <<>>
  /\ master = {}
  /\ gptr = NoRib
  /\ heap = [a \in Addr |-> Unused]
  /\ mpc = "idle" /\ mnew = NoRib /\ pub = <<>> /\ mold = NoRib
  /\ mspare = NoRib
  /\ waiting = {}
  /\ wpc = [l \in Lcore |-> "off"]
  /\ wrib = [l \in Lcore |-> NoRib]
  /\ polled = [l \in Lcore |-> {}]
  /\ rxq = [l \in Lcore |-> {}]

-----------------------------------------------------------------------------
(* Senders: the command shell and the netlink thread.                      *)

\* A message is sent only while no rib could exceed version MaxVer.
Budget ==
  /\ Len(ring) + Len(batch) < MaxVer
  /\ \A a \in Addr : heap[a].ver + Len(ring) + Len(batch) < MaxVer

\* internal_msg_send_to: a message for a full ring is freed and lost.
SendTo(m) ==
  ring' = IF Len(ring) < RingSize THEN Append(ring, m) ELSE ring

\* "set thread l port p queue k": the queue leaves the other lcores, joins l
\* if l has room, and the whole table is sent.
Reassign(qc, l, q) ==
  [k \in Lcore |->
     IF k # l THEN qc[k] \ {q}
     ELSE IF Cardinality(qc[k]) < MaxRxq THEN qc[k] \cup {q} ELSE qc[k]]

SetThreadQueue(l, q) ==
  /\ "qconf" \in MsgType /\ Budget
  /\ thread_qconf' = Reassign(thread_qconf, l, q)
  /\ SendTo([type |-> "qconf", qconf |-> thread_qconf', routes |-> {}])
  /\ UNCHANGED <<mgrVars, waiting, workerVars>>

\* Any other sender; routes are the table a "route" message leads to.
SendOther(t, r) ==
  /\ t \in MsgType \ {"qconf"} /\ Budget
  /\ t # "route" => r = {}
  /\ SendTo([type |-> t, qconf |-> NoQueues, routes |-> r])
  /\ UNCHANGED <<shellVars, mgrVars, waiting, workerVars>>

-----------------------------------------------------------------------------
(* rib_manager.                                                            *)

\* Mutant: only gaps are found, not a queue given to two lcores.
RibCheckGapsOnly(qc) ==
  \A l \in Lcore : \A q \in qc[l] : \A i \in QueueId :
    i < q[2] => \E k \in Lcore : <<q[1], i>> \in qc[k]

\* rib_check: over all lcores each port's queues must be 0, 1, ... once each.
RibCheck(qc) ==
  /\ \A l, k \in Lcore : l # k => qc[l] \cap qc[k] = {}
  /\ \A l \in Lcore : \A q \in qc[l] : \A i \in QueueId :
       i < q[2] => \E k \in Lcore : <<q[1], i>> \in qc[k]

\* The QCONF handler copies the entries that name at least one queue.
MergeQconf(old, msg) ==
  [l \in Lcore |-> IF msg[l] # {} THEN msg[l] ELSE old[l]]

\* rib_create: a copy of old with the next version and empty FIBs.
RibCreate(old) ==
  IF old = NoRib
  THEN [Unused EXCEPT !.live = TRUE, !.info = TRUE, !.ver = 1]
  ELSE [heap[old] EXCEPT !.ver = @ + 1, !.fib = {}]

ZeroRib == [Unused EXCEPT !.live = TRUE]

FreeAddr == {a \in Addr : ~heap[a].live}

RecvBurst ==
  /\ mpc = "idle" /\ batch = <<>> /\ ring # <<>>
  /\ LET n == IF Len(ring) < Burst THEN Len(ring) ELSE Burst
     IN  /\ batch' = SubSeq(ring, 1, n)
         /\ ring' = SubSeq(ring, n + 1, Len(ring))
  /\ UNCHANGED <<shellVars, master, gptr, heap, mpc, mnew, pub, mold, mspare,
                 waiting, workerVars>>

\* set_stop_flag (old) dereferences old, which is NULL before the first rib.
QconfCrash ==
  /\ mpc = "idle" /\ batch # <<>>
  /\ Head(batch).type = "qconf" /\ gptr = NoRib
  /\ mpc' = "crash"
  /\ UNCHANGED <<shellVars, ring, batch, master, gptr, heap, mnew, pub, mold,
                 mspare, waiting, workerVars>>

\* Messages whose handler stops the ports, runs rib_check and restarts them.
BeginCheck(a, copy) ==
  /\ Head(batch).type \in {"qconf", "txrx", "tap_if"}
  /\ Head(batch).type # "txrx" => gptr # NoRib
  /\ mpc' = "check"
  /\ pub' = <<a>>
  /\ LET new == IF Head(batch).type = "qconf"
                THEN [copy EXCEPT !.qconf = MergeQconf(@, Head(batch).qconf)]
                ELSE copy
     IN  heap' = [b \in Addr |-> IF b = a THEN new
                                 ELSE IF b = gptr
                                 THEN [heap[b] EXCEPT !.stopped = TRUE]
                                 ELSE heap[b]]
  /\ UNCHANGED master

\* Messages that only modify the private copy or the master tables.
BeginPlain(a, copy) ==
  /\ Head(batch).type \in {"txrx", "tap_if", "route", "other"}
  /\ mpc' = "publish"
  /\ pub' = <<a>>
  /\ heap' = [heap EXCEPT ![a] = copy]
  /\ master' = IF Head(batch).type = "route" THEN Head(batch).routes
                                             ELSE master

\* rib_manager_process_message up to the end of its switch statement.
BeginMessage(a) ==
  /\ mpc = "idle" /\ batch # <<>>
  /\ a \in FreeAddr
  /\ \/ BeginCheck(a, RibCreate(gptr))
     \/ BeginPlain(a, RibCreate(gptr))
  /\ mnew' = a
  /\ UNCHANGED <<shellVars, ring, batch, gptr, mold, mspare, waiting,
                 workerVars>>

\* rib_manager_process_port_get makes a copy b of its own and publishes it;
\* the copy a of its caller is deleted when it has returned.
PortGet(a, b) ==
  /\ mpc = "idle" /\ batch # <<>>
  /\ Head(batch).type = "port_get"
  /\ a \in FreeAddr /\ b \in FreeAddr /\ a # b
  /\ heap' = [heap EXCEPT ![a] = RibCreate(gptr), ![b] = RibCreate(gptr)]
  /\ mpc' = "publish"
  /\ mspare' = a /\ mnew' = b /\ pub' = <<b>>
  /\ UNCHANGED <<shellVars, ring, batch, master, gptr, mold,
                 waiting, workerVars>>

\* The end of rib_check: the stop flags of the published rib are cleared.
ClearStopped == [b \in Addr |-> IF b = gptr
                                THEN [heap[b] EXCEPT !.stopped = FALSE]
                                ELSE heap[b]]

\* Mutant: return before delete_stop_flag.
CheckFailsBeforeClear ==
  /\ mpc = "check"
  /\ Head(batch).type # "txrx" /\ ~RibCheck(heap[mnew].qconf)
  /\ heap' = [heap EXCEPT ![mnew] = Unused]
  /\ batch' = Tail(batch)
  /\ mpc' = "idle" /\ mnew' = NoRib /\ pub' = <<>>
  /\ UNCHANGED <<shellVars, ring, master, gptr, mold, mspare, waiting,
                 workerVars>>

\* A qconf or tap message that fails rib_check leaves nothing behind.
CheckFails ==
  /\ mpc = "check"
  /\ Head(batch).type # "txrx" /\ ~RibCheck(heap[mnew].qconf)
  /\ heap' = [ClearStopped EXCEPT ![mnew] = Unused]
  /\ batch' = Tail(batch)
  /\ mpc' = "idle" /\ mnew' = NoRib /\ pub' = <<>>
  /\ UNCHANGED <<shellVars, ring, master, gptr, mold, mspare, waiting,
                 workerVars>>

\* Ports restarted; nothing but a qconf change needs the zero rib.
CheckPasses ==
  /\ mpc = "check"
  /\ Head(batch).type # "qconf"
  /\ Head(batch).type = "txrx" \/ RibCheck(heap[mnew].qconf)
  /\ heap' = ClearStopped
  /\ mpc' = "publish"
  /\ UNCHANGED <<shellVars, ring, batch, master, gptr, mnew, pub, mold, mspare,
                 waiting, workerVars>>

\* Mutant: no zero rib at all.
QconfPassesNoState(z) ==
  /\ mpc = "check"
  /\ Head(batch).type = "qconf" /\ RibCheck(heap[mnew].qconf)
  /\ heap' = ClearStopped
  /\ mpc' = "publish"
  /\ UNCHANGED <<shellVars, ring, batch, master, gptr, mnew, pub, mold, mspare,
                 waiting, workerVars>>

\* The zero rib z is published before the new assignment of queues.
QconfPasses(z) ==
  /\ mpc = "check"
  /\ Head(batch).type = "qconf" /\ RibCheck(heap[mnew].qconf)
  /\ z \in FreeAddr
  /\ heap' = [ClearStopped EXCEPT ![z] = ZeroRib]
  /\ pub' = <<z, mnew>>
  /\ mpc' = "publish"
  /\ UNCHANGED <<shellVars, ring, batch, master, gptr, mnew, mold, mspare,
                 waiting, workerVars>>

\* malloc of the zero rib failed: the code goes on without it.
QconfPassesNoZero ==
  /\ mpc = "check" /\ MallocMayFail
  /\ Head(batch).type = "qconf" /\ RibCheck(heap[mnew].qconf)
  /\ heap' = ClearStopped
  /\ mpc' = "publish"
  /\ UNCHANGED <<shellVars, ring, batch, master, gptr, mnew, pub, mold, mspare,
                 waiting, workerVars>>

\* Mutant: the FIB is rebuilt only when a route changed.
WithFibOnRoute(a) ==
  IF a = mnew /\ Head(batch).type = "route"
  THEN [heap EXCEPT ![a].fib = master]
  ELSE heap

\* What is published: the copy gets its FIB from the master table, except
\* on the port_get path, which publishes the copy as rib_create left it.
WithFib(a) ==
  IF a = mnew /\ Head(batch).type # "port_get"
  THEN [heap EXCEPT ![a].fib = master]
  ELSE heap

\* rib_replace, first half: rcu_assign_pointer.
Assign ==
  /\ mpc = "publish"
  /\ heap' = WithFib(Head(pub))
  /\ mold' = gptr
  /\ gptr' = Head(pub)
  /\ pub' = Tail(pub)
  /\ mpc' = "assigned"
  /\ UNCHANGED <<shellVars, ring, batch, master, mnew, mspare, waiting,
                 workerVars>>

\* The online readers when urcu_qsbr_synchronize_rcu starts.
Registered == {l \in Lcore : wpc[l] # "off"}

\* Mutant: the grace period skips the readers outside of rx_burst.
SyncStartPolling ==
  /\ mpc = "assigned"
  /\ mpc' = "sync"
  /\ waiting' = {l \in Lcore : wpc[l] = "poll"}
  /\ UNCHANGED <<shellVars, ring, batch, master, gptr, heap, mnew, pub, mold,
                 mspare, workerVars>>

SyncStart ==
  /\ mpc = "assigned"
  /\ mpc' = "sync"
  /\ waiting' = IF mold = NoRib THEN {} ELSE Registered
  /\ UNCHANGED <<shellVars, ring, batch, master, gptr, heap, mnew, pub, mold,
                 mspare, workerVars>>

\* Mutant: port_get returns without rib_delete (new).
ReclaimKeepsSpare ==
  /\ mpc = "sync" /\ waiting = {}
  /\ heap' = [a \in Addr |-> IF a = mold THEN Unused ELSE heap[a]]
  /\ mold' = NoRib /\ mspare' = NoRib
  /\ IF pub = <<>>
     THEN mpc' = "idle" /\ mnew' = NoRib /\ batch' = Tail(batch)
     ELSE mpc' = "publish" /\ UNCHANGED <<mnew, batch>>
  /\ UNCHANGED <<shellVars, ring, master, gptr, pub, waiting, workerVars>>

\* The grace period is over: free the old rib, and the spare copy if this
\* was a port_get, then publish the next one or finish with the message.
Reclaim ==
  /\ mpc = "sync" /\ waiting = {}
  /\ heap' = [a \in Addr |-> IF a \in {mold, mspare} THEN Unused ELSE heap[a]]
  /\ mold' = NoRib /\ mspare' = NoRib
  /\ IF pub = <<>>
     THEN mpc' = "idle" /\ mnew' = NoRib /\ batch' = Tail(batch)
     ELSE mpc' = "publish" /\ UNCHANGED <<mnew, batch>>
  /\ UNCHANGED <<shellVars, ring, master, gptr, pub, waiting, workerVars>>

Manager ==
  \/ RecvBurst
  \/ QconfCrash
  \/ \E a \in Addr : BeginMessage(a)
  \/ \E a, b \in Addr : PortGet(a, b)
  \/ CheckFails
  \/ CheckPasses
  \/ \E z \in Addr : QconfPasses(z)
  \/ QconfPassesNoZero
  \/ Assign
  \/ SyncStart
  \/ Reclaim

-----------------------------------------------------------------------------
(* The loop of a worker lcore.                                             *)

\* urcu_qsbr_register_thread on entry, unregister when force_stop is seen.
Start(l) ==
  /\ wpc[l] = "off"
  /\ wpc' = [wpc EXCEPT ![l] = "top"]
  /\ UNCHANGED <<shellVars, ring, mgrVars, waiting, wrib, polled, rxq>>

\* Mutant: the worker returns without urcu_qsbr_unregister_thread.
StopRegistered(l) ==
  /\ wpc[l] = "top"
  /\ wpc' = [wpc EXCEPT ![l] = "off"]
  /\ UNCHANGED <<shellVars, ring, mgrVars, waiting, wrib, polled, rxq>>

Stop(l) ==
  /\ wpc[l] = "top"
  /\ wpc' = [wpc EXCEPT ![l] = "off"]
  /\ waiting' = waiting \ {l}
  /\ UNCHANGED <<shellVars, ring, mgrVars, wrib, polled, rxq>>

\* rib = rcu_dereference (rcu_global_ptr_rib)
Dereference(l) ==
  /\ wpc[l] = "top"
  /\ wpc' = [wpc EXCEPT ![l] = "read"]
  /\ wrib' = [wrib EXCEPT ![l] = gptr]
  /\ polled' = [polled EXCEPT ![l] = {}]
  /\ UNCHANGED <<shellVars, ring, mgrVars, waiting, rxq>>

\* The queues the rx loop has still to visit.
ToPoll(l) ==
  IF wrib[l] = NoRib THEN {}
  ELSE IF heap[wrib[l]].info THEN heap[wrib[l]].qconf[l] \ polled[l] ELSE {}

\* The stop flag is tested, then the queue is polled.
BeginPoll(l, q) ==
  /\ wpc[l] = "read" /\ q \in ToPoll(l)
  /\ ~heap[wrib[l]].stopped
  /\ wpc' = [wpc EXCEPT ![l] = "poll"]
  /\ rxq' = [rxq EXCEPT ![l] = {q}]
  /\ polled' = [polled EXCEPT ![l] = @ \cup {q}]
  /\ UNCHANGED <<shellVars, ring, mgrVars, waiting, wrib>>

SkipStopped(l, q) ==
  /\ wpc[l] = "read" /\ q \in ToPoll(l)
  /\ heap[wrib[l]].stopped
  /\ polled' = [polled EXCEPT ![l] = @ \cup {q}]
  /\ UNCHANGED <<shellVars, ring, mgrVars, waiting, wpc, wrib, rxq>>

EndPoll(l) ==
  /\ wpc[l] = "poll"
  /\ wpc' = [wpc EXCEPT ![l] = "read"]
  /\ rxq' = [rxq EXCEPT ![l] = {}]
  /\ UNCHANGED <<shellVars, ring, mgrVars, waiting, wrib, polled>>

\* End of the loop body: urcu_qsbr_quiescent_state.  The stale pointer is
\* not used again before it is dereferenced anew.
Quiescent(l) ==
  /\ wpc[l] = "read" /\ ToPoll(l) = {}
  /\ wpc' = [wpc EXCEPT ![l] = "top"]
  /\ wrib' = [wrib EXCEPT ![l] = NoRib]
  /\ polled' = [polled EXCEPT ![l] = {}]
  /\ waiting' = waiting \ {l}
  /\ UNCHANGED <<shellVars, ring, mgrVars, rxq>>

Worker(l) ==
  \/ Dereference(l)
  \/ \E q \in Queue : BeginPoll(l, q) \/ SkipStopped(l, q)
  \/ EndPoll(l)
  \/ Quiescent(l)

-----------------------------------------------------------------------------
Next ==
  \/ \E l \in Lcore, q \in Queue : SetThreadQueue(l, q)
  \/ \E t \in MsgType, r \in SUBSET Route : SendOther(t, r)
  \/ Manager
  \/ \E l \in Lcore : Start(l) \/ Stop(l) \/ Worker(l)

Spec == Init /\ [][Next]_vars

\* The manager and the workers are busy loops on cores of their own; nothing
\* obliges anybody to send a message or to start or stop a worker.
Fairness == WF_vars(Manager) /\ \A l \in Lcore : WF_vars(Worker(l))

FairSpec == Spec /\ Fairness

-----------------------------------------------------------------------------
(* Properties.                                                             *)

TypeOK ==
  /\ thread_qconf \in Qconf
  /\ ring \in Seq(Message) /\ batch \in Seq(Message)
  /\ master \in SUBSET Route
  /\ gptr \in Addr \cup {NoRib}
  /\ heap \in [Addr -> RibRecord]
  /\ mpc \in {"idle", "check", "publish", "assigned", "sync", "crash"}
  /\ mnew \in Addr \cup {NoRib}
  /\ pub \in {<<>>, <<mnew>>} \cup {<<z, mnew>> : z \in Addr}
  /\ mold \in Addr \cup {NoRib}
  /\ mspare \in Addr \cup {NoRib}
  /\ waiting \in SUBSET Lcore
  /\ wpc \in [Lcore -> {"off", "top", "read", "poll"}]
  /\ wrib \in [Lcore -> Addr \cup {NoRib}]
  /\ polled \in [Lcore -> SUBSET Queue]
  /\ rxq \in [Lcore -> SUBSET Queue]

\* A worker never holds a rib that rib_replace has already freed, whatever
\* the manager publishes between its dereference and its quiescent state.
NoUseAfterFree ==
  \A l \in Lcore :
    wpc[l] \in {"read", "poll"} /\ wrib[l] # NoRib => heap[wrib[l]].live

\* Two lcores are never inside rte_eth_rx_burst of the same rx queue, also
\* while a queue moves from one lcore to the other: the comment of the zero
\* rib, "to avoid a conflict between different cores".
NoSharedRxQueue ==
  \A l, k \in Lcore : l # k => rxq[l] \cap rxq[k] = {}

\* Between messages exactly the published rib is allocated: every path of
\* rib_manager_process_message frees what it made, the failing ones too, and
\* port_get, where the handler publishes one copy and the caller deletes
\* another.
NothingLeaked ==
  mpc = "idle" => {a \in Addr : heap[a].live} = {gptr} \ {NoRib}

\* Ports marked stopped for rib_check are never left so afterwards, or the
\* workers would skip them for ever.
StopFlagCleared ==
  gptr # NoRib /\ heap[gptr].stopped => mpc = "check"

\* Between messages the FIB the workers use is the routing table: the
\* comment "rebuild FIB from RIB for each routing table".
FibMatchesMaster ==
  mpc = "idle" /\ gptr # NoRib => heap[gptr].fib = master

\* Every dequeued message is processed: no grace period lasts for ever.
BatchProcessed == batch # <<>> ~> (batch = <<>> \/ mpc = "crash")

-----------------------------------------------------------------------------
(* The inductive invariant behind the safety properties.                   *)

\* What the manager holds in each phase of a message.
Phase ==
  /\ mpc \in {"idle", "crash"} =>
       mnew = NoRib /\ pub = <<>> /\ mold = NoRib
  /\ mpc \in {"check", "publish", "assigned", "sync"} =>
       mnew \in Addr /\ batch # <<>>
  /\ mpc = "check" => pub = <<mnew>>
  /\ mpc \in {"check", "publish"} =>
       mold = NoRib /\ mnew # gptr /\ pub # <<>>
  /\ mpc \in {"assigned", "sync"} =>
       /\ gptr \in Addr /\ mold # gptr
       /\ \/ pub = <<>> /\ gptr = mnew
          \/ pub = <<mnew>> /\ mnew \notin {gptr, mold}
  /\ \A z \in Addr : pub = <<z, mnew>> =>
       mpc = "publish" /\ z \notin {gptr, mnew} /\ heap[z] = ZeroRib
  /\ mspare # NoRib =>
       /\ mpc \in {"publish", "assigned", "sync"}
       /\ mspare \notin {gptr, mold, mnew}
       /\ mpc = "publish" => pub = <<mnew>>
       /\ mpc # "publish" => pub = <<>>

\* The allocated ribs are the published, the old, the new, the zero and the
\* spare one.
Owned ==
  \A a \in Addr :
    heap[a].live <=> a \in {gptr, mold, mnew, mspare} \/ pub = <<a, mnew>>

\* Only the published rib is ever marked stopped, and only for rib_check.
StopFlags == \A a \in Addr : heap[a].stopped => a = gptr /\ mpc = "check"

\* A reader holds the published rib, or the old one before its grace period
\* ends; the manager waits for it then.
Readers ==
  \A l \in Lcore : wpc[l] \in {"read", "poll"} /\ wrib[l] # NoRib =>
    \/ wrib[l] = gptr
    \/ mpc = "assigned" /\ wrib[l] = mold
    \/ mpc = "sync" /\ wrib[l] = mold /\ l \in waiting

Disjoint(qc) == \A l, k \in Lcore : l # k => qc[l] \cap qc[k] = {}

\* A worker polls a queue that the rib it holds gives to its lcore.
Polling ==
  \A l \in Lcore :
    /\ wpc[l] # "poll" => rxq[l] = {}
    /\ wpc[l] = "poll" => /\ wrib[l] \in Addr /\ heap[wrib[l]].info
                          /\ rxq[l] \subseteq heap[wrib[l]].qconf[l]

\* Two ribs in use at once agree on the queues, or one of them has none.
Compatible(a, b) == heap[a].info /\ heap[b].info => heap[a].qconf = heap[b].qconf

Queues ==
  /\ \A a \in Addr : a \in {gptr, mold} => Disjoint(heap[a].qconf)
  /\ mpc \in {"publish", "assigned", "sync"} => Disjoint(heap[mnew].qconf)
  /\ mpc = "check" /\ Head(batch).type # "qconf" =>
       Disjoint(heap[mnew].qconf) /\ (gptr \in Addr => Compatible(gptr, mnew))
  /\ mpc = "publish" /\ pub = <<mnew>> /\ gptr \in Addr =>
       Compatible(gptr, mnew)
  /\ mpc \in {"assigned", "sync"} /\ pub # <<>> => ~heap[gptr].info
  /\ mpc \in {"assigned", "sync"} /\ mold \in Addr => Compatible(mold, gptr)

\* Who owns which rib in each phase, which ribs readers may hold, and that
\* ribs held together assign queues alike.
Protocol ==
  /\ TypeOK /\ Phase /\ Owned /\ StopFlags /\ Readers /\ Polling
  /\ ~MallocMayFail => Queues

\* The zero rib is the only one without contents, and it is published only
\* between two that have some.
Infos ==
  /\ mpc \in {"idle", "check", "crash"} /\ gptr \in Addr => heap[gptr].info
  /\ mpc \in {"check", "publish", "assigned", "sync"} => heap[mnew].info
  /\ mpc = "check" /\ Head(batch).type # "txrx" => gptr \in Addr
  /\ \A z \in Addr : pub = <<z, mnew>> => gptr \in Addr /\ heap[gptr].info

\* The messages whose handler ends in a rebuild of the FIB.
Rebuilding == {m \in Message : m.type # "port_get"}

\* The published FIB is the routing table whenever no rebuild is under way.
Fibs ==
  /\ ring \in Seq(Rebuilding) /\ batch \in Seq(Rebuilding)
  /\ mpc \in {"idle", "check", "crash"} /\ gptr \in Addr =>
       heap[gptr].fib = master
  /\ mpc \in {"assigned", "sync"} /\ pub = <<>> => heap[gptr].fib = master

\* Why the protocol is safe and may be seen as a register of snapshots.
RibInv == Protocol /\ Infos /\ ("port_get" \notin MsgType => Fibs)

-----------------------------------------------------------------------------
(* Refinement: seen through the pointers, RibRcu is a register of          *)
(* snapshots.                                                              *)

NoContents(k) == [kind |-> k, ver |-> 0, qconf |-> NoQueues, fib |-> {}]

\* The snapshot behind a pointer; freed memory is not one.
Contents(a) ==
  IF a = NoRib THEN NoContents("nothing")
  ELSE IF ~heap[a].live THEN NoContents("freed")
  ELSE IF ~heap[a].info THEN NoContents("empty")
  ELSE [kind |-> "rib", ver |-> heap[a].ver, qconf |-> heap[a].qconf,
        fib |-> heap[a].fib]

View(l) == IF wpc[l] \in {"read", "poll"} THEN Contents(wrib[l])
                                          ELSE NoContents("nothing")

Snap == INSTANCE RibSnapshot WITH
  Reader <- Lcore, Assignment <- Qconf, Fib <- SUBSET Route, Version <- Nat,
  Nothing <- NoContents("nothing"), Empty <- NoContents("empty"),
  cur <- Contents(gptr), view <- [l \in Lcore |-> View(l)]

\* rib_manager and the workers implement the register of snapshots: copies,
\* in-place stop flags, grace periods and reclamation cannot be observed.
SnapshotSpec == Snap!Spec
=============================================================================
