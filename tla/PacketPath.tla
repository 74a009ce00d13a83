----------------------------- MODULE PacketPath -----------------------------
(***************************************************************************)
(* The way of frames through the process.                                  *)
(*                                                                         *)
(* NIC -> worker -> transmit buffers and rings -> NIC, tap handlers and    *)
(* applications; tap -> ring_dn -> worker -> NIC.  Every copy is a packet  *)
(* buffer (mbuf) of one pool and must return to it, whatever fails on the  *)
(* way.  What the tap handlers see of a frame teaches rib_manager and      *)
(* neigh_manager where hosts are, and with that the worker forwards the    *)
(* next frame.                                                             *)
(*                                                                         *)
(* A scene fixes the worker program, the configured rib and the frames     *)
(* that hosts and the kernel may send.  A worker handles one frame per     *)
(* step: nothing that others do between two copies of one frame changes    *)
(* what happens to it, except that a buffer may come free.                 *)
(***************************************************************************)
EXTENDS Forwarding, Functions, TLC

CONSTANTS
  Port, Slot,  \* ports, and slots of the vswitch array
  Scene,       \* scene names to [prog, rib, pool, rx, flow, answer, dn, goal,
               \* max]: pool is the size of l2fwd_pktmbuf_pool, max bounds
               \* the frames of rx and dn, how many ports are stopped and
               \* how often the FDB is aged
  RingSize,    \* usable slots of a tap ring
  TxBurst,     \* MAX_PKT_BURST, the size of a transmit buffer
  RxSize,      \* bound: frames waiting in the receive queue of a port
  QueueSize    \* usable slots of the message queues

ASSUME SizeAssumption ==
  {RingSize, TxBurst, RxSize, QueueSize} \subseteq Nat \ {0}
ASSUME PlaceAssumption ==
  IsFiniteSet(Port) /\ IsFiniteSet(Slot) /\ Slot = 1 .. Cardinality(Slot)

Program == {"router", "srv6_router", "l2_switch", "vlan_switch", "enhanced_repeater",
            "l2_repeater"}

\* The arrays refer to one another by index.
IsRib(r) ==
  /\ {"vs", "link", "port", "fdb", "route", "neigh", "sid", "app", "stopped", "down"}
       \subseteq DOMAIN r
  /\ r.vs \in Seq(ToSet(r.vs)) /\ Len(r.vs) = Cardinality(Slot)
  /\ \A s \in Slot : r.vs[s].links \in Seq(DOMAIN r.link)
  /\ DOMAIN r.link \subseteq Nat \ {0}
  /\ \A l \in DOMAIN r.link : r.link[l].port \in Port /\ r.link[l].vs \in Nat
  /\ DOMAIN r.port = Port
  /\ \A p \in Port : r.port[p].vlans \in Seq(DOMAIN r.link)

\* The links that are configured on a port with a tag.
LinksOf(r, p, tag) == {l \in DOMAIN r.link : r.link[l].port = p /\ r.link[l].tag = tag}

\* ... as VSwitch shows of vswitches that were configured and not deleted: a
\* vswitch lists links of its own, each once, a port lists its own links, the
\* native link of a port that has untagged links is one of them, and one tag
\* of a port leads to one vswitch.  The native field of a port without
\* untagged links is whatever it is: zero, which is link 1 here, until a
\* native link is set.
IsConfigured(r) ==
  /\ \A s \in Slot : \A i \in DOMAIN r.vs[s].links :
       /\ r.link[r.vs[s].links[i]].vs = r.vs[s].id
       /\ \A j \in DOMAIN r.vs[s].links : r.vs[s].links[j] = r.vs[s].links[i] => j = i
  /\ \A p \in Port :
       /\ \A i \in DOMAIN r.port[p].vlans : r.link[r.port[p].vlans[i]].port = p
       /\ LinksOf(r, p, 0) # {} => r.port[p].native \in LinksOf(r, p, 0)
  /\ \A k, l \in DOMAIN r.link :
       r.link[k].port = r.link[l].port /\ r.link[k].tag = r.link[l].tag =>
         r.link[k].vs = r.link[l].vs

ASSUME SceneAssumption ==
  \A c \in DOMAIN Scene :
    /\ Scene[c].prog \in Program /\ Scene[c].pool \in Nat /\ IsRib(Scene[c].rib)
    /\ \A m \in Scene[c].rx \cup Scene[c].flow \cup Scene[c].answer :
         m.port \in Port /\ m.fr.ttl \in Nat
ASSUME ConfigAssumption == \A c \in DOMAIN Scene : IsConfigured(Scene[c].rib)

VARIABLES
  scene,
  fdb, neigh, stopped,   \* the parts of the published rib that change
  pool,                  \* free buffers
  rx, tx,                \* receive queues and transmit buffers, per port
  ring,                  \* tap rings and the application's ring
  msgs,                  \* messages to rib_manager and neigh_manager
  lost,                  \* buffers nothing refers to any more
  asked, got,            \* what hosts have seen: requests, and the goal
  quiet,                 \* input has ended
  left,                  \* what is left of the scene's bounds
  fault                  \* a NULL pointer was followed

vars == <<scene, fdb, neigh, stopped, pool, rx, tx, ring, msgs, lost, asked, got,
          quiet, left, fault>>

Null == [src |-> "null"]  \* a NULL in a ring

prog == Scene[scene].prog
rib == [Scene[scene].rib EXCEPT !.fdb = fdb, !.neigh = neigh, !.stopped = stopped]
Rings == ({"up", "cap", "dn"} \X Slot) \cup ({"tapup", "tapdn"} \X Port) \cup {<<"app", 0>>}

\* Which programs the tap rings of l3_tap_handler and tap_handler serve.
L3 == prog \in {"router", "srv6_router", "l2_switch", "enhanced_repeater"}

Init ==
  /\ scene \in DOMAIN Scene
  /\ fdb = Scene[scene].rib.fdb /\ neigh = Scene[scene].rib.neigh /\ stopped = {}
  /\ pool = Scene[scene].pool
  /\ rx = [p \in Port |-> <<>>] /\ tx = [p \in Port |-> <<>>]
  /\ ring = [i \in Rings |-> <<>>]
  /\ msgs = <<>> /\ lost = 0 /\ asked = {} /\ got = FALSE
  /\ quiet = FALSE /\ left = Scene[scene].max /\ fault = FALSE

-----------------------------------------------------------------------------
(* Carrying out the emissions, on [pool, tx, ring, msgs, out, ok, fault]:  *)
(* out is what reaches the wires, ok is false after a failed allocation.   *)

Now == [pool |-> pool, tx |-> tx, ring |-> ring, msgs |-> msgs, out |-> <<>>,
        ok |-> TRUE, fault |-> FALSE]

\* rte_eth_tx_buffer: a full buffer goes to the NIC, which frees its frames.
Buffer(b, p, f) ==
  LET t == Append(b.tx[p], f)
  IN  IF b.pool = 0 THEN b
      ELSE IF Len(t) < TxBurst THEN [b EXCEPT !.tx[p] = t, !.pool = @ - 1]
      ELSE [b EXCEPT !.tx[p] = <<>>, !.pool = @ + Len(t) - 1, !.out = @ \o t]

\* rte_ring_enqueue of a copy, which is freed when the ring is full.
Enqueue(b, i, f) ==
  IF Len(b.ring[i]) = RingSize THEN b
  ELSE [b EXCEPT !.ring[i] = Append(@, f), !.pool = @ - 1]

\* Mutant: the copy for the router_if is not freed after _send_ring.
SendRouterIfKept(b, i, f) ==
  IF b.pool < 2 THEN b ELSE [Enqueue(b, i, f) EXCEPT !.pool = @ - 1]

\* _send_router_if_ring holds a copy while _send_ring makes another.
SendRouterIf(b, i, f) == IF b.pool < 2 THEN b ELSE Enqueue(b, i, f)

\* l2_switch and the repeaters enqueue a failed copy, a NULL.
EnqueueRaw(b, i, f) ==
  IF b.pool > 0 THEN Enqueue(b, i, f)
  ELSE IF Len(b.ring[i]) = RingSize THEN b
  ELSE [b EXCEPT !.ring[i] = Append(@, Null)]

SendMsg(q, m) == IF Len(q) < QueueSize THEN Append(q, m) ELSE q

Emit(b, e) ==
  IF ~b.ok THEN b
  ELSE CASE e.to = "link" -> Buffer(b, rib.link[e.at].port, e.fr)
         [] e.to = "port" -> Buffer(b, e.at, e.fr)
         [] e.to = "router_if" -> SendRouterIf(b, e.at, e.fr)
         [] e.to = "ring" -> IF b.pool = 0 THEN b ELSE Enqueue(b, e.at, e.fr)
         [] e.to = "raw" -> EnqueueRaw(b, e.at, e.fr)
         [] e.to = "neigh" -> [b EXCEPT !.msgs =
              SendMsg(@, [type |-> "neigh", key |-> <<e.at, e.fr.src>>, val |-> e.fr.src])]
         [] e.to = "alloc" -> IF b.pool = 0 THEN [b EXCEPT !.ok = FALSE]
                              ELSE [b EXCEPT !.pool = @ - 1]
         [] e.to = "free" -> [b EXCEPT !.pool = @ + 1]
         [] e.to = "null" -> [b EXCEPT !.fault = TRUE, !.ok = FALSE]

\* All of them, in order.  Sets of one element bind values, which TLC then
\* computes once.
Run(e) ==
  LET run[n \in 0 .. Len(e)] ==
        IF n = 0 THEN Now
        ELSE CHOOSE c \in {Emit(b, e[n]) : b \in {run[n - 1]}} : TRUE
  IN  run[Len(e)]

\* What the hosts see on the wires.
Seen(out) ==
  LET fs == ToSet(out)
  IN  /\ asked' = asked \cup {f.ip : f \in {g \in fs : g.kind \in {"arp_request", "ns"}}}
      /\ got' = (got \/ \E f \in fs : f.kind = Scene[scene].goal.kind
                                      /\ f.dst = Scene[scene].goal.dst)

\* The end of a worker's step: the frame it handled is freed.
Done(b) ==
  /\ pool' = b.pool + 1 /\ tx' = b.tx /\ msgs' = b.msgs /\ fault' = b.fault
  /\ Seen(b.out)

\* A frame in a buffer, with m->port and the vswitch it enters.
Received(f, p, v) ==
  [src |-> f.src, dst |-> f.dst, tag |-> f.tag, kind |-> f.kind, ip |-> f.ip,
   ttl |-> f.ttl, segs |-> f.segs, port |-> p, vs |-> v]

-----------------------------------------------------------------------------
(* The worker.                                                             *)

Up == ~fault
Rib == <<scene, fdb, neigh, stopped>>
Bounds == <<quiet, left>>

\* The bound on what is sent once.
Counted == left.frames > 0 /\ left' = [left EXCEPT !.frames = @ - 1]

\* The worker takes the next frame of a receive queue; l2_repeater and
\* vlan_switch poll stopped ports too.
RxTaken(p) ==
  /\ Up /\ rx[p] # <<>>
  /\ p \notin stopped \/ prog \in {"l2_repeater", "vlan_switch"}
  /\ rx' = [rx EXCEPT ![p] = Tail(@)]

WorkerRx(p) ==
  /\ RxTaken(p)
  /\ \E e \in {Process(prog, r, p, f) : r \in {rib}, f \in {Head(rx[p])}} : \E b \in {Run(e)} :
       Done(b) /\ ring' = b.ring
  /\ UNCHANGED <<Rib, lost, Bounds>>

RingTaken(i) == ring[i] # <<>> /\ ring' = [ring EXCEPT ![i] = Tail(@)]

\* _thread_tx_burst: frames from the router_if, which only go to links.
DnTaken(s) == Up /\ L3 /\ rib.vs[s].rif.open /\ RingTaken(<<"dn", s>>)

WorkerTx(s) ==
  /\ DnTaken(s)
  /\ \E e \in {ProcessDown(prog, r, s, f) : r \in {rib}, f \in {Head(ring[<<"dn", s>>])}} :
       \E b \in {Run(e)} : Done(b)
  /\ UNCHANGED <<Rib, rx, lost, Bounds>>

\* l2_repeater_tx_burst does not look at how many frames the NIC took.
WorkerTxRaw(p, taken) ==
  LET i == <<"tapdn", p>>
  IN  /\ Up /\ prog = "l2_repeater" /\ RingTaken(i)
      /\ IF taken THEN pool' = pool + 1 /\ Seen(<<Head(ring[i])>>) /\ UNCHANGED lost
                  ELSE lost' = lost + 1 /\ UNCHANGED <<pool, asked, got>>
      /\ UNCHANGED <<Rib, rx, tx, msgs, Bounds, fault>>

\* Mutant: a port is flushed only while frames come in on it.
FlushOnTraffic(p) ==
  /\ Up /\ tx[p] # <<>> /\ rx[p] # <<>>
  /\ p \notin stopped \/ prog \notin {"router", "srv6_router"}
  /\ tx' = [tx EXCEPT ![p] = <<>>]
  /\ pool' = pool + Len(tx[p])
  /\ Seen(tx[p])
  /\ UNCHANGED <<Rib, rx, ring, msgs, lost, Bounds, fault>>

\* _thread_tx_flush; the routers skip stopped ports.
Flush(p) ==
  /\ Up /\ tx[p] # <<>>
  /\ p \notin stopped \/ prog \notin {"router", "srv6_router"}
  /\ tx' = [tx EXCEPT ![p] = <<>>]
  /\ pool' = pool + Len(tx[p])
  /\ Seen(tx[p])
  /\ UNCHANGED <<Rib, rx, ring, msgs, lost, Bounds, fault>>

-----------------------------------------------------------------------------
(* The tap handlers and the application.                                   *)

\* A frame taken from a ring and freed; a NULL is skipped.
Take(i) ==
  /\ RingTaken(i)
  /\ pool' = IF Head(ring[i]) = Null THEN pool ELSE pool + 1

Learn(f, vlan) == [type |-> "fdb", key |-> <<f.src, vlan>>, val |-> f.port]

L3Polls(i) == Up /\ L3 /\ i[1] \in {"up", "cap"} /\ rib.vs[i[2]].rif.set

\* l3_tap_handler_handle_packet_up: a vswitch whose router_if was not set is
\* passed over, its capture_if too; unknown sources are reported.
L3Up(i) ==
  LET vlan == rib.vs[i[2]].vlan
      f == Head(ring[i])
  IN  /\ L3Polls(i) /\ Take(i)
      /\ msgs' = IF f # Null /\ FdbPort(rib, f.src, vlan) = {}
                 THEN SendMsg(msgs, Learn(f, vlan)) ELSE msgs
      /\ UNCHANGED <<Rib, rx, tx, lost, asked, got, Bounds, fault>>

\* l3_tap_handler_handle_packet_down: the result of the enqueue is ignored.
L3Down(s, f) ==
  LET i == <<"dn", s>>
      full == Len(ring[i]) = RingSize
  IN  /\ Up /\ L3 /\ ~quiet /\ Counted /\ rib.vs[s].rif.open
      /\ pool > 0
      /\ pool' = pool - 1
      /\ ring' = IF full THEN ring ELSE
           [ring EXCEPT ![i] = Append(@, Received(f, SelfPort, rib.vs[s].id))]
      /\ lost' = IF full THEN lost + 1 ELSE lost
      /\ UNCHANGED <<Rib, rx, tx, msgs, asked, got, quiet, fault>>

\* tap_handler_handle_packet_up reports every source, with VLAN 0.
TapUp(p) ==
  LET i == <<"tapup", p>>
  IN  /\ Up /\ ~L3 /\ Take(i)
      /\ msgs' = IF Head(ring[i]) = Null THEN msgs
                 ELSE SendMsg(msgs, Learn(Head(ring[i]), 0))
      /\ UNCHANGED <<Rib, rx, tx, lost, asked, got, Bounds, fault>>

\* tap_handler_handle_packet_down: a buffer for every port, without testing
\* the allocation or the enqueue.
TapDown(f) ==
  LET room == {p \in Port : Len(ring[<<"tapdn", p>>]) < RingSize}
  IN  /\ Up /\ ~L3 /\ ~quiet /\ Counted
      /\ IF pool < Cardinality(Port)
         THEN fault' = TRUE /\ UNCHANGED <<pool, ring, lost>>
         ELSE /\ pool' = pool - Cardinality(Port)
              /\ ring' = [i \in Rings |->
                   IF i[1] = "tapdn" /\ i[2] \in room
                   THEN Append(ring[i], Received(f, SelfPort, 0)) ELSE ring[i]]
              /\ lost' = lost + Cardinality(Port \ room)
              /\ UNCHANGED fault
      /\ UNCHANGED <<Rib, rx, tx, msgs, asked, got, quiet>>

\* dhcp_server_rx
AppRead ==
  /\ Up /\ Take(<<"app", 0>>)
  /\ UNCHANGED <<Rib, rx, tx, msgs, lost, asked, got, Bounds, fault>>

-----------------------------------------------------------------------------
(* The managers and the environment.                                       *)

\* FDB_ENTRY_ADD at rib_manager, NEIGH_ENTRY_ADD at neigh_manager.
Handle ==
  /\ Up /\ msgs # <<>>
  /\ LET m == Head(msgs)
         put(t) == (m.key :> m.val) @@ t
     IN  IF m.type = "fdb" THEN fdb' = put(fdb) /\ UNCHANGED neigh
                           ELSE neigh' = put(neigh) /\ UNCHANGED fdb
  /\ msgs' = Tail(msgs)
  /\ UNCHANGED <<scene, stopped, pool, rx, tx, ring, lost, asked, got, Bounds, fault>>

\* The vswitch a frame enters: by the configuration, that of a link of its
\* port with its tag.  An untagged frame on a port without untagged links has
\* none, and is taken for a frame of the link in the port's native field.
Entered(p, tag) ==
  LET hit == LinksOf(rib, p, tag)
      l == RxUntagged(rib, p)
  IN  IF hit # {} THEN rib.link[CHOOSE k \in hit : TRUE].vs
      ELSE IF tag = 0 /\ l # 0 THEN rib.link[l].vs ELSE 0

\* The NIC receives a frame into a buffer of the pool.
Arrive(p, f) ==
  /\ Up /\ ~quiet /\ pool > 0 /\ Len(rx[p]) < RxSize
  /\ rx' = [rx EXCEPT ![p] = Append(@, Received(f, p, Entered(p, f.tag)))]
  /\ pool' = pool - 1
  /\ UNCHANGED <<Rib, tx, ring, msgs, lost, quiet, fault>>

Receive(p, f) == Arrive(p, f) /\ UNCHANGED <<asked, got>>

\* A host answers a request it has seen.
Answer(p, f) ==
  /\ f.src \in asked
  /\ Arrive(p, f)
  /\ asked' = asked \ {f.src}
  /\ UNCHANGED <<got, left>>

\* set_stop_flag marks the ports of the published rib one after the other
\* before rib_manager reconfigures them ...
StopPort(p) ==
  /\ Up /\ left.stop > 0 /\ p \notin stopped
  /\ \A q \in Port : q < p => q \in stopped
  /\ stopped' = stopped \cup {p} /\ left' = [left EXCEPT !.stop = @ - 1]
  /\ UNCHANGED <<scene, fdb, neigh, pool, rx, tx, ring, msgs, lost, asked, got, quiet,
                 fault>>

\* ... and delete_stop_flag unmarks them when it is done.
StartPort(p) ==
  /\ Up /\ left.stop = 0 /\ p \in stopped
  /\ \A q \in Port : q < p => q \notin stopped
  /\ stopped' = stopped \ {p}
  /\ UNCHANGED <<scene, fdb, neigh, pool, rx, tx, ring, msgs, lost, asked, got, Bounds, fault>>

\* fdb_aging_process forgets a silent host.
Forget(h) ==
  /\ Up /\ ~quiet /\ left.forget > 0 /\ h \in DOMAIN fdb
  /\ fdb' = Restrict(fdb, DOMAIN fdb \ {h})
  /\ left' = [left EXCEPT !.forget = @ - 1]
  /\ UNCHANGED <<scene, neigh, stopped, pool, rx, tx, ring, msgs, lost, asked, got, quiet,
                 fault>>

Quiet ==
  /\ Up /\ ~quiet
  /\ quiet' = TRUE
  /\ UNCHANGED <<Rib, pool, rx, tx, ring, msgs, lost, asked, got, left, fault>>

Flow == \E m \in Scene[scene].flow : Receive(m.port, m.fr) /\ UNCHANGED left
Answers == \E m \in Scene[scene].answer : Answer(m.port, m.fr)

Input ==
  \/ \E m \in Scene[scene].rx : Receive(m.port, m.fr) /\ Counted
  \/ Flow \/ Answers
  \/ \E f \in Scene[scene].dn : TapDown(f) \/ \E s \in Slot : L3Down(s, f)
  \/ \E p \in Port : ~quiet /\ stopped = {} /\ StopPort(p)
  \/ \E h \in DOMAIN fdb : Forget(h)
  \/ Quiet

\* Once begun, the reconfiguration goes on.
Restart == \E p \in Port : (stopped # {} /\ StopPort(p)) \/ StartPort(p)

Threads ==
  \/ \E p \in Port : WorkerRx(p) \/ Flush(p) \/ TapUp(p)
                     \/ \E taken \in BOOLEAN : WorkerTxRaw(p, taken)
  \/ \E s \in Slot : WorkerTx(s)
  \/ \E i \in Rings : L3Up(i)
  \/ AppRead \/ Handle \/ Restart

Next == Input \/ Threads

\* The workers and tap handlers poll for ever and the managers serve their
\* queues; a host repeats what it sends, and answers.  Only WorkerRx,
\* WorkerTx and L3Up take from these queues, so fairness of the taking is
\* fairness of the action.
Fairness ==
  /\ \A p \in Port :
       /\ WF_rx(RxTaken(p)) /\ WF_vars(Flush(p)) /\ WF_vars(TapUp(p))
       /\ WF_vars(\E taken \in BOOLEAN : WorkerTxRaw(p, taken))
  /\ \A s \in Slot : WF_ring(DnTaken(s))
  /\ \A i \in Rings : WF_ring(L3Polls(i) /\ RingTaken(i))
  /\ WF_vars(AppRead) /\ WF_vars(Handle) /\ WF_vars(Restart)
  /\ \A p \in Port : SF_vars(\E m \in Scene[scene].flow : m.port = p /\ Receive(p, m.fr) /\ UNCHANGED left)
  /\ SF_vars(Answers)

Spec == Init /\ [][Next]_vars /\ Fairness

-----------------------------------------------------------------------------
(* Properties.                                                             *)

Held(q) == Cardinality({k \in DOMAIN q : q[k] # Null})
HeldIn(S) == SumFunctionOnSet([i \in Rings |-> Held(ring[i])], S)
Inside == SumFunction([p \in Port |-> Len(rx[p]) + Len(tx[p])]) + HeldIn(Rings)

TypeOK ==
  /\ scene \in DOMAIN Scene /\ stopped \subseteq Port
  /\ pool \in 0 .. Scene[scene].pool /\ lost \in 0 .. Scene[scene].pool
  /\ \A i \in Rings : Len(ring[i]) <= RingSize
  /\ \A p \in Port : Len(rx[p]) <= RxSize /\ Len(tx[p]) < TxBurst
  /\ Len(msgs) <= QueueSize

\* No buffer is lost or freed twice on any path, whichever copy, ring or
\* allocation fails: free buffers, frames on the way and the frames that the
\* tap handlers and l2_repeater are known to drop without freeing add up;
\* and no queue is longer than the code's array for it.
BuffersAccounted ==
  TypeOK /\ (fault \/ pool + Inside + lost = Scene[scene].pool)

\* What a worker sends for the frame that it takes from port p next.
Sent(p) == Process(prog, rib, p, Head(rx[p]))

\* A frame that was routed to the link: from the router's address on that
\* vswitch, along a route, with some TTL left.
RoutedTo(f, l) ==
  \E s \in Slot, k \in DOMAIN rib.route :
    /\ rib.vs[s].id = rib.link[l].vs /\ rib.route[k].oif = rib.vs[s].rif.ifindex
    /\ f.src = rib.vs[s].rif.mac
    /\ f.kind \in IPv4 \cup IPv6 => f.ttl > 0

\* The programs keep vswitches apart, on ports that carry links of several
\* of them: what waits for transmission or in a tap ring belongs to the
\* vswitch the frame entered, with that link's tag, or was routed there; and
\* a worker routes to nobody but a neighbour of that moment (who may have
\* moved when the frame leaves).  A frame enters the vswitch configured for
\* its port and tag; an untagged frame on a port that has only tagged links
\* enters, by the code, the vswitch of the link its zeroed native field
\* names, and stays in that one (Entered).
Isolated ==
  prog \notin {"l2_repeater", "vlan_switch"} =>
    /\ \A p \in Port : \A f \in ToSet(tx[p]) :
         \E l \in DOMAIN rib.link :
           /\ rib.link[l].port = p /\ rib.link[l].tag = f.tag
           /\ rib.link[l].vs = f.vs \/ RoutedTo(f, l)
    /\ \A s \in Slot : \A f \in ToSet(ring[<<"up", s>>]) \cup ToSet(ring[<<"cap", s>>]) :
         f # Null => f.vs = rib.vs[s].id
    /\ \A p \in Port : rx[p] # <<>> =>
         \A x \in ToSet(Sent(p)) :
           x.to = "link" => rib.link[x.at].vs = x.fr.vs \/ x.fr.dst \in Range(neigh)

\* A worker sends a frame out of a link at most once, and back out of the
\* link it came in on only as the next segment of a segment list, or the
\* solicitation that it generates instead (_send_link's split horizon).
OncePerLink ==
  \A p \in Port : rx[p] # <<>> =>
    LET e == Sent(p)
        f == Head(rx[p])
    IN  \A i \in DOMAIN e : e[i].to = "link" =>
          /\ \A j \in DOMAIN e : e[j].to = "link" /\ e[j].at = e[i].at => j = i
          /\ e[i].at = RxLink(rib, p, f.tag) =>
               AtLocalSid(rib, f) \/ e[i].fr.port = SelfPort

\* The rings nobody reads: the capture ring of a vswitch without router_if,
\* which l3_tap_handler passes over, and the rings from the tap interfaces
\* under vlan_switch, whose call of tx_burst is commented out.
Unread == {i \in Rings : \/ i[1] = "cap" /\ ~rib.vs[i[2]].rif.set
                         \/ i[1] = "tapdn" /\ prog = "vlan_switch"}

\* Once no more frames come in, every buffer returns, except from the rings
\* that the programs fill and nobody reads.
Returned == quiet ~> (fault \/ Inside = HeldIn(Unread))

\* A host behind a route is found: as long as its peer repeats its packets
\* and it answers and now and then speaks, a packet reaches it, although
\* address resolution and the learning of its port go through three other
\* threads, and entries are aged.
Resolved ==
  <>(got \/ quiet \/ lost > 0 \/ fault \/ Scene[scene].goal.kind = "none")
=============================================================================
