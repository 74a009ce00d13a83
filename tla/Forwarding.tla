----------------------------- MODULE Forwarding -----------------------------
(***************************************************************************)
(* What the worker programs do with one frame.                             *)
(*                                                                         *)
(* A worker holds a rib and a frame and hands copies of the frame to links *)
(* (the transmit buffer of a port), to the rings of the tap interfaces and *)
(* to rib_manager and neigh_manager as messages.  Here that is the         *)
(* sequence of emissions, in the code's order; whether a copy succeeds is  *)
(* decided when the emissions are carried out (PacketPath).                *)
(*                                                                         *)
(* A rib is [vs, link, port, fdb, route, neigh, sid, stopped, down]: the   *)
(* arrays of VSwitch with, for each vswitch, its router_if and whether its *)
(* capture_if is open; the FDB, FIB and neighbour tables as functions with *)
(* the known keys as domain; the local SIDs; and the ports that are        *)
(* stopped or whose link is down.  Index i of the code is i+1, 0 is NULL.  *)
(*                                                                         *)
(* A frame is [src, dst, tag, kind, ip, ttl, segs, port, vs]: tag is 0 when *)
(* there is no VLAN header, kind says what the headers of the payload are, *)
(* ip is the address the code compares (destination or target), a ttl of 0 *)
(* stands for every reason to fail verification, segs is the segment list  *)
(* of a routing header up to segments_left, port is m->port, and vs is a   *)
(* history: the vswitch the frame entered.                                 *)
(***************************************************************************)
EXTENDS Naturals, Sequences, FiniteSetsExt, SequencesExt

Broadcast == "ff"
SelfPort == 65535          \* ROUTER_IF_RX_SELF_PORT_ID
Unspecified == "::"        \* the zeroed dst_ip of a frame that is not IP

ARP == {"arp_request", "arp_reply"}
IPv4 == {"ip4", "ospf4", "dhcp4"}
IPv6 == {"ip6", "ospf6", "ns", "na"}

FirstIn(S) == IF S = {} THEN 0 ELSE Min(S)

-----------------------------------------------------------------------------
(* Where a frame belongs.                                                  *)

\* The link a frame with this tag belongs to, when it arrives on port p.
RxTagged(r, p, tag) ==
  LET hit == {i \in DOMAIN r.port[p].vlans : r.link[r.port[p].vlans[i]].tag = tag}
  IN  IF hit = {} THEN 0 ELSE r.port[p].vlans[Min(hit)]

\* ... and an untagged frame.
RxUntagged(r, p) == IF r.port[p].native \in DOMAIN r.link THEN r.port[p].native ELSE 0

RxLink(r, p, tag) == IF tag = 0 THEN RxUntagged(r, p) ELSE RxTagged(r, p, tag)

\* The worker's own search for the vswitch does not look at is_deleted.
WorkerVswitch(r, l) ==
  IF l = 0 THEN 0 ELSE FirstIn({s \in DOMAIN r.vs : r.vs[s].id = r.link[l].vs})

\* fdb_lookup_entry, as the set of at most one port.
FdbPort(r, mac, vlan) ==
  IF <<mac, vlan>> \in DOMAIN r.fdb THEN {r.fdb[<<mac, vlan>>]} ELSE {}

\* The first link of the vswitch on one of the ports.
LinkOn(r, s, ports) ==
  LET L == r.vs[s].links
      hit == {i \in DOMAIN L : r.link[L[i]].port \in ports}
  IN  IF hit = {} THEN 0 ELSE L[Min(hit)]

-----------------------------------------------------------------------------
(* The helpers of net_subr.h.                                              *)

Emission(to, at, f) == <<[to |-> to, at |-> at, fr |-> f]>>

\* Mutant: the VLAN header is left as it came.
SendLinkUntouched(r, rx, l, f) ==
  IF l = rx \/ r.link[l].port \in r.down THEN <<>> ELSE Emission("link", l, f)

\* Mutant: without split horizon.
SendLinkBack(r, rx, l, f) ==
  IF r.link[l].port \in r.down THEN <<>>
  ELSE Emission("link", l, [f EXCEPT !.tag = r.link[l].tag])

\* _send_link: split horizon on the link, then the VLAN header of the link.
SendLink(r, rx, l, f) ==
  IF l = rx \/ r.link[l].port \in r.down THEN <<>>
  ELSE Emission("link", l, [f EXCEPT !.tag = r.link[l].tag])

\* _send_router_if_ring, with the VLAN header of the router_if.
RouterIf(r, s, f) ==
  IF r.vs[s].rif.open
  THEN Emission("router_if", <<"up", s>>, [f EXCEPT !.tag = r.vs[s].rif.vlan]) ELSE <<>>

Capture(r, s, f) == IF r.vs[s].cif THEN Emission("ring", <<"cap", s>>, f) ELSE <<>>

Flooding(r, p, rx, s, f) ==
  LET L == r.vs[s].links
      Send(i) == IF r.link[L[i]].port \in r.stopped THEN <<>>
                 ELSE SendLink(r, rx, L[i], f)
  IN  FlattenSeq([i \in DOMAIN L |-> Send(i)])
      \o (IF p = SelfPort THEN <<>> ELSE RouterIf(r, s, f))

\* _switching; a known destination is not tested for is_stopped.
Switching(r, p, rx, s, f) ==
  LET l == LinkOn(r, s, FdbPort(r, f.dst, r.vs[s].vlan))
  IN  IF r.vs[s].deleted THEN <<>>
      ELSE IF f.dst = Broadcast \/ l = 0 THEN Flooding(r, p, rx, s, f)
      ELSE SendLink(r, rx, l, f)

\* arp_req_pkt_gen or ns_pkt_gen, flooded on the vswitch of interface oif
\* and freed; "alloc" stands for the generated packet.
Solicit(r, oif, family, ip) ==
  LET s == FirstIn({x \in DOMAIN r.vs : r.vs[x].rif.ifindex = oif})
      request == [src |-> r.vs[s].rif.mac, dst |-> Broadcast, tag |-> 0,
                  kind |-> IF family = 4 THEN "arp_request" ELSE "ns",
                  ip |-> ip, ttl |-> 2, segs |-> <<>>, port |-> SelfPort,
                  vs |-> r.vs[s].id]
  IN  IF s = 0 THEN <<>>
      ELSE Emission("alloc", 0, request) \o Flooding(r, SelfPort, 0, s, request)
           \o Emission("free", 0, request)

\* The rewrite of the headers; only IP has a TTL.
Rewritten(f, rif, mac) ==
  [f EXCEPT !.ttl = IF f.kind \in IPv4 \cup IPv6 THEN @ - 1 ELSE @,
            !.src = rif.mac, !.dst = mac]

\* _forwarding.  A frame that is not IP is looked up as IPv6 address ::.
Forward(r, rx, s, f) ==
  LET family == IF f.kind \in IPv4 THEN 4 ELSE 6
      dst == IF f.kind \in IPv4 \cup IPv6 THEN f.ip ELSE Unspecified
      nh == r.route[<<family, dst>>]
      ip == IF nh.connected THEN dst ELSE nh.gw
      mac == r.neigh[<<family, ip>>]
      t == FirstIn({x \in DOMAIN r.vs : ~r.vs[x].deleted /\ r.vs[x].rif.ifindex = nh.oif})
      l == LinkOn(r, t, FdbPort(r, mac, r.vs[t].vlan))
  IN  IF <<family, dst>> \notin DOMAIN r.route THEN <<>>
      ELSE IF <<family, ip>> \notin DOMAIN r.neigh THEN Solicit(r, nh.oif, family, ip)
      ELSE IF t = 0 THEN <<>>
      ELSE IF l = 0 THEN <<>>
      ELSE IF r.link[l].port \in r.stopped THEN <<>>
      ELSE SendLink(r, rx, l, Rewritten(f, r.vs[t].rif, mac))

\* _check_control_packet
IsControl(rif, f) ==
  \/ f.kind \in ARP \cup {"ns"} /\ f.ip = rif.ip
  \/ f.kind \in IPv4 /\ f.ip = rif.ip
  \/ f.kind \in {"ospf4", "ospf6"}
  \/ f.kind = "na" /\ f.ip = rif.ll

\* Mutant: the opcodes of ARP are swapped.
ReportRequest(rif, f) ==
  IF IsControl(rif, f) /\ f.kind \in {"arp_request", "na"}
  THEN Emission("neigh", IF f.kind = "na" THEN 6 ELSE 4, f) ELSE <<>>

\* ... which also reports the sender of an ARP reply or advertisement.
Report(rif, f) ==
  IF IsControl(rif, f) /\ f.kind \in {"arp_reply", "na"}
  THEN Emission("neigh", IF f.kind = "na" THEN 6 ELSE 4, f) ELSE <<>>

-----------------------------------------------------------------------------
(* router.c and srv6_router.c.                                             *)

\* _process_srv6_packet_multi_sids: the next segment replaces the
\* destination if that is one of the local SIDs.
AtLocalSid(r, f) == f.kind = "ip6" /\ f.segs # <<>> /\ f.ip \in r.sid

NextSegment(f) == [f EXCEPT !.ip = Last(f.segs), !.segs = Front(f.segs)]

\* A frame that is not IPv6 has no IPv6 header, and the code reads one.
Srv6Forwarding(r, rx, s, f) ==
  IF f.kind \notin IPv6 THEN Emission("null", 0, f)
  ELSE IF AtLocalSid(r, f) THEN Forward(r, 0, s, NextSegment(f))
  ELSE Forward(r, rx, s, f)

ForMe(rif, f) == f.dst = rif.mac /\ f.kind \in IPv4 \cup IPv6 /\ f.ip = rif.ip

\* _process_rx_packet after the vswitch is found.  The two programs differ
\* in whether a broadcast control packet goes up once or twice.
RouterOf(r, p, rx, s, f, srv6) ==
  LET rif == r.vs[s].rif
      mcast == f.dst = Broadcast
      control == rif.open /\ IsControl(rif, f)
      first == IF mcast THEN RouterIf(r, s, f) ELSE <<>>
  IN  IF ForMe(rif, f) THEN RouterIf(r, s, f)
      ELSE first \o
        (IF control THEN Report(rif, f)
                         \o (IF mcast /\ ~srv6 THEN <<>> ELSE RouterIf(r, s, f))
         ELSE IF f.dst # rif.mac THEN Switching(r, p, rx, s, f)
         ELSE IF f.kind \in IPv4 \cup IPv6 /\ f.ttl <= 1 THEN <<>>
         ELSE IF srv6 THEN Srv6Forwarding(r, rx, s, f)
         ELSE Forward(r, rx, s, f))

RouterRx(r, p, f, srv6) ==
  LET rx == RxLink(r, p, f.tag)
      s == WorkerVswitch(r, rx)
  IN  IF s = 0 THEN <<>> ELSE Capture(r, s, f) \o RouterOf(r, p, rx, s, f, srv6)

-----------------------------------------------------------------------------
(* l2_switch.c, vlan_switch.c, enhanced_repeater.c and l2_repeater.c.      *)

\* The links of vswitch s, without the one a frame came in on and without
\* the ports to skip.
SendOthers(r, s, rx, skip, f) ==
  LET L == r.vs[s].links
      Send(l) == IF l = rx \/ r.link[l].port \in skip THEN <<>> ELSE SendLink(r, 0, l, f)
  IN  FlattenSeq([i \in DOMAIN L |-> Send(L[i])])

\* Copies for the tap interfaces whose success is not tested.
RawRing(open, ring, f) == IF open THEN Emission("raw", ring, f) ELSE <<>>

\* l2_switch_select: the FDB is searched with the tag of the receiving link,
\* unknown destinations are flooded to stopped ports too, and a missing
\* vswitch is not tested for.
L2SwitchRx(r, p, f) ==
  LET rx == RxLink(r, p, f.tag)
      s == WorkerVswitch(r, rx)
      known == FdbPort(r, f.dst, r.link[rx].tag)
      l == LinkOn(r, s, known \ (r.stopped \cup {p}))
      links == IF f.dst = Broadcast THEN SendOthers(r, s, rx, r.stopped \cup {p}, f)
               ELSE IF known = {} THEN SendOthers(r, s, rx, {p}, f)
               ELSE IF l = 0 THEN <<>> ELSE SendLink(r, rx, l, f)
  IN  IF rx = 0 THEN <<>>
      ELSE IF s = 0 THEN Emission("null", 0, f)
      ELSE links \o RawRing(r.vs[s].rif.open, <<"up", s>>, f)
                 \o RawRing(r.vs[s].cif, <<"cap", s>>, f)

\* vlan_switch_select takes the vswitch's id for its index; every frame goes
\* to the tap ring of its queue.
VlanSwitchRx(r, p, f) ==
  LET rx == RxLink(r, p, f.tag)
      id == r.link[rx].vs
      links == IF rx = 0 THEN <<>>
               ELSE IF id >= Len(r.vs) THEN <<>>
               ELSE SendOthers(r, id + 1, rx, {p}, f)
  IN  links \o RawRing(TRUE, <<"tapup", p>>, f)

\* _process_rx_packet of enhanced_repeater.c, with the application slots.
EnhancedRepeaterRx(r, p, f) ==
  LET rx == RxLink(r, p, f.tag)
      s == WorkerVswitch(r, rx)
  IN  IF s = 0 THEN <<>>
      ELSE SendOthers(r, s, rx, r.stopped \cup {p}, f)
           \o RouterIf(r, s, f) \o Capture(r, s, f)
           \o (IF r.app /\ f.kind = "dhcp4" THEN Emission("ring", <<"app", 0>>, f) ELSE <<>>)

\* l2_repeater_tap_up and l2_repeat know ports only.
L2RepeaterRx(r, p, f) ==
  LET others == SetToSeq(DOMAIN r.port \ ({p} \cup r.down))
  IN  RawRing(TRUE, <<"tapup", p>>, f)
      \o FlattenSeq([i \in DOMAIN others |-> Emission("port", others[i], f)])

-----------------------------------------------------------------------------
(* Frames from a router_if (ring_dn).                                      *)

\* _process_tx_packet of router.c and srv6_router.c.
RouterTx(r, s, f) == Switching(r, SelfPort, 0, s, f)

\* _thread_tx_burst of enhanced_repeater.c and l2_switch_tx_burst.
RepeaterTx(r, s, f) ==
  LET L == r.vs[s].links
      Send(l) == IF r.link[l].vs = r.vs[s].id THEN SendLink(r, 0, l, f) ELSE <<>>
  IN  FlattenSeq([i \in DOMAIN L |-> Send(L[i])])

-----------------------------------------------------------------------------
Process(prog, r, p, f) ==
  CASE prog = "router" -> RouterRx(r, p, f, FALSE)
    [] prog = "srv6_router" -> RouterRx(r, p, f, TRUE)
    [] prog = "l2_switch" -> L2SwitchRx(r, p, f)
    [] prog = "vlan_switch" -> VlanSwitchRx(r, p, f)
    [] prog = "enhanced_repeater" -> EnhancedRepeaterRx(r, p, f)
    [] prog = "l2_repeater" -> L2RepeaterRx(r, p, f)

ProcessDown(prog, r, s, f) ==
  IF prog \in {"router", "srv6_router"} THEN RouterTx(r, s, f) ELSE RepeaterTx(r, s, f)
=============================================================================
