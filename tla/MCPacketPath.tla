---------------------------- MODULE MCPacketPath ----------------------------
(* Two ports and two vswitches; port 0 is untagged in vswitch 1, and both  *)
(* ports are trunks of vswitch 2.  Host h1 is on port 0 in vswitch 1, host *)
(* h2 on port 1 in vswitch 2.  Port 1 has no untagged link, so that its    *)
(* native field is still zero and names the first link, which is port 0's. *)
EXTENDS PacketPath

MCNone == [x \in {} |-> 0]
MCRif(s, open) == [open |-> open, set |-> open, mac |-> <<"r1", "r2">>[s],
                   ip |-> <<"r1", "r2">>[s], ll |-> <<"l1", "l2">>[s],
                   vlan |-> <<0, 20>>[s], ifindex |-> s]
MCVs(s, links, rif, cif) == [id |-> s, vlan |-> 10 * s, links |-> links, deleted |-> FALSE,
                             rif |-> MCRif(s, rif), cif |-> cif]
MCLink(vs, p, tag) == [vs |-> vs, port |-> p, tag |-> tag]
MCRib(rif, cif) ==
  [vs |-> <<MCVs(1, <<1, 4>>, rif, cif), MCVs(2, <<2, 3>>, rif, cif)>>,
   link |-> <<MCLink(1, 0, 0), MCLink(2, 1, 20), MCLink(2, 0, 21), MCLink(1, 1, 10)>>,
   port |-> [p \in {0, 1} |-> IF p = 0 THEN [native |-> 1, vlans |-> <<3>>]
                                       ELSE [native |-> 1, vlans |-> <<2, 4>>]],
   fdb |-> MCNone, neigh |-> MCNone, route |-> MCNone, sid |-> {}, app |-> FALSE,
   stopped |-> {}, down |-> {}]

MCFrame(src, dst, tag, kind, ip, ttl) ==
  [src |-> src, dst |-> dst, tag |-> tag, kind |-> kind, ip |-> ip, ttl |-> ttl, segs |-> << >>]
MCOn(p, f) == [port |-> p, fr |-> f]
MCRoute(oif) == [oif |-> oif, connected |-> TRUE, gw |-> "none"]
MCMax(n, stop, forget) == [frames |-> n, stop |-> stop, forget |-> forget]
MCNoGoal == [kind |-> "none", dst |-> "none"]

MCResolve ==
  [prog |-> "router", pool |-> 8,
   rib |-> [MCRib(TRUE, FALSE) EXCEPT !.route = (<<4, "h2">> :> MCRoute(2))],
   rx |-> {},
   flow |-> {MCOn(0, MCFrame("h1", "r1", 0, "ip4", "h2", 2)),
             MCOn(1, MCFrame("h2", "ff", 20, "other", "none", 1))},
   answer |-> {MCOn(1, MCFrame("h2", "r2", 20, "arp_reply", "r2", 1))},
   dn |-> {}, goal |-> [kind |-> "ip4", dst |-> "h2"],
   max |-> MCMax(0, 0, 1)]

MCMixed ==
  [prog |-> "router", pool |-> 3,
   rib |-> [MCRib(TRUE, TRUE) EXCEPT
              !.route = (<<6, "h2">> :> MCRoute(2)) @@ (<<6, "::">> :> MCRoute(2))
                        @@ (<<4, "h4">> :> MCRoute(1)),
              !.neigh = (<<6, "h2">> :> "h2") @@ (<<6, "::">> :> "h2"),
              !.fdb = (<<"h2", 20>> :> 1)],
   rx |-> {MCOn(0, MCFrame("h1", "ff", 0, "arp_request", "r1", 1)),
           MCOn(0, MCFrame("h1", "r1", 0, "ip6", "h2", 2)),
           MCOn(0, MCFrame("h1", "r1", 0, "ip6", "h2", 1)),
           MCOn(0, MCFrame("h1", "r1", 0, "other", "none", 1)),
           MCOn(0, MCFrame("h1", "r1", 0, "ip4", "h4", 2)),
           MCOn(0, MCFrame("h3", "h2", 21, "ip4", "h2", 2)),
           MCOn(1, MCFrame("h2", "r2", 20, "na", "l2", 2)),
           MCOn(1, MCFrame("h5", "r1", 0, "ip6", "h2", 2)),
           MCOn(1, MCFrame("h2", "h4", 10, "ip4", "h4", 2))},
   flow |-> {}, answer |-> {},
   dn |-> {MCFrame("r1", "h2", 0, "ip4", "h2", 2)}, goal |-> MCNoGoal,
   max |-> MCMax(2, 2, 0)]

MCSrv6 ==
  [prog |-> "srv6_router", pool |-> 4,
   rib |-> [MCRib(TRUE, FALSE) EXCEPT
              !.route = (<<6, "h2">> :> MCRoute(2)), !.neigh = (<<6, "h2">> :> "h2"),
              !.fdb = (<<"h2", 20>> :> 1), !.sid = {"sid"}],
   rx |-> {MCOn(0, [MCFrame("h1", "r1", 0, "ip6", "sid", 2) EXCEPT !.segs = <<"h2">>]),
           MCOn(1, [MCFrame("h2", "r2", 20, "ip6", "sid", 2) EXCEPT !.segs = <<"h2">>]),
           MCOn(0, MCFrame("h1", "ff", 0, "ns", "r1", 2)),
           MCOn(0, MCFrame("h1", "r1", 0, "ip4", "h2", 2))},
   flow |-> {}, answer |-> {}, dn |-> {}, goal |-> MCNoGoal,
   max |-> MCMax(3, 2, 0)]

MCL2Switch ==
  [prog |-> "l2_switch", pool |-> 4, rib |-> MCRib(TRUE, TRUE),
   rx |-> {MCOn(0, MCFrame("h1", "h4", 0, "ip4", "h4", 2)),
           MCOn(1, MCFrame("h4", "h1", 10, "ip4", "h1", 2)),
           MCOn(1, MCFrame("h5", "h1", 0, "ip4", "h1", 2)),
           MCOn(1, MCFrame("h2", "ff", 20, "other", "none", 1))},
   flow |-> {}, answer |-> {},
   dn |-> {MCFrame("r1", "ff", 0, "arp_request", "h1", 1)}, goal |-> MCNoGoal,
   max |-> MCMax(2, 2, 0)]

MCEnhanced ==
  [prog |-> "enhanced_repeater", pool |-> 3,
   rib |-> [MCRib(FALSE, TRUE) EXCEPT !.app = TRUE, !.vs[2].rif = MCRif(2, TRUE)],
   rx |-> {MCOn(0, MCFrame("h1", "ff", 0, "dhcp4", "none", 2)),
           MCOn(1, MCFrame("h2", "h3", 20, "ip4", "h3", 2)),
           MCOn(1, MCFrame("h5", "ff", 0, "other", "none", 1)),
           MCOn(1, MCFrame("h2", "h3", 99, "ip4", "h3", 2))},
   flow |-> {}, answer |-> {},
   dn |-> {MCFrame("r2", "ff", 0, "arp_request", "h2", 1)}, goal |-> MCNoGoal,
   max |-> MCMax(2, 2, 0)]

MCVlanSwitch == [MCEnhanced EXCEPT !.prog = "vlan_switch"]

\* Tags mean nothing to l2_repeater, so that two frames less tell the same.
MCRepeater ==
  [MCEnhanced EXCEPT !.prog = "l2_repeater", !.max.frames = 3,
                     !.rx = {m \in @ : m.fr.tag \notin {20, 99}}]

MCScene ==
  [resolve |-> MCResolve, mixed |-> MCMixed, srv6 |-> MCSrv6, l2_switch |-> MCL2Switch,
   enhanced |-> MCEnhanced, vlan_switch |-> MCVlanSwitch, repeater |-> MCRepeater]
=============================================================================
