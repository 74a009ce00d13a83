------------------------------ MODULE VSwitch -------------------------------
(***************************************************************************)
(* Virtual switches, their links to ports, and their tap interfaces.       *)
(*                                                                         *)
(* rib_manager keeps three arrays that refer to each other by index: a     *)
(* vswitch lists its links, a link names its vswitch and its port, and a   *)
(* port lists the links of its tagged VLANs and its native VLAN.  Deleted  *)
(* slots are only marked, and reused.  The rings of the tap interfaces are *)
(* global: they belong to no version of the rib.                           *)
(*                                                                         *)
(* A message handler builds the next rib (new), then publishes it (rib);   *)
(* what it does to the rings takes effect at once.  Arrays are sequences,  *)
(* so index i of the code is i+1 here and 0 stands for the code's NULL or  *)
(* -1; ports, vswitch ids and the ring arrays keep the code's numbers.     *)
(* A link's vswitch_port is left out: it is only printed.                  *)
(***************************************************************************)
EXTENDS Forwarding, Functions

CONSTANTS
  VswitchId, Port, Tap,
  Vlan,          \* VLAN ids given to vswitches
  Tag,           \* tags for "tag swap"
  MaxVswitch,    \* MAX_VSWITCH
  MaxPorts,      \* MAX_VSWITCH_PORTS
  MaxVlan,       \* MAX_VLAN_PER_PORT
  MaxGen,        \* bound: rings created per slot
  Site,          \* bounds: [deletes, port, tag, links], whether "no set"
                 \* commands are given, the ports and tags that are used,
                 \* and MAX_VSWITCH_LINK
  EarlyConfig,   \* may vswitches be configured before the first PORT_STATUS?
  TapOpenFails   \* may tap_open fail?

ASSUME IdAssumption == VswitchId \subseteq Nat /\ Port \subseteq Nat /\ 0 \in Port
ASSUME TagAssumption == Vlan \subseteq Nat \ {0} /\ Tag \subseteq Nat \ {0}
ASSUME SizeAssumption ==
  {MaxVswitch, MaxPorts, MaxVlan, MaxGen} \subseteq Nat \ {0}
ASSUME SiteAssumption ==
  \A c \in Site : /\ c.deletes \in BOOLEAN /\ c.links \in Nat \ {0}
                  /\ c.port \subseteq Port /\ c.tag \subseteq Tag

NoTap == "no tap"
ASSUME TapAssumption == NoTap \notin Tap

IfKind == {"router_if", "capture_if"}
NoRib == [ver |-> "none"]

VARIABLES
  site,     \* what is configured, fixed at the start
  rib,      \* the published rib
  new,      \* the rib under construction, or NoRib
  ring,     \* the global arrays of rings: alive, and how often created
  known,    \* PORT_STATUS has filled in the dpdk_port_ids
  fault     \* "bounds": the ring arrays were indexed beyond their end;
            \* "null": a NULL vswitch was dereferenced

vars == <<site, rib, new, ring, known, fault>>

NoIf == [open |-> FALSE, tap |-> NoTap, ring |-> 0]
MaxLink == site.links
AllTags == Vlan \cup Tag

TapIf == [open : BOOLEAN, tap : Tap \cup {NoTap}, ring : 0 .. MaxGen]
VswitchConf == [id : VswitchId, vlan : Vlan, links : Seq(1 .. MaxLink),
                ifs : [IfKind -> TapIf], deleted : BOOLEAN]
Link == [vs : VswitchId, port : Port, tag : AllTags \cup {0}, deleted : BOOLEAN]
PortConf == [vlans : Seq(1 .. MaxLink), native : 0 .. MaxLink]
Rib == [vs : Seq(VswitchConf), link : Seq(Link), port : [Port -> PortConf]]

\* rib_info_create zeroes the first rib: every port's native VLAN is link 0.
Init ==
  /\ site \in Site
  /\ rib = [vs |-> <<>>, link |-> <<>>,
            port |-> [p \in Port |-> [vlans |-> <<>>, native |-> 1]]]
  /\ new = NoRib
  /\ ring = [k \in IfKind |-> [i \in 0 .. MaxVswitch - 1 |-> [alive |-> FALSE, gen |-> 0]]]
  /\ known = FALSE
  /\ fault = "none"

-----------------------------------------------------------------------------
(* The helpers of rib_manager.c, as functions of a rib r.                  *)

\* vswitch_lookup
VswitchLookup(r, id) ==
  FirstIn({s \in DOMAIN r.vs : r.vs[s].id = id /\ ~r.vs[s].deleted})

Fresh(id, vlan) ==
  [id |-> id, vlan |-> vlan, links |-> <<>>,
   ifs |-> [k \in IfKind |-> NoIf], deleted |-> FALSE]

\* Mutant: a new vswitch always goes behind the last one, if there is room.
VswitchNewAppend(r, id, vlan) ==
  LET dead == {s \in DOMAIN r.vs : r.vs[s].deleted}
  IN  IF Len(r.vs) < MaxVswitch THEN [r EXCEPT !.vs = Append(@, Fresh(id, vlan))]
      ELSE IF dead # {} THEN [r EXCEPT !.vs[Min(dead)] = Fresh(id, vlan)]
      ELSE r

\* vswitch_new: the first deleted slot, or a new one.
VswitchNew(r, id, vlan) ==
  LET dead == {s \in DOMAIN r.vs : r.vs[s].deleted}
  IN  IF dead # {} THEN [r EXCEPT !.vs[Min(dead)] = Fresh(id, vlan)]
      ELSE IF Len(r.vs) < MaxVswitch
      THEN [r EXCEPT !.vs = Append(@, Fresh(id, vlan))]
      ELSE r

\* vswitch_link_lookup
LinkLookup(r, id, p) ==
  FirstIn({l \in DOMAIN r.link :
             r.link[l].vs = id /\ r.link[l].port = p /\ ~r.link[l].deleted})

\* The slot vswitch_link_new takes: 0 when the table is full.
LinkSlot(r) ==
  LET dead == {l \in DOMAIN r.link : r.link[l].deleted}
  IN  IF dead # {} THEN Min(dead)
      ELSE IF Len(r.link) < MaxLink THEN Len(r.link) + 1 ELSE 0

PutLink(r, l, link) ==
  IF l \in DOMAIN r.link THEN [r EXCEPT !.link[l] = link]
                         ELSE [r EXCEPT !.link = Append(@, link)]

\* Mutant: only a port without tagged links gets a native VLAN.
PortAddNativeFirst(conf, l, tag) ==
  IF tag = 0 THEN IF conf.vlans = <<>> THEN [conf EXCEPT !.native = l] ELSE conf
  ELSE IF Len(conf.vlans) < MaxVlan THEN [conf EXCEPT !.vlans = Append(@, l)]
  ELSE conf

\* port_set_native_vlan and port_add_tagged_vlan
PortAdd(conf, l, tag) ==
  IF tag = 0 THEN [conf EXCEPT !.native = l]
  ELSE IF Len(conf.vlans) < MaxVlan THEN [conf EXCEPT !.vlans = Append(@, l)]
  ELSE conf

\* vswitch_link_new for vswitch slot s and port p, and the port's entry.
\* A link of a full vswitch is created, but the vswitch does not list it.
AddLink(r, s, p, tag) ==
  LET l == LinkSlot(r)
      port == IF known THEN p ELSE 0
      r1 == PutLink(r, l, [vs |-> r.vs[s].id, port |-> port, tag |-> tag,
                           deleted |-> FALSE])
      r2 == IF Len(r.vs[s].links) < MaxPorts
            THEN [r1 EXCEPT !.vs[s].links = Append(@, l)] ELSE r1
  IN  IF l = 0 THEN r ELSE [r2 EXCEPT !.port[p] = PortAdd(@, l, tag)]

\* Mutant: the first tagged VLAN is removed, whichever link it is.
PortRemoveHead(conf, l) ==
  IF conf.vlans = <<>> THEN conf
  ELSE IF Head(conf.vlans) # l /\ conf.native = l THEN [conf EXCEPT !.native = 0]
  ELSE [conf EXCEPT !.vlans = Tail(@)]

\* vswitch_link_remove_from_port_vlan_array.  The loop looks at the native
\* VLAN only if the port has a tagged one, and then ends.
PortRemove(conf, l) ==
  IF conf.vlans = <<>> THEN conf
  ELSE IF Head(conf.vlans) # l /\ conf.native = l THEN [conf EXCEPT !.native = 0]
  ELSE [conf EXCEPT !.vlans = RemoveFirst(@, l)]

\* Mutant: the link stays in the vswitch's array.
LinkDeleteListed(r, l) ==
  [r EXCEPT !.port[r.link[l].port] = PortRemove(@, l), !.link[l].deleted = TRUE]

\* vswitch_link_delete.  A vswitch lists a link once, so that removing one
\* occurrence is removing all.
LinkDelete(r, l) ==
  LET s == VswitchLookup(r, r.link[l].vs)
  IN  [r EXCEPT !.vs[s].links = RemoveFirst(@, l),
                !.port[r.link[l].port] = PortRemove(@, l),
                !.link[l].deleted = TRUE]

\* The end of vswitch_delete: the loop deletes the links one by one.
DeleteWithLinks(r, s) ==
  LET links == r.vs[s].links
      after[n \in 0 .. Len(links)] ==
        IF n = 0 THEN r ELSE LinkDelete(after[n - 1], links[n])
  IN  [after[Len(links)] EXCEPT !.vs[s].deleted = TRUE]

\* router_if_delete and capture_if_delete free rings indexed by vswitch id;
\* an id beyond the array is counted as a fault.
RingFree(rg, kinds, ids) ==
  [k \in IfKind |-> [i \in 0 .. MaxVswitch - 1 |->
     IF k \in kinds /\ i \in ids THEN [rg[k][i] EXCEPT !.alive = FALSE] ELSE rg[k][i]]]

FaultOf(kinds, ids) ==
  IF kinds # {} /\ \E id \in ids : id >= MaxVswitch THEN "bounds" ELSE fault

\* Mutant: the record of an interface forgets its socket but not its name.
IfDeleteNamed(conf, kinds) ==
  [conf EXCEPT !.ifs = [k \in IfKind |->
     IF k \in kinds THEN [@[k] EXCEPT !.open = FALSE, !.ring = 0] ELSE @[k]]]

\* ... and reset the vswitch's record of the interface.
IfDelete(conf, kinds) ==
  [conf EXCEPT !.ifs = [k \in IfKind |-> IF k \in kinds THEN NoIf ELSE @[k]]]

-----------------------------------------------------------------------------
(* The part of rib_check that creates the rings of open interfaces: the    *)
(* ring arrays are indexed by slot.                                        *)

Missing(r, rg, k, i) ==
  /\ i + 1 \in DOMAIN r.vs
  /\ r.vs[i + 1].ifs[k].open
  /\ ~rg[k][i].alive

CheckRings(r, rg) ==
  [k \in IfKind |-> [i \in 0 .. MaxVswitch - 1 |->
     IF Missing(r, rg, k, i) THEN [alive |-> TRUE, gen |-> rg[k][i].gen + 1]
                             ELSE rg[k][i]]]

Refresh(r, rg) ==
  [r EXCEPT !.vs = [s \in DOMAIN r.vs |->
     [r.vs[s] EXCEPT !.ifs = [k \in IfKind |->
        IF r.vs[s].ifs[k].open
        THEN [r.vs[s].ifs[k] EXCEPT !.ring = rg[k][s - 1].gen]
        ELSE r.vs[s].ifs[k]]]]]

Bounded(rg) == \A k \in IfKind, i \in 0 .. MaxVswitch - 1 : rg[k][i].gen <= MaxGen

-----------------------------------------------------------------------------
(* Messages.  A handler whose lookup fails publishes an unchanged copy,    *)
(* which is a stuttering step here.                                        *)

Idle == new = NoRib /\ fault # "null"

VswitchSet(id, vlan) ==
  /\ Idle
  /\ VswitchLookup(rib, id) = 0
  /\ new' = VswitchNew(rib, id, vlan)
  /\ UNCHANGED <<rib, ring, known, fault>>

\* vswitch_delete: the interfaces that are open, the links, the vswitch.
VswitchNoSet(id) ==
  LET s == VswitchLookup(rib, id)
      open == {k \in IfKind : rib.vs[s].ifs[k].open}
      r == [rib EXCEPT !.vs[s] = IfDelete(@, open)]
  IN  /\ Idle /\ site.deletes
      /\ s # 0
      /\ new' = DeleteWithLinks(r, s)
      /\ ring' = RingFree(ring, open, {id})
      /\ fault' = FaultOf(open, {id})
      /\ UNCHANGED <<rib, known>>

\* Tag 0 is an untagged port; "tagged" alone means the vswitch's own VLAN.
VswitchPortSet(id, p, tag) ==
  LET s == VswitchLookup(rib, id)
  IN  /\ Idle /\ (known \/ EarlyConfig)
      /\ s # 0
      /\ new' = AddLink(rib, s, p, tag)
      /\ UNCHANGED <<rib, ring, known, fault>>

VswitchPortNoSet(id, p) ==
  LET l == LinkLookup(rib, id, IF known THEN p ELSE 0)
  IN  /\ Idle /\ site.deletes
      /\ VswitchLookup(rib, id) # 0
      /\ l # 0
      /\ new' = LinkDelete(rib, l)
      /\ UNCHANGED <<rib, ring, known, fault>>

\* ROUTER_IF_SET and CAPTURE_IF_SET, rib_check included.  When rib_check
\* fails nothing is published.
IfSet(k, id, tap, opened) ==
  LET s == VswitchLookup(rib, id)
      r == [rib EXCEPT !.vs[s].ifs[k] = [@ EXCEPT !.open = opened, !.tap = tap]]
  IN  /\ Idle
      /\ opened \/ TapOpenFails
      /\ s # 0
      /\ ring' = CheckRings(r, ring)
      /\ Bounded(ring')
      /\ new' = Refresh(r, ring')
      /\ UNCHANGED <<rib, known, fault>>

\* ROUTER_IF_NO_SET and CAPTURE_IF_NO_SET: every slot with that tap name,
\* deleted ones too, is deleted through its vswitch id.
IfNoSet(k, tap) ==
  LET hits == {s \in DOMAIN rib.vs : rib.vs[s].ifs[k].tap = tap}
      ids == {rib.vs[s].id : s \in hits}
      found == {VswitchLookup(rib, id) : id \in ids}
  IN  /\ Idle /\ site.deletes
      /\ hits # {}
      /\ IF 0 \in found
         THEN fault' = "null" /\ UNCHANGED <<new, ring>>
         ELSE /\ new' = [rib EXCEPT !.vs = [s \in DOMAIN rib.vs |->
                           IF s \in found THEN IfDelete(rib.vs[s], {k}) ELSE rib.vs[s]]]
              /\ ring' = RingFree(ring, {k}, ids)
              /\ fault' = FaultOf({k}, ids)
      /\ UNCHANGED <<rib, known>>

\* Another message that runs rib_check, QCONF for instance.
Recheck ==
  /\ Idle
  /\ ring' = CheckRings(rib, ring)
  /\ Bounded(ring')
  /\ new' = Refresh(rib, ring')
  /\ UNCHANGED <<rib, known, fault>>

\* update_port_status; the links keep the port ids they have.
PortStatus ==
  /\ Idle
  /\ known' = TRUE
  /\ UNCHANGED <<rib, new, ring, fault>>

\* rib_replace
Publish ==
  /\ new # NoRib
  /\ rib' = new
  /\ new' = NoRib
  /\ UNCHANGED <<ring, known, fault>>

Command ==
  \/ \E id \in VswitchId : VswitchNoSet(id) \/ \E vlan \in Vlan : VswitchSet(id, vlan)
  \/ \E id \in VswitchId, p \in site.port :
       \/ VswitchPortNoSet(id, p)
       \/ \E tag \in site.tag \cup {0} : VswitchPortSet(id, p, tag)
       \/ VswitchLookup(rib, id) # 0
          /\ VswitchPortSet(id, p, rib.vs[VswitchLookup(rib, id)].vlan)
  \/ \E k \in IfKind, tap \in Tap :
       \/ IfNoSet(k, tap)
       \/ \E id \in VswitchId, opened \in BOOLEAN : IfSet(k, id, tap, opened)

Next == (Command \/ Recheck \/ PortStatus \/ Publish) /\ UNCHANGED site

Spec == Init /\ [][Next]_vars

-----------------------------------------------------------------------------
(* The workers' side, on a rib; RxTagged, RxUntagged and WorkerVswitch are *)
(* those of Forwarding.                                                    *)

\* Where _switching and _flooding send a frame that came in on link l.
Flooded(r, l) ==
  LET s == WorkerVswitch(r, l)
  IN  IF s = 0 \/ r.vs[s].deleted THEN {}
      ELSE {r.vs[s].links[i] : i \in DOMAIN r.vs[s].links} \ {l}

-----------------------------------------------------------------------------
(* Properties.                                                             *)

TypeOK ==
  /\ rib \in Rib /\ Len(rib.vs) <= MaxVswitch /\ Len(rib.link) <= MaxLink
  /\ new = NoRib \/ new \in Rib
  /\ ring \in [IfKind -> [0 .. MaxVswitch - 1 -> [alive : BOOLEAN, gen : 0 .. MaxGen]]]
  /\ known \in BOOLEAN
  /\ fault \in {"none", "bounds", "null"}

LiveLinks(r) == {l \in DOMAIN r.link : ~r.link[l].deleted}

\* The workers search a vswitch by id without looking at is_deleted; they
\* still find the live one, although deleted slots keep their ids and are
\* reused in any order.
VswitchFound ==
  /\ TypeOK
  /\ \A s \in DOMAIN rib.vs :
       ~rib.vs[s].deleted => \A i \in 1 .. s - 1 : rib.vs[i].id # rib.vs[s].id

\* A frame that arrives on a link in use is flooded to exactly the other
\* links in use of the same vswitch, each once, whatever was deleted and
\* reused before.
FloodIsolated ==
  /\ \A l \in LiveLinks(rib) :
       Flooded(rib, l) = {m \in LiveLinks(rib) \ {l} : rib.link[m].vs = rib.link[l].vs}
  /\ \A s \in DOMAIN rib.vs : IsInjective(rib.vs[s].links)

\* A tagged frame is accepted exactly on the ports and with the tags of links
\* in use.
TaggedDelivery ==
  \A p \in Port, tag \in AllTags :
    LET l == RxTagged(rib, p, tag)
        conf == {m \in LiveLinks(rib) : rib.link[m].port = p /\ rib.link[m].tag = tag}
    IN  IF conf = {} THEN l = 0 ELSE l \in conf

\* An untagged frame on a port with untagged links enters one of them, also
\* when the port has tagged links, or got a tagged one later.
UntaggedDelivery ==
  \A p \in Port :
    LET conf == {m \in LiveLinks(rib) : rib.link[m].port = p /\ rib.link[m].tag = 0}
    IN  conf # {} => RxUntagged(rib, p) \in conf

\* While nothing is deleted, frames are accepted as the links in use say:
\* tagged ones exactly with their tags (rx_link lookup by tag), untagged ones
\* on a port's native link, in whichever order the links were configured.
Delivered == ~site.deletes => TaggedDelivery /\ UntaggedDelivery

\* Receivers find link l by its tag, or as the native VLAN of its port.
Heard(r, l) ==
  LET conf == r.port[r.link[l].port]
  IN  IF r.link[l].tag = 0 THEN conf.native = l
      ELSE \E i \in DOMAIN conf.vlans : conf.vlans[i] = l

\* Link l is in use in r and in its successor q: it is the same link, and
\* receivers that found it still do, unless a newer untagged link is now the
\* native VLAN of its port.
LinkKept(q, r, l) ==
  /\ q.link[l] = r.link[l]
  /\ Heard(r, l) => Heard(q, l) \/
       /\ r.link[l].tag = 0
       /\ \E m \in LiveLinks(q) \ LiveLinks(r) :
            q.link[m].port = r.link[l].port /\ q.link[m].tag = 0

\* Receivers find a link that is new in q, if its port's array had room.
LinkTaken(q, r, l) ==
  \/ Heard(q, l)
  \/ q.link[l].tag # 0 /\ Len(r.port[q.link[l].port].vlans) >= MaxVlan

Keeps(q, r) ==
  /\ \A l \in LiveLinks(q) \cap LiveLinks(r) : LinkKept(q, r, l)
  /\ \A l \in LiveLinks(q) \ LiveLinks(r) : LinkTaken(q, r, l)

\* Whatever is deleted and reused around it (vswitch_link_delete,
\* vswitch_delete, vswitch_link_new), a link in use stays the link it is, and
\* receivers go on finding it; they find a new link, tagged or not.
LinksKept == [][Keeps(rib', rib)]_vars

\* No handler dereferences the NULL of a failed vswitch_lookup.
NoNullVswitch == fault # "null"

-----------------------------------------------------------------------------
(* The inductive invariants behind these properties, of a rib r.           *)

Sized(r) == r \in Rib /\ Len(r.vs) <= MaxVswitch /\ Len(r.link) <= MaxLink

\* A live vswitch is the first slot with its id.
Unique(r) ==
  \A s \in DOMAIN r.vs : ~r.vs[s].deleted =>
    \A i \in 1 .. s - 1 : r.vs[i].id # r.vs[s].id

\* A live vswitch lists links in use of its own, none twice.
Listed(r) ==
  \A s \in DOMAIN r.vs :
    /\ IsInjective(r.vs[s].links)
    /\ ~r.vs[s].deleted => \A i \in DOMAIN r.vs[s].links :
         /\ r.vs[s].links[i] \in LiveLinks(r)
         /\ r.link[r.vs[s].links[i]].vs = r.vs[s].id

\* A deleted vswitch has no open interface.
Closed(r) ==
  \A s \in DOMAIN r.vs, k \in IfKind : r.vs[s].deleted => ~r.vs[s].ifs[k].open

\* Only an open interface has a name, if every tap opens.
Named(r) ==
  \A s \in DOMAIN r.vs, k \in IfKind :
    ~r.vs[s].ifs[k].open => r.vs[s].ifs[k].tap = NoTap

\* The other way round: a link in use is listed by a live vswitch.
Complete(r) ==
  \A l \in LiveLinks(r) : \E s \in DOMAIN r.vs :
    /\ ~r.vs[s].deleted /\ r.vs[s].id = r.link[l].vs
    /\ \E i \in DOMAIN r.vs[s].links : r.vs[s].links[i] = l

\* Open interfaces and the rings rg.
Ringed(r, rg) ==
  \A s \in DOMAIN r.vs, k \in IfKind : r.vs[s].ifs[k].open =>
    rg[k][s - 1] = [alive |-> TRUE, gen |-> r.vs[s].ifs[k].ring]

\* While nothing is deleted: ports and links refer to each other.
Ported(r) ==
  /\ \A l \in DOMAIN r.link : ~r.link[l].deleted
  /\ \A p \in Port : \A i \in DOMAIN r.port[p].vlans :
       /\ r.port[p].vlans[i] \in DOMAIN r.link
       /\ r.link[r.port[p].vlans[i]].port = p
  /\ \A l \in DOMAIN r.link : LET conf == r.port[r.link[l].port] IN
       /\ r.link[l].tag # 0 => \E i \in DOMAIN conf.vlans : conf.vlans[i] = l
       /\ r.link[l].tag = 0 => /\ conf.native \in DOMAIN r.link
                               /\ r.link[conf.native].port = r.link[l].port
                               /\ r.link[conf.native].tag = 0

Ribs == {rib} \cup ({new} \ {NoRib})

VswitchInv ==
  /\ TypeOK /\ site \in Site
  /\ \A r \in Ribs :
       /\ Sized(r) /\ Unique(r) /\ Listed(r) /\ Closed(r)
       /\ ~TapOpenFails => Named(r)
       /\ ~site.deletes => Ringed(r, ring)

\* A link goes only to a vswitch and to a port that have room to list it.
VswitchRoom(id) ==
  LinkSlot(rib) # 0 => Len(rib.vs[VswitchLookup(rib, id)].links) < MaxPorts
PortRoom(p, tag) ==
  LinkSlot(rib) # 0 /\ tag # 0 => Len(rib.port[p].vlans) < MaxVlan

LinksFit ==
  [][\A id \in VswitchId, p \in Port, tag \in AllTags \cup {0} :
       VswitchPortSet(id, p, tag) => VswitchRoom(id)]_vars
VlansFit ==
  [][\A id \in VswitchId, p \in Port, tag \in AllTags \cup {0} :
       VswitchPortSet(id, p, tag) => PortRoom(p, tag)]_vars

CompleteInv == \A r \in Ribs : Complete(r)
PortedInv == ~site.deletes => \A r \in Ribs : Ported(r)
=============================================================================
