------------------------------- MODULE Netlink -------------------------------
(***************************************************************************)
(* netlink_thread, and what its messages do to the rib.                    *)
(*                                                                         *)
(* The thread subscribes to the kernel's events, waits for the startup     *)
(* configuration, dumps the kernel's tables over a second socket and then  *)
(* reads the events, those queued during the dump first.  Neighbours go to *)
(* neigh_manager, link and address messages to rib_manager, which stores   *)
(* them with the router interface of the device's name.  The same ring     *)
(* brings rib_manager the commands that create and delete the router       *)
(* interfaces, and creating one may create the device.                     *)
(*                                                                         *)
(* A device has one address of each kind at a time.  Routes and next hops  *)
(* are the subject of Nexthop; vswitches and the rings of the interfaces   *)
(* are in VSwitch, the publication of the rib in RibRcu.  The programs of  *)
(* netlink_hook.c are left out.                                            *)
(***************************************************************************)
EXTENDS NeighReplication

CONSTANTS
  Tap,         \* tap devices
  NameLen,     \* the lengths of their names
  Slot,        \* positions in the vswitch array
  Addr,        \* addresses of the devices, of every kind
  Zero,        \* a zeroed address
  NoName,      \* a zeroed name
  MaxIdx,      \* bound: interface indices the kernel gives out
  InFlight,    \* bound: messages under way when there is news
  Site         \* what is there at the start and what may happen: [key, lladdr,
               \* tap, field, addr, kernel, dev, wait, late, remove,
               \* refuse, reject]

ASSUME SlotAssumption == IsFiniteSet(Slot) /\ Slot = 1 .. Cardinality(Slot)
ASSUME AddrAssumption == Zero \notin Addr /\ NoName \notin Tap
ASSUME NameAssumption == NameLen \in [Tap -> 1 .. 15]
ASSUME BoundAssumption == MaxIdx \in Nat /\ InFlight \in Nat

Kind == {"v4", "v6", "ll"}
Field == Kind \cup {"mac"}
Device == [idx : 1 .. MaxIdx, addr : [Field -> Addr \cup {Zero}]]

ASSUME SiteAssumption ==
  \A c \in Site :
    /\ c.key \subseteq Key /\ c.tap \subseteq Tap /\ c.addr \subseteq Addr
    /\ c.lladdr \in [c.key -> SUBSET (Mac \cup {None})]
    /\ "mac" \in c.field /\ c.field \subseteq Field
    /\ DOMAIN c.kernel \subseteq c.key /\ IsFiniteSet(c.key) /\ IsFiniteSet(c.tap)
    /\ \A k \in DOMAIN c.kernel : c.kernel[k] \in Mac \cup {None}
    /\ DOMAIN c.dev \subseteq c.tap
    /\ \A t \in DOMAIN c.dev : /\ c.dev[t] \in Device /\ c.dev[t].addr["mac"] # Zero
                             /\ c.dev[t].idx <= Cardinality(DOMAIN c.dev)
    /\ \A t, u \in DOMAIN c.dev : c.dev[t].idx = c.dev[u].idx => t = u
    /\ {c.wait, c.late, c.remove, c.refuse, c.reject} \subseteq BOOLEAN
    \* Without the wait the dump was of empty tables.
    /\ c.wait \/ (DOMAIN c.kernel = {} /\ DOMAIN c.dev = {})

VARIABLES
  site,        \* fixed at the start
  kernel,      \* the kernel's neighbours: a mac, None (unresolved), or absent
  dev,         \* the kernel's tap devices
  lastIdx,     \* the last interface index given out
  events,      \* the socket netlink_kernel
  pos,         \* 0: waiting for the startup configuration, then the position
               \* in the dump
  rif,         \* the router_ifs of the published rib, by vswitch slot
  clean,       \* history: interfaces created on a zeroed slot, for a device
               \* whose addresses were still to be announced, and since
               \* then the only ones of their name
  gone         \* history: devices that were removed

kernelVars == <<kernel, dev, lastIdx, gone>>
vars == <<site, kernelVars, events, pos, rif, clean, neighVars>>

\* tap_name is compared as 16 bytes: extent is the end of its nonzero bytes,
\* what remains of a longer name that was overwritten included.
ZeroIf == [tap |-> NoName, extent |-> 0, addr |-> [f \in Field |-> Zero]]

NeighEvent == [of : {"neigh"}, op : {"new", "del"}, key : Key, mac : Mac \cup {None}]
IfEvent == [of : {"if"}, op : {"new", "del"}, idx : 1 .. MaxIdx, field : Field, val : Addr]
AddrMsg == [op : {"addr_add", "addr_del"}, name : Tap \cup {NoName},
            field : Field, val : Addr]
IfMsg == [op : {"if_set"}, slot : Slot, tap : Tap] \cup [op : {"if_no_set"}, tap : Tap]

-----------------------------------------------------------------------------
(* The dump: the requests in the order of netlink_thread, each answered    *)
(* item by item.                                                           *)

DumpOf(fields) ==
  LET taps == SetToSeq(site.tap)
  IN  [i \in DOMAIN taps |-> [tap |-> taps[i], fields |-> fields]]

DumpNeigh ==
  LET keys == SetToSeq(site.key)
  IN  [i \in DOMAIN keys |-> [key |-> keys[i], fields |-> {}]]

Dump == DumpOf({"mac"}) \o DumpOf({"v4"}) \o DumpOf({"v6", "ll"}) \o DumpNeigh

Blocked == -1
Waiting == pos = 0
Dumping == pos \in 1 .. Len(Dump)
InLoop == pos = Len(Dump) + 1

\* The links are dumped first: nothing of the device was dumped before.
NotDumped(t) ==
  pos >= 0 /\ \A i \in 1 .. pos - 1 : Dump[i].fields = {} \/ Dump[i].tap # t

Init ==
  /\ site \in Site
  /\ kernel = site.kernel /\ dev = site.dev
  /\ lastIdx = Cardinality(DOMAIN dev)
  /\ events = <<>> /\ gone = {} /\ clean = {}
  /\ pos = IF site.wait THEN 0 ELSE Len(Dump) + 1
  /\ rif = [s \in Slot |-> ZeroIf]
  /\ NeighInit

-----------------------------------------------------------------------------
(* The kernel.                                                             *)

Room == Len(events) + Len(neighq) + Len(ribq) < InFlight

\* Mutant: netlink_thread subscribes after the dump.
NotifyLate(evs) == events' = IF InLoop THEN events \o evs ELSE events

\* netlink_thread subscribes before it waits.
Notify(evs) == events' = events \o evs

IfEv(op, t, f) ==
  [of |-> "if", op |-> op, idx |-> dev[t].idx, field |-> f, val |-> dev[t].addr[f]]

KernelNeigh(k, m) ==
  /\ Room
  /\ kernel' = [j \in DOMAIN kernel \cup {k} |-> IF j = k THEN m ELSE kernel[j]]
  /\ Notify(<<[of |-> "neigh", op |-> "new", key |-> k, mac |-> m]>>)
  /\ UNCHANGED <<dev, lastIdx, gone>>

KernelNeighGone(k) ==
  /\ Room /\ k \in DOMAIN kernel
  /\ kernel' = [j \in DOMAIN kernel \ {k} |-> kernel[j]]
  /\ Notify(<<[of |-> "neigh", op |-> "del", key |-> k, mac |-> None]>>)
  /\ UNCHANGED <<dev, lastIdx, gone>>

\* An address is configured, or the link-layer address changed.
KernelAddr(t, f, a) ==
  /\ Room /\ t \in DOMAIN dev
  /\ IF f = "mac" THEN dev[t].addr[f] # a ELSE dev[t].addr[f] = Zero
  /\ dev' = [dev EXCEPT ![t].addr[f] = a]
  /\ Notify(<<[IfEv("new", t, f) EXCEPT !.val = a]>>)
  /\ UNCHANGED <<kernel, lastIdx, gone>>

KernelAddrGone(t, f) ==
  /\ Room /\ t \in DOMAIN dev
  /\ f # "mac" /\ dev[t].addr[f] # Zero
  /\ dev' = [dev EXCEPT ![t].addr[f] = Zero]
  /\ Notify(<<IfEv("del", t, f)>>)
  /\ UNCHANGED <<kernel, lastIdx, gone>>

\* A device that leaves a bridge of the kernel is announced with RTM_DELLINK.
KernelUnbridge(t) ==
  /\ Room /\ t \in DOMAIN dev
  /\ Notify(<<IfEv("del", t, "mac")>>)
  /\ UNCHANGED kernelVars

\* The device is removed: its addresses first.  An index is left for the
\* device to be created again.
KernelLinkGone(t) ==
  /\ Room /\ site.remove /\ t \in DOMAIN dev /\ lastIdx < MaxIdx
  /\ LET held == {f \in Kind : dev[t].addr[f] # Zero}
         addrs == SetToSeq(held)
     IN  Notify([i \in DOMAIN addrs |-> IfEv("del", t, addrs[i])]
                \o <<IfEv("del", t, "mac")>>)
  /\ dev' = [u \in DOMAIN dev \ {t} |-> dev[u]]
  /\ gone' = gone \cup {t}
  /\ UNCHANGED <<kernel, lastIdx>>

Kernel ==
  /\ \/ \E k \in site.key :
          KernelNeighGone(k) \/ \E m \in site.lladdr[k] : KernelNeigh(k, m)
     \/ \E t \in site.tap : \/ KernelUnbridge(t) \/ KernelLinkGone(t)
                            \/ \E f \in site.field : \/ KernelAddrGone(t, f)
                                                     \/ \E a \in site.addr : KernelAddr(t, f, a)
  /\ UNCHANGED <<site, pos, rif, clean, neighVars>>

-----------------------------------------------------------------------------
(* netlink_thread.                                                         *)

\* netlink_read_nlmsg_neigh: a new neighbour without a link-layer address is
\* not passed on; of a deleted one only the address is used.
NeighMsgs(op, k, m) ==
  IF op = "del" THEN <<[op |-> "del", data |-> [key |-> k, mac |-> None]]>>
  ELSE IF m = None THEN <<>>
  ELSE <<[op |-> "add", data |-> [key |-> k, mac |-> m]]>>

\* if_indextoname, called when the message is read: the name stays zeroed if
\* the device is gone by then.
NameOf(idx) ==
  IF \E t \in DOMAIN dev : dev[t].idx = idx
  THEN CHOOSE t \in DOMAIN dev : dev[t].idx = idx ELSE NoName

AddrOp(op) == IF op = "new" THEN "addr_add" ELSE "addr_del"

\* netlink_read_nlmsg_link: RTM_NEWLINK and RTM_DELLINK.
LinkMsg(op, idx, a) ==
  [op |-> AddrOp(op), name |-> NameOf(idx), field |-> "mac", val |-> a]

\* netlink_read_nlmsg_addr: RTM_NEWADDR and RTM_DELADDR; the scope tells the
\* link-local address from the others.
IpMsg(op, idx, f, a) ==
  [op |-> AddrOp(op), name |-> NameOf(idx), field |-> f, val |-> a]

IfMsgOf(op, idx, f, a) ==
  IF f = "mac" THEN LinkMsg(op, idx, a) ELSE IpMsg(op, idx, f, a)

\* internal_msg_send_to for one message after the other: what no longer fits
\* is lost.
Send(q, size, msgs) == q \o SubSeq(msgs, 1, Min({Len(msgs), size - Len(q)}))

\* startup_config_completed
StartupDone ==
  /\ Waiting
  /\ pos' = 1
  /\ UNCHANGED <<events, neighq, ribq>>

\* One item of the answer to the current request, as netlink_read handles it.
DumpItem ==
  /\ Dumping /\ Room
  /\ pos' = pos + 1
  /\ LET item == Dump[pos]
     IN  IF item.fields = {}
         THEN /\ neighq' = IF item.key \in DOMAIN kernel
                           THEN Send(neighq, NeighRing, NeighMsgs("new", item.key, kernel[item.key]))
                           ELSE neighq
              /\ UNCHANGED ribq
         ELSE /\ ribq' = IF item.tap \in DOMAIN dev
                         THEN LET d == dev[item.tap]
                                  fs == SetToSeq({f \in item.fields : d.addr[f] # Zero})
                              IN  Send(ribq, RibRing,
                                       [i \in DOMAIN fs |->
                                          IfMsgOf("new", d.idx, fs[i], d.addr[fs[i]])])
                         ELSE ribq
              /\ UNCHANGED neighq
  /\ UNCHANGED events

\* A request answered with NLMSG_ERROR is never done: netlink_read goes back
\* to recvmsg, which blocks.
DumpRefused ==
  /\ Dumping /\ site.refuse
  /\ pos' = Blocked
  /\ UNCHANGED <<events, neighq, ribq>>

\* The loop: netlink_read of netlink_kernel; netlink_cmd has nothing left.
ReadEvent ==
  /\ InLoop /\ events # <<>>
  /\ LET ev == Head(events)
     IN  IF ev.of = "neigh"
         THEN neighq' = Send(neighq, NeighRing, NeighMsgs(ev.op, ev.key, ev.mac))
              /\ UNCHANGED ribq
         ELSE ribq' = Enqueue(ribq, RibRing, IfMsgOf(ev.op, ev.idx, ev.field, ev.val))
              /\ UNCHANGED neighq
  /\ events' = Tail(events)
  /\ UNCHANGED pos

NetlinkThread ==
  /\ DumpItem \/ DumpRefused \/ ReadEvent
  /\ UNCHANGED <<site, kernelVars, rif, clean, master, rib, crashed>>

-----------------------------------------------------------------------------
(* Commands of the startup configuration and of the shells.                *)

Given(m) ==
  /\ Room /\ (Waiting \/ site.late)
  /\ ribq' = Enqueue(ribq, RibRing, m)
  /\ UNCHANGED <<events, pos, neighq>>

Command ==
  /\ \/ \E s \in Slot, t \in site.tap : Given([op |-> "if_set", slot |-> s, tap |-> t])
     \/ \E t \in site.tap : Given([op |-> "if_no_set", tap |-> t])
     \/ StartupDone
  /\ UNCHANGED <<site, kernelVars, rif, clean, master, rib, crashed>>

-----------------------------------------------------------------------------
(* rib_manager: the messages that are not about neighbours.                *)

\* The handlers compare all 16 bytes of tap_name.
Named(s, name) ==
  /\ rif[s].tap = name
  /\ rif[s].extent = IF name = NoName THEN 0 ELSE NameLen[name]

FirstSlot(S) == {s \in S : \A r \in S : s <= r}

\* MAC_ADDR_ADD and IP_ADDR_ADD: the first interface of that name.
AddrAdd(m) ==
  LET hit == FirstSlot({s \in Slot : Named(s, m.name)})
  IN  [s \in Slot |-> IF s \in hit THEN [rif[s] EXCEPT !.addr[m.field] = m.val] ELSE rif[s]]

\* Mutant: MAC_ADDR_DEL tests that the addresses are equal.
AddrDelEqual(m) ==
  LET hit == FirstSlot({s \in Slot : Named(s, m.name)})
  IN  [s \in Slot |-> IF s \in hit /\ rif[s].addr[m.field] = m.val
                      THEN [rif[s] EXCEPT !.addr[m.field] = Zero] ELSE rif[s]]

\* IP_ADDR_DEL clears the address of the first interface of that name if it
\* is equal; MAC_ADDR_DEL clears that of the first one whose is different.
AddrDel(m) ==
  LET named == {s \in Slot : Named(s, m.name)}
      hit == IF m.field = "mac"
             THEN FirstSlot({s \in named : rif[s].addr["mac"] # m.val})
             ELSE {s \in FirstSlot(named) : rif[s].addr[m.field] = m.val}
  IN  [s \in Slot |-> IF s \in hit THEN [rif[s] EXCEPT !.addr[m.field] = Zero] ELSE rif[s]]

\* ROUTER_IF_SET writes the name over the one that is there.
Renamed(r, t) ==
  [tap |-> t,
   extent |-> IF r.extent > NameLen[t] + 1 THEN r.extent ELSE NameLen[t],
   addr |-> r.addr]

\* tap_open creates the device if it does not exist.
TapOpen(t, a) ==
  /\ lastIdx < MaxIdx
  /\ lastIdx' = lastIdx + 1
  /\ dev' = [u \in DOMAIN dev \cup {t} |->
               IF u = t THEN [idx |-> lastIdx', addr |-> [f \in Field |-> IF f = "mac" THEN a ELSE Zero]]
               ELSE dev[u]]
  /\ Notify(<<[of |-> "if", op |-> "new", idx |-> lastIdx', field |-> "mac", val |-> a]>>)
  /\ UNCHANGED <<kernel, gone>>

\* ROUTER_IF_SET.  When rib_check fails nothing is published, but the device
\* has been created.
IfSet(s, t, pass) ==
  /\ pass \/ site.reject
  /\ LET same == {r \in Slot : rif[r].tap = t}
     IN  clean' = IF ~pass THEN clean
                  ELSE IF rif[s] = ZeroIf /\ same = {} /\ (t \notin DOMAIN dev \/ NotDumped(t))
                  THEN clean \cup {s} ELSE clean \ (same \cup {s})
  /\ rif' = IF pass THEN [rif EXCEPT ![s] = Renamed(@, t)] ELSE rif
  /\ IF t \in DOMAIN dev THEN UNCHANGED <<kernelVars, events>>
     ELSE \E a \in site.addr : TapOpen(t, a)

\* ROUTER_IF_NO_SET; the device is persistent and stays.
IfNoSet(t) ==
  /\ rif' = [s \in Slot |-> IF rif[s].tap = t THEN ZeroIf ELSE rif[s]]
  /\ clean' = {s \in clean : rif[s].tap # t}
  /\ UNCHANGED <<kernelVars, events>>

IfMessage ==
  LET m == Head(ribq)
  IN  /\ ~crashed /\ ribq # <<>> /\ ~IsDelta(m)
      /\ CASE m.op = "if_set" -> \E pass \in BOOLEAN : IfSet(m.slot, m.tap, pass)
           [] m.op = "if_no_set" -> IfNoSet(m.tap)
           [] m.op = "addr_add" -> rif' = AddrAdd(m) /\ UNCHANGED <<clean, kernelVars, events>>
           [] m.op = "addr_del" -> rif' = AddrDel(m) /\ UNCHANGED <<clean, kernelVars, events>>
      /\ ribq' = Tail(ribq)
      /\ UNCHANGED <<site, pos, neighq, master, rib, crashed>>

NeighStep ==
  /\ NeighManager \/ NeighMessage
  /\ UNCHANGED <<site, kernelVars, events, pos, rif, clean>>

-----------------------------------------------------------------------------
Next == Kernel \/ NetlinkThread \/ Command \/ IfMessage \/ NeighStep

\* The three threads are endless loops.
Spec ==
  /\ Init /\ [][Next]_vars
  /\ WF_vars(NetlinkThread)
  /\ WF_vars(IfMessage \/ (NeighMessage /\ NeighStep))
  /\ WF_vars(NeighManager /\ NeighStep)

-----------------------------------------------------------------------------
(* Properties.                                                             *)

TypeOK ==
  /\ DOMAIN kernel \subseteq Key
  /\ \A k \in DOMAIN kernel : kernel[k] \in Mac \cup {None}
  /\ DOMAIN dev \subseteq Tap /\ \A t \in DOMAIN dev : dev[t] \in Device
  /\ events \in Seq(NeighEvent \cup IfEvent)
  /\ pos \in Blocked .. Len(Dump) + 1
  /\ \A s \in Slot : /\ rif[s].tap \in Tap \cup {NoName} /\ rif[s].extent \in 0 .. 15
                     /\ rif[s].addr \in [Field -> Addr \cup {Zero}]
  /\ clean \subseteq Slot /\ gone \subseteq Tap
  /\ \A i \in DOMAIN ribq : IsDelta(ribq[i]) \/ ribq[i] \in AddrMsg \cup IfMsg
  /\ NeighTypeOK

Settled == InLoop /\ events = <<>> /\ neighq = <<>> /\ ribq = <<>>

\* With nothing under way the workers resolve the kernel's neighbours, and
\* no longer those the kernel has dropped: also those of before the start,
\* and those that changed between the dump's request and the first event.
KernelResolved ==
  /\ TypeOK
  /\ Settled =>
       \A k \in Key :
         /\ k \notin DOMAIN kernel => Resolve(k) = None
         /\ k \in DOMAIN kernel /\ kernel[k] # None => Resolve(k) = kernel[k]

\* msg_queue_neigh has room for every message of netlink_thread, and the
\* master table for every new entry.
NeighRoom ==
  [][/\ NetlinkThread => Len(neighq) < NeighRing
     /\ NeighManager /\ Head(neighq).op = "add" => master.num < MaxEntry]_vars

\* An interface of a device that is there and was never removed.
Followed(s) == s \in clean /\ rif[s].tap \in DOMAIN dev \ gone

\* With nothing under way a router interface has the addresses of its device,
\* whether they were dumped, announced during the dump or later, and however
\* often they changed; an RTM_DELLINK of a device that is still there does
\* not take the link-layer address away.
AddressesFollow ==
  Settled => \A s \in Slot : Followed(s) => rif[s].addr = dev[rif[s].tap].addr

\* A neighbour that keeps its link-layer address is resolved to it in the
\* end and from then on, whatever happens to the other entries.
StableResolved ==
  \A k \in Key, m \in Mac :
    <>[](InLoop /\ k \in DOMAIN kernel /\ kernel[k] = m) => <>[](Resolve(k) = m)

\* msg_queue_rib has room for what netlink_thread sends in one step.
AddrRoom == [][NetlinkThread => Len(ribq) + 2 <= RibRing]_vars

\* An address that stays is in the end that of the interface, whatever other
\* addresses and neighbours come and go.
StableAddress ==
  \A s \in Slot, f \in Field, a \in Addr :
    <>[](InLoop /\ Followed(s) /\ dev[rif[s].tap].addr[f] = a) => <>[](rif[s].addr[f] = a)
=============================================================================
