# A TLA+ verification of sdplane

sdplane is a DPDK based software data plane (switch, router, repeater) with a
command shell. This directory holds TLA+ models of its control logic, the TLC
configurations that check them on small instances, and TLAPS proofs of the
properties that matter most. Every definition is translated from the code in
`src/sdplane/` and `src/lib/sdplane/`; `PROJECT.json` maps each one to the lines it models, lists the
runs, the findings, the hazards and the theorems.

## 1. Inventory

### Threads

| thread | code | runs on | does |
|---|---|---|---|
| forwarding workers | `router.c`, `l2_switch.c`, `vlan_switch.c`, `l2_repeater.c`, `enhanced_repeater.c`, `srv6_router.c` | an lcore each | busy loop: take the current rib, poll rx queues, forward, report a quiescent state |
| tap handlers | `tap_handler.c`, `l3_tap_handler.c` | an lcore | move packets between the workers' rings and Linux tap devices |
| rib_manager | `rib_manager.c` | an lthread or an lcore | the only writer of the rib: messages in, new ribs out |
| neigh_manager | `neigh_manager.c` | an lthread | master of the neighbour tables, replicated to the rib |
| netlink_thread | `netlink_thread.c` | an lthread or an lcore | turns kernel routes, next hops, neighbours and links into messages |
| shells | `vty_shell.c`, `console_shell.c`, `startup_config.c` | lthreads | run commands, which send messages or read the rib |
| stat_collector | `stat_collector.c` | an lthread | samples port and loop counters |

All lthreads share one operating system thread, the *lthread core*: they run in
turn and whoever blocks, blocks them all.

### Components, their state and what makes them correct

| component | state | operations | must hold | hard because |
|---|---|---|---|---|
| rib publication | `rcu_global_ptr_rib`, the heap, the message ring, the workers' pointers, the ports' stop flags | one message: copy, change, check, publish, wait, free; a worker's loop | nobody reads a freed rib; no two lcores poll one rx queue; nothing leaks; the manager is never blocked for ever | QSBR: the read section ends only at a quiescent state; the zero rib separates two assignments; several early returns |
| neighbour tables | master array, replica in the rib, two rings | add, update and delete by address; deltas by position | the replica equals the master once the rings are empty; workers resolve what the kernel resolved | deltas name positions, rings lose messages |
| forwarding database | open-addressing table in the published rib | learn, look up, age in place | a host is found where it was learned last; aged entries are gone | deletion without tombstones while others search |
| virtual switches | three arrays that refer to each other by index; global rings of the tap interfaces | create and delete vswitches, links and interfaces | a frame reaches the vswitch it is configured for, and only links of it; rings in use are alive | reused slots, cross references, ids used as indices |
| routes | binary radix tree, multi-way FIB | add, delete, rebuild | the FIB gives the longest matching prefix | leaves are expanded over ranges of children, pushed and deleted |
| next hops | groups, a shared address pool with counts, a hash of kernel ids | add and delete objects, groups, routes | counts are exact; a route keeps its next hop | sharing, error paths that must undo |
| packet path | the buffer pool, transmit buffers, tap rings, receive queues | receive, copy, tag, flood, switch, route, flush, hand to and from the taps | every buffer returns; frames stay in their vswitch and leave each link once; hosts behind a route are found | many copies per frame, each of which may fail; learning goes through other threads |
| netlink | the kernel's tables, the event socket, the position in the dump, the router interfaces' addresses | dump, events, `set`/`no set router-if`, address messages | the rib has the kernel's neighbours and addresses, in the end and for good | two sockets, names looked up late, a name field that is overwritten |
| shells | the client table, each shell's line, cursor, history, pager and read section | accept, read keys, edit, execute, sleep, page, hang up, startup configuration | the screen shows the line; the history is what was executed; a failing configuration stops; clients are served | lthreads share one core and one `rib_tlocal`; differences only are sent to the terminal |
| worker control | `lcore_workers`, `force_stop`, the thread registry, `msg_queue_rib` | set, start, stop, restart; vty shells come and go | commands end; one manager; the registry shows the right counters | blocking waits on the lthread core against grace periods |

Components talk through the rib (read under QSBR), through the bounded rings
`msg_queue_rib` and `msg_queue_neigh` (a message that does not fit is freed and
lost), and through packet rings between workers and tap handlers. The remaining
components are listed in `PROJECT.json`, and in section 6, with the reason why
they are not modelled.

## 2. Modules

| module | models | composition |
|---|---|---|
| `RibRcu` | `rib_manager_process_message`, `rib_create`, `rib_replace`, `rib_check`, the workers' loop, `set thread` | implements `RibSnapshot` |
| `RibSnapshot` | abstract: one register of snapshots, and readers that see a snapshot that was current since their last quiescent state | |
| `RibRcu_proofs` | proofs: the protocol's safety, its FIBs and the refinement | extends `RibRcu` |
| `NeighReplication` | `neigh_manager.c`, the rib's delta handlers | a component: no specification of its own |
| `Netlink`, `Netlink_proofs` | `netlink_thread.c`, router interface and address messages of `rib_manager.c`; the kernel is external | extends `NeighReplication`: three threads, two rings and the event socket |
| `Forwarding` | `router.c`, `srv6_router.c`, `l2_switch.c`, `vlan_switch.c`, `enhanced_repeater.c`, `l2_repeater.c`, `net_subr.h`, `srv6.h`: what is sent where for one frame, as operators | |
| `PacketPath`, `PacketPath_proofs` | receive, transmit and flush of the workers, the tap handlers, `dhcp_server`'s reading, the managers' learning | extends `Forwarding`: workers, tap handlers, managers, NIC and hosts |
| `LineEditor` | `shell.c`, `shell_keyfunc.c`, `shell_telnet.c`, history, completion and command lookup, as operators on a shell and its terminal | |
| `VtyShell` | `vty_server.c`, `vty_shell.c`, `startup_config.c`, execution and paging of `command_shell.c` | extends `LineEditor`: the lthreads of one core, clients, the pager's process and the rib manager |
| `Fdb`, `Fdb_proofs` | the FDB operations of `rib_manager.c`, learning of the tap handler | |
| `VSwitch`, `VSwitch_proofs` | vswitch, link, port and tap interface handlers, the lookups of `router.c` | |
| `RouteTable` | `radix.c`, `fib.c`, the route handlers | |
| `Nexthop`, `Nexthop_proofs` | `nexthop.c`, next-hop and route handlers of `rib_manager.c` | |
| `Workers`, `Workers_proofs` | `dpdk_lcore_cmd.c`, `thread_info.c`, start and end of managers and shells | |
| `Induction_proofs` | lemmas: induction over naturals and finite sets, recursive functions, sums, concatenation | used by the other proofs |
| `MC*` | constants, symmetry and situations for the configurations | |

### How state and actions correspond to the code

* **RibRcu.** `heap` maps addresses to ribs, reduced to version, queue
  assignment, FIB, stop flag and liveness; `gptr` is `rcu_global_ptr_rib`.
  `mpc` is the manager's position in `rib_manager_process_message`: the
  places where another thread can see a difference are separate steps
  (`BeginMessage`, `CheckFails`/`CheckPasses`/`QconfPasses`, `Assign`,
  `SyncStart`, `Reclaim`), everything between them is one. `Dereference`,
  `BeginPoll`, `SkipStopped`, `EndPoll`, `Quiescent` are one turn of
  `router()`. Message types are classed by the path they take through the
  handler; what they do to the copy is the subject of the other modules. A
  PORT_GET has two copies: `mspare` is the one `rib_manager_process_message` makes
  of every rib, `mnew` the one its handler makes again and publishes; the first
  is freed at the end of the message. A QCONF
  that meets no rib at all follows a NULL pointer in `set_stop_flag`
  (`QconfCrash`).
* **NeighReplication, Netlink.** `master` and `rib` are the two neighbour arrays
  with `num_entries`; rings are sequences bounded by `NeighRing` and `RibRing`;
  sending to a full ring loses the message. A negative `memmove` length is
  `crashed`. `kernel` and `dev` are the kernel's neighbours and tap devices,
  `events` the subscribed socket, `pos` where `netlink_thread` is: waiting for
  the startup configuration, at an item of the dump, or in its loop. Each item
  of a dump is read with the kernel's state of that moment. An event carries
  the interface index, and `NameOf` looks the name up when the event is read.
  `rif` are the router interfaces of the published rib; of `tap_name`, a field
  of 16 bytes, the model keeps the name and how far bytes of an earlier name
  reach. `clean` and `gone` are histories.
* **Fdb.** `aging` walks the published table slot by slot, so that lookups
  happen within a pass. `learned` is a history variable: what was last learned
  of each host.
* **VSwitch.** Arrays are sequences, slots are marked deleted and reused as in
  the code; rings carry a generation, so that a stale pointer is
  recognisable. A port's native field is the zeroed one, link 0 (1 in the
  model's arrays), until an untagged link is set.
* **RouteTable.** The radix tree is a set of paths, the FIB nested records; the
  reference is the longest prefix among `routes`.
* **Nexthop.** Group slots, pool slots with counts, and the hash table; a
  failing allocation, a full pool or a full table takes the error path of the
  code. A route's kernel id and its addresses are independent, as netlink's
  attributes are; `bare` is a history: an unknown id came without addresses.
* **Forwarding, PacketPath.** An operator per worker program gives the
  *emissions* of a frame in the code's order: copies for a link, a port or a
  ring, messages, allocations. `PacketPath` carries them out on the pool, the
  transmit buffers and the rings, where each may fail. A frame keeps its
  addresses, tag, kind, TTL (0: whatever fails verification) and segment list,
  and as a history the vswitch it entered. `lost` counts the buffers that the
  code drops without freeing; `fault` is a NULL pointer that is followed.
* **LineEditor, VtyShell.** A shell is a record; the terminal is a row of cells
  and a cursor that knows characters, backspaces and line feeds only, so that
  what the editor believes and what the user sees are different state. Keys
  are names of bytes. `run` is the lthread that has the core, and the steps are
  what happens between two places where it can be given away. `Effect` says
  of each command of the small command set whether it succeeds, fails,
  sleeps, exits or turns the pager on. Command lookup, completion and
  history are the algorithms of `command.c` and `command_shell.c`. `file` says
  what each descriptor number of the process is, a client's socket or the pipe
  to a pager, and a shell keeps numbers: closing a number again closes whatever
  has it by then. The child of a paged command shows little (`short`), waits for
  its reader (`long`), or is a copy of sdplane whose `execlp` failed (`copy`);
  `twin` is what such copies have inherited and read as well.
* **Workers.** `todo` holds the operations left of the command that occupies
  the lthread core. `threads` is the registry; the manager as an lthread is registered
  at every command that starts it, and never removed.

## 3. Runs

A run that is expected to *pass* checks its properties exhaustively on the
instance in its cfg. A run that is expected to be *violated* states what a
comment or document of the repository says and shows the code doing otherwise;
`PROJECT.json` quotes the line.

| run | checks | instance, and what it shows |
|---|---|---|
| `rib_rcu_qconf` | RibInv, NoUseAfterFree, NoSharedRxQueue, FibMatchesMaster, SnapshotSpec | two workers, two queues of one port, three addresses (published, copy or zero rib, awaiting reclamation: the most that are ever live), four versions, so that a queue can be given, joined by another and moved |
| `rib_rcu_paths` | NothingLeaked, StopFlagCleared, BatchProcessed | every path through the handler, failing checks and allocations, batches of two; each batch ends |
| `rib_rcu_portget` | FibMatchesMaster *violated* | PORT_GET publishes empty FIBs |
| `netlink` | MasterSorted, ReplicaFollows, KernelResolved, AddressesFollow, StableResolved, StableAddress | five situations: three neighbours that come, change and go in any order; a dump that meets changing neighbours, or is refused; the startup configuration sets an interface of an existing device; interfaces are set, renamed and deleted at any time, with `rib_check` rejecting; devices are removed under way |
| `fdb` | TypeOK, FreshestFound, ExpiredForgotten | three hosts, two colliding at the last slot (wrap-around), a table of three |
| `vswitch` | VswitchFound, FloodIsolated, NoNullVswitch, Delivered, LinksKept | two vswitches, links and interfaces deleted and recreated in any order, so that every slot is reused by everybody, while links in use stay the links they are and are still found by receivers; and without deletions two ports with tagged, retagged and untagged links, on which frames are delivered as configured |
| `packet_path` | BuffersAccounted, Isolated, OncePerLink, Returned, Resolved | seven scenes, one or more per worker program: two ports, one of them with tagged links only, two vswitches, a pool that runs dry, rings of two, ports that are stopped and restarted; in the scene `resolve` a host behind a route is found although its entry ages |
| `route_table` | FibIsLongestPrefix | four-bit addresses in two levels, up to four routes of nested and neighbouring prefixes that end within and at the end of a level |
| `nexthop` | InfoAccounted, InfoKept, HashedIsGroup | three groups, a pool of two: both fill up; failing allocations; routes with a kernel id and no addresses, after which `HashedIsGroup` says nothing (section 5) |
| `nexthop_shared` | RouteNexthopKept *violated* | a shared group is freed by the first route that goes |
| `workers` | CounterShown, RestartRuns, OneManager, CommandEnds | three situations: workers on two lcores and a vty client; the manager on an lcore or as an lthread, beside a worker or netlink_thread: two kinds of commands never end (`Stuck`), all others do |
| `shell` | ScreenShowsLine, HistoryKept, StartupStops, RibHeld, Served | seventeen situations: every editing key, lines executed and recalled, telnet negotiation between and inside keys, pasted commands of two clients with ribs replaced under them, three clients for two slots that come and hang up, pagers, clients that come while a pager runs and get the number of its pipe, and ten startup configurations read in pieces, three with commands behind `exit` and one with a pager |

The type invariants are conjuncts of RibInv, KernelResolved, VswitchFound,
BuffersAccounted, FibIsLongestPrefix, InfoAccounted and CounterShown; in `fdb` it is
a property of its own, because it is proved as one.

### Bounds

Bounds are CONSTANTS named in the modules: `MaxVer` (ribs per behaviour),
`InFlight` (messages under way when the kernel has news), `MaxIdx` (devices
created), `MaxGen` (rings per slot), `MaxRoutes`, `RxSize`, and of a situation
`max` (frames, port stops, aged entries), `sends` (inputs of clients) and `ribs`.
The others (`RingSize`, `Size`, `MaxEntry`, `Groups`, ...) are the code's own limits, made small so that they are reached. Two workers are
enough for the publication protocol, because a grace period treats each
separately and the proofs cover the rest; two colliding hosts and one other fill
the FDB; two vswitches in two slots exchange their slots; `K` bits per level with two
levels give every case of `fib.c` (leaf above, below and across a level).
A line of up to four inputs, in an array that begins with two characters, meets
growth, deletion at every position and every pair of keys; a history of three
wraps around; a read buffer of five ends within lines. Two frames are enough
to fill every ring and transmit buffer of two, and a pool of three runs dry in
the middle of a flood.
`MallocMayFail`, `EarlyConfig`, `TapOpenFails`, `Deletions`,
`MayStopMain` and the fields of a `Site` or `Scene` say what the environment does; where a run
restricts it, section 5 says what happens without the restriction.

### Symmetry

Addresses of ribs, FDB ports and the two colliding hosts, next-hop addresses,
next-hop ids of the kernel and prefixes: the code copies them and
compares them for equality only. Runs of liveness properties use no symmetry;
`SnapshotSpec` and `ExpiredForgotten` are temporal formulas but safety
properties (no fairness), for which it is sound.

### Fairness

* `RibRcu!FairSpec`: weak fairness of the manager's steps and of each worker's
  loop. The workers are busy loops on dedicated lcores and `rib_manager` is
  polled by the lthread scheduler; a worker's loop always gets to
  `urcu_qsbr_quiescent_state`, and a worker that stops unregisters. Senders are
  not fair.
* `Netlink!Spec`: weak fairness of `netlink_thread`, of `neigh_manager` and of
  `rib_manager`'s messages: three polling loops. The kernel, the commands and
  the end of the startup configuration are not fair, and a refused dump blocks.
* `PacketPath!Spec`: weak fairness of each worker's receiving from a port and
  taking from a ring, of its flush, of the tap handlers and managers, and of the
  restart of a stopped port: all of them are polling loops. For `Resolved` the
  host repeats its packets and its peer answers and speaks (strong fairness:
  the queue they use may be full now and then); this is what hosts do, not
  sdplane, and `Resolved` says so.
* `VtyShell!Spec`: the lthread scheduler gives every lthread that is ready its
  turn (strong fairness of the server, of the startup configuration and of each
  shell, as the core is taken by others in between), the lthread with the core
  gets to its next yield, because its input buffer is finite (weak), and a pager
  that has nothing to wait for exits (weak; a copy of sdplane in its place does
  not). An lthread that waits for a pager whose input stays readable, because
  its client is gone or it is the startup configuration, does not yield; `Served`
  excepts that state and the exit after a failed configuration (`Lost`), and the
  slot of a shell whose socket was closed under it (`CutOff`).
* `Workers!Spec`: weak fairness of the running command, of each worker's entry
  to, turns of and exit from its loop, and of the end of a grace period all readers
  have passed. Commands and clients are not fair.

## 4. Proofs

Every theorem holds for all values of the constants that satisfy the named
ASSUMEs of the modules (TLC evaluates these in the runs); a table gives the
hypotheses beyond `Spec`.

### The publication protocol (`RibRcu_proofs`)

For every set of lcores, ports, queues, routes and addresses, every ring and
burst size and every bound of versions:

| theorem | statement |
|---|---|
| `ProtocolHolds` | `Spec => []Protocol` |
| `TypeCorrect` | `Spec => []TypeOK` |
| `UseAfterFreeFreedom` | `Spec => []NoUseAfterFree` |
| `RxQueueExclusion` | `~MallocMayFail => (Spec => []NoSharedRxQueue)` |
| `LeakFreedom` | `Spec => []NothingLeaked` |
| `StopFlagsCleared` | `Spec => []StopFlagCleared` |
| `InvHolds` | `Spec => []RibInv` |
| `FibFollowsMaster` | no `port_get` `=> (Spec => []FibMatchesMaster)` |
| `ImplementsSnapshots` | `~MallocMayFail => (Spec => SnapshotSpec)` |

None of the properties is inductive. The strengthening `Protocol` is the
conjunction of named parts:

* `Phase`: what the manager's program position says about its variables;
* `Owned`: the allocated addresses are the published rib, the manager's copies
  and the rib awaiting reclamation, all different;
* `StopFlags`: only the published rib can be marked, and only while checked;
* `Readers`: a worker inside a read section holds the published rib, or one
  the current grace period still waits for *because of this worker*;
* `Polling`: a worker polls a queue its own rib assigns to it;
* `Queues` (without allocation failure): every rib with queues gives each queue
  to one lcore, and of the published and the replaced rib one is the zero rib
  whenever their assignments differ.

Use-after-free freedom is `Readers` at the step that frees; exclusion of the rx
queues combines `Readers`, `Polling` and `Queues`: two workers that poll hold
either the same rib, or two ribs with the same assignment. Each action has its
own preservation lemma.

`RibInv` adds to `Protocol` which ribs have contents and what FIB each carries at
each position of the manager. The hypotheses are the code's own exceptions:
PORT_GET publishes before the FIBs are built (the run `rib_rcu_portget` shows
the violation), and without memory for the zero rib the assignment changes in
one step (section 5). The refinement maps the published rib's contents to the
register and a worker's rib to the snapshot it holds; a publication is a step
of the register, a dereference takes a snapshot, a quiescent state releases it,
every other action is a stutter. The abstract register changes the assignment
only when nobody holds a snapshot with another one, so the refinement needs
`Queues` as well as `Readers`.

### Worker control (`Workers_proofs`)

| theorem | statement |
|---|---|
| `SingleManager` | `Spec => []OneManager` |
| `CountersShown` | `Spec => []CounterShown` |
| `RestartsRun` | `Spec => RestartRuns` (an action property) |

The inductive invariant `WorkersInv` relates the running functions, the entries
of the thread registry, their counters and what is left of the current command:
a worker's function and lcore have one entry in the registry, from the launch
on, which shows its counter while it is in its loop (`Entries`); the start of a
restart directly follows the stop of the same lcore, which then runs nothing
(`Restarts`); a manager in its loop has made the ring, whose name keeps a second
one out (`Managers`). The lthread core is excepted from the uniqueness of entries: a
manager there has one for every command that started it.

### Virtual switches (`VSwitch_proofs`)

For any number of vswitches, ports, links, interfaces, VLANs and slots:

| theorem | statement |
|---|---|
| `InvHolds` | `Spec => []VswitchInv` |
| `VswitchesFound` | `Spec => []VswitchFound` |
| `LinksStay` | `~EarlyConfig => (Spec => LinksKept)` (an action property) |
| `NoNullDereference` | `~TapOpenFails => (Spec => []NoNullVswitch)` |
| `FloodStaysInside` | `Spec => []FloodInside` |
| `FloodIsolation` | `Spec /\ LinksFit => []FloodIsolated` |
| `DeliveredAsConfigured` | `~EarlyConfig => (Spec /\ VlansFit => []Delivered)` |

`VswitchInv` says of every rib, published or under work, how the three arrays
refer to each other (`Unique`, `Listed`, `Closed`, `Named`, `Ringed`): ids are
unique, a vswitch lists links of its own, each once, and nothing that is deleted
is listed. `FloodInside` (soundness of flooding: no foreign, deleted
or repeated link) follows from it alone. That no link is *missed* needs that the
list never overflowed: `LinksFit` says that `vswitch_link_new` finds room. The
code's array holds `MAX_VSWITCH_PORTS` (16) links while up to `MAX_VSWITCH_LINK` (32) exist, so
this is a condition on the configuration and not a fact; the same for
`VlansFit` and `MAX_VLAN_PER_PORT` (8). `LinksKept` has this exception built in: a
new tagged link is found if its port's array had room. It compares a published
rib with its successor, which is under work before it is published; `KeptInv` says
that the rib about to be published keeps what it should, and `Holds` follows that through
the handlers, which delete several links one by one: the links still in use are
unchanged and their ports still lead to them. `EarlyConfig` (links before the first
PORT_STATUS) and a `tap_open` that fails are exceptions described in section 5. The
handlers search and rewrite sequences, some with folds; each has a lemma about
what its recursive definition computes.

### Neighbour tables and interface addresses (`Netlink_proofs`)

For tables, rings, names and address sets of any size:

| theorem | statement |
|---|---|
| `InvHolds` | `Spec => []NetlinkInv` |
| `TypesHold` | `Spec => []TypeOK` |
| `MasterStaysSorted` | `Spec => []MasterSorted` |
| `ReplicaFollowsMaster` | `Spec /\ DeltasSent => []ReplicaFollows` |
| `KernelIsResolved` | `Spec /\ DeltasSent /\ NeighRoom => []KernelResolved` |
| `AddressesAreFollowed` | `Spec /\ AddrRoom => []AddressesFollow` |

`LookupFacts` proves the binary search right on a sorted table: `Searching` says
that the address can only be between `left` and `right` and that the interval
shrinks with every turn, so that `num` turns suffice. With it, `AddFollows` and
`DeleteFollows` show that a change of the master keeps the order, and that its delta
turns *every* table with the master's old entries into one with its new entries
(`Follows`), whatever is behind the end of the array. `Replica` is the
inductive part about the rings: there is a sequence of tables (`Trace`) that starts
at the rib's table, is changed by each delta under way and by no other message,
never meets a negative `memmove` length and ends with the master's entries. A message
taken off the ring removes the first table, one that is sent adds a last.
`DeltasSent` (room in `msg_queue_rib` whenever `neigh_manager` sends) is needed: a lost
delta makes the tables differ for good (section 5).

`KernelIsResolved` puts the dump and the events on top of that. For each address
`AllTold` says where the kernel's present state of it is: in the last event about
it; if there is no such event, in an item of the dump that is still to be read (and
then nothing older is queued or in the table), in the last message to
`neigh_manager` about it, or in the master table. It holds although dump and
events use two sockets, because an item is read with the kernel's state of that
moment, and a change after the subscription leaves an event behind. When nothing is
under way only the master table is left, and `ReplicaFollowsMaster` takes it to
the rib. `NeighRoom` is needed for the same reason as `DeltasSent`: neither
`netlink_thread` nor `neigh_manager` repeats what did not fit.

`AddressesAreFollowed` is the same question for the addresses of router interfaces,
where a deletion compares the address it takes away, so the last message alone
does not decide. `AddrInv` therefore follows the value: `Leads(q, x, y, ...)` says that
the messages of `q`, applied in order to `x`, give `y`, and `FlowOK` that what is queued
for `rib_manager`, and then the dump's item or the events, lead from the interface's
address to the device's. The other parts make this inductive: device indices are
unique and events name none that was not given out (`DevicesOK`); messages name
devices of which something was dumped (`RibqOK`); a followed interface is the only one
of its name (`IfsOK`); and until the loop reads them, the events take an interface
without an address, or with the device's, nowhere else (`EventsOK`), which is what
applying a change twice, by the dump and by its event, needs. `AddrRoom` is room in
`msg_queue_rib` whenever `netlink_thread` sends.

### The forwarding database (`Fdb_proofs`)

`FdbTypeCorrect` and `FdbFreshest` hold for any table size, hash
function, hosts and ages: a lookup of a host whose entry has not expired returns
the port it was learned on last. `FreshestFound` speaks of the looked-up port
only; the strengthening `FdbInv` adds typing and the age: the first entry met
when probing from the host's hash (`Fresh`) has the port *and the age* of the
last learning. Without the age nothing says that aging spares that entry while
an older duplicate of the host goes. Aging only frees slots and ages entry and
learning alike; an addition replaces the first entry or takes the first free
slot before it.

`FdbExpired` is the other half, `Spec => ExpiredForgotten`: after a pass no host is
found that was not learned within the aging time. It needs that no duplicate of
a host is younger than the host's last learning (`NotYounger`), and that the slots
behind the pass hold nothing old (`Swept`); both are inductive with `FdbInv`.

### Next hops (`Nexthop_proofs`)

For any number of groups, pool entries, members, ids and addresses, with and
without failing allocations:

| theorem | statement |
|---|---|
| `InvHolds` | `Spec => []NexthopInv` |
| `InfosAccounted` | `Spec => []InfoAccounted` |
| `InfosKept` | `Spec => []InfoKept` |
| `HashedIsGroupHolds` | `Spec => []HashedIsGroup` |

A message is one step of the model but a loop over members in the code, which
makes further groups on the way and may fail at any turn. What is true between
the turns is therefore an invariant of its own: `Sound(n)` says of any tables,
those of a half-filled group included, that every count is the number of
members that use the entry, and that the members filled in so far are those the
group is made for (`Fits`). Each operation of `nexthop.c` has a lemma that it
keeps `Sound`: taking, sharing and releasing an address, and the release loop,
where after `k` turns an entry's count is the number of uses that are `Left`.
`Building` carries `Sound` along the loop of `nexthop_add_entry`, together with
what it may not touch: the groups that were in use. `NexthopInv` holds between
messages: `Sound`, every group `Whole`, and the hash table. That
`InfoKept` survives the reuse of pool entries needs the exact counts: an entry
is refilled only at count 0, when no member of any group refers to it.
`HashedIsGroup` needs that the group of an id in the table is never free, which is
why `Fits` says that a group with an id has members. This ends with the first route
that brings an unknown id and no addresses: the id is then hashed to a slot that
remains free. From there on `NexthopInv` and the other theorems still hold, for every
such message; `HashedIsGroup` and the clause of `NexthopInv` it follows from are
stated for behaviours without one (`~bare`).

The theorems do not contradict `nexthop_shared`: they are about groups in use, and
that run shows a route whose group has been freed.

### The packet path (`PacketPath_proofs`)

For all six worker programs, any number of ports and vswitches, any links, routes
and local SIDs, and pools, rings, transmit buffers and queues of any size:

| theorem | statement |
|---|---|
| `EveryBufferIsAccountedFor` | `Spec => []BuffersAccounted` |
| `OneCopyPerLink` | `Spec => []OncePerLink` |
| `VswitchesAreIsolated` | `Spec => []Isolated` |

The rib of a scene is a constant, so what its arrays must satisfy is an assumption:
`IsRib` (arrays refer to one another by index, inside their bounds) and
`IsConfigured` (a vswitch lists links of its own, each once; a port lists its own
links; the native link of a port *that has untagged links* is one of them; one tag
of a port leads to one vswitch). `VswitchInv` and `Delivered` of `VSwitch` say the same
of vswitches that were configured and not deleted. The native field of a port without
untagged links is not restricted: it is zero, the first link, until it is
written. TLC evaluates both assumptions on every scene; in all of them port 1 has
tagged links only and the zeroed field.

*Buffers.* `BuffersAccounted` becomes inductive as `Accounted`: the sum of free,
queued and lost buffers is the size of the pool, with a set from which all queued
frames come and the bound of each queue. A worker's step is a fold over the
emissions of a frame, and each emission may or may not get a buffer. `Bracketed`
says what the programs emit: deliveries that either find a buffer *and* a place or
change nothing, and at most one allocation that is freed at the end (the solicitation
of `_forwarding`). That every program's emissions have this form is shown once
per helper (`Emits`), bottom up to `Process` and `ProcessDown`; that the fold keeps
the sum for any emissions of this form is an induction along its turns. The tap
handlers, the managers, the NIC and the reading application each have a lemma.

*Links.* `Sends` says of the emissions of a frame that no link occurs twice, that
the link it came in on occurs only with a frame of the worker's own or for a segment
list, that each copy has its link's tag, and that copies on links and in tap rings
belong to the vswitch the frame entered, or were routed to it. `ProcessSent`
shows it of every program, helper by helper, from `IsConfigured`. The vswitch a
frame *entered* is the one configured for its port and tag; for an untagged frame on a port
with tagged links only it is, as in the code, that of the link in the native field,
and isolation means that the frame stays in that one (section 5). `OneCopyPerLink`
reads it off for the frame at the head of a receive queue. For
`VswitchesAreIsolated` it has to be known where the frames in the queues come from
(`Placed`): one from a port entered the vswitch of every link with that port and
tag, one in a transmit buffer is on a link of that port with its tag, in its own
vswitch or routed, one in a tap ring belongs to the ring's vswitch. `Placed` is
inductive together with `Accounted`. That a routed frame goes to a neighbour is
stated for the moment of sending only: the neighbour may move while the frame waits in
the transmit buffer.

### Induction (`Induction_proofs`)

The library's induction theorems take an operator, which the provers cannot
instantiate. `NatSetInduction` states induction for a *set* of numbers, and so
first-order; it follows from the well-foundedness of the naturals. A recursive
function is a CHOOSE, so nothing is known of it until a function with its
equation is shown to exist: `RunExists` builds one step by step, and
`RunInduction` carries a claim along it. `Lookup`, the folds of `VSwitch`, the
tables of `Pending`, the loops of `Nexthop` and the fold over a frame's emissions are
reasoned about in this way. `SubsetInduction` does the same for finite sets; from it
follow the facts about sums over a function (`SumChanged`: one value changes) that
the count of buffers needs. `FlattenSeqSteps` gives the equations of the library's
`FlattenSeq`, in which the emissions are put together.

### Only model-checked

* All liveness (`BatchProcessed`, `StableResolved`, `StableAddress`, `Returned`,
  `Resolved`, `Served`, `CommandEnds`): the prover does not do fairness.
* `RouteTable` (`FibIsLongestPrefix`), whose RECURSIVE operators on trees are outside
  the prover's reach.
* `VtyShell` (`ScreenShowsLine`, `HistoryKept`, `StartupStops`, `RibHeld`): no proof
  was attempted. The state is a record per shell that every key rewrites through a
  chain of operators on lines, cells and words; an inductive invariant would have
  to describe the terminal between any two keys. The run enumerates the keys in
  all orders up to its bounds instead.

## 5. Where the code does not do what it seems to

The models follow the code in the following points, and the passing runs are
set up, or their properties worded, so as to say exactly what holds in spite of
them. The first two have a run of their own.

* `rib_manager.c:1042`: PORT_GET publishes the copy before the FIBs are rebuilt
  (run `rib_rcu_portget`). Its handler copies the rib a second time
  (`rib_manager.c:1087`, `:1033`); the first copy is freed at `:1117`, so nothing is
  leaked, but a PORT_GET needs two ribs beside the published one.
* `rib_manager.c:1616`: groups of next hops shared by two routes without a kernel
  id are freed with the first route (run `nexthop_shared`).
* `rib_manager.c:1168`: if the zero rib cannot be allocated the new queue
  assignment is published without it, and two lcores can poll one queue
  (`MallocMayFail`).
* `router.c:328`: the stop flag is set without a grace period, so a worker that
  has just tested it polls a port that is being reconfigured (`BeginPoll`
  before, `EndPoll` after `BeginCheck`).
* `neigh_manager.c:87`: a full table refuses updates of the entries it holds.
* `rib_manager.c:1253`: a delta lost on a full ring makes the next ones act on
  the wrong positions, in the end with a negative `memmove` length (`crashed`).
* `rib_manager.c:312`: rings are created by slot and freed by vswitch id, which
  frees another vswitch's ring, or leaves the array (`fault`); the rings are
  freed before the rib without them is published.
* `rib_manager.c:212`: a port's native VLAN outlives its link unless the port has
  tagged links.
* `router.c:124`, `l2_switch.c:288`, `enhanced_repeater.c:271`: the native link of a port
  without untagged links is the zeroed field, link 0, on whatever port that is. An
  untagged frame on such a port enters link 0's vswitch, although no link of that
  vswitch need be on the port: it is accepted, learned and flooded there. `Isolated`
  counts it as a frame of that vswitch; that untagged frames enter only where
  they are configured to holds of ports with an untagged link (`Delivered`).
* `radix.c:169`: deleting a prefix that is only an inner node loses the subtree
  (`Deletions = "any"`).
* `rib_manager.c:548`, `net_subr.h:442`: the families' tables are numbered in the
  order of their first routes, but looked up by fixed numbers.
* `netlink_thread.c:691`, `nexthop.c:26`: a route can name a next-hop id that is unknown
  and carry no addresses of its own. `nexthop_add_entry` then hashes the id to a group
  without members, which is a free slot: the next group takes the slot, the id
  leads to that group, and deleting the id deletes it (`bare`).
* `nexthop.c:587`: the id whose group is in slot 0 counts as unknown
  (`SlotOfNhid`).
* `netlink_thread.c:1387`, `dpdk_lcore_cmd.c:97`: `stop worker` never returns for
  netlink_thread, or for rib_manager in a grace period (`Stuck`).
* `dpdk_lcore_cmd.c:89`, `:78`: stopping the lthread core is announced as
  impossible and done; starting a busy lcore is announced and not done.
* `lthread_main.c:101`: every `set worker lthread rib-manager` registers another entry,
  which is never removed, until the registry is full; then a worker has no entry.
* `rib_manager.c:1916`, `:2007`: `msg_queue_rib` is NULL after a second start while
  the first manager runs, and dangling after a stop.

Of netlink:

* `rib_manager.c:1711`: MAC_ADDR_DEL clears the address when the two *differ*.
  As the kernel also sends RTM_DELLINK, with the unchanged address, for a
  device that leaves a bridge, this is what keeps the address then
  (`AddressesFollow`; its mutant is the test one expects).
* `netlink_thread.c:935`: for a removed device `if_indextoname` fails and the
  message has an empty name, so the rib keeps the addresses of removed devices,
  and a late announcement is stored in the first slot without router interface.
* `rib_manager.c:1406`: a shorter name leaves the end of the longer one behind it,
  and the address messages, which compare 16 bytes, never match again; setting an
  interface again keeps the old addresses; an interface set late for a device that
  exists never learns the addresses the device has; of two interfaces of one name
  only the first gets addresses; of several addresses of a kind the last counts,
  and its deletion leaves none.
* `netlink_thread.c:1261`: a dump that is refused, or could not be sent, blocks the
  thread for ever, and with it the lthread core if it runs there (`DumpRefused`).
  `netlink_thread.c:1336` says the thread waits for the startup configuration
  "before subscribing to routes"; the socket is subscribed before.
* `netlink_thread.c:1366`: next-hop objects of before the start are not dumped; an
  overflow of the socket is not noticed.

Of the packet path:

* `srv6_router.c:244`: a routed frame that is not IPv6 passes a NULL header to the
  segment routing code, which follows it (`fault`).
* `net_subr.h:563`: a frame whose neighbour is known but whose FDB entry has aged
  is dropped without a new solicitation; `Resolved` needs a host that speaks.
* `l3_tap_handler.c:212`, `tap_handler.c:393`: a frame that does not fit `ring_dn` is
  leaked (`lost`); `tap_handler.c:387` does not test its allocation;
  `l2_repeater.c:110` forgets what `rte_eth_tx_burst` did not take.
* `l3_tap_handler.c:118`: the capture ring of a vswitch without router interface is
  never read. `vlan_switch.c:538`: the call that would read the rings from the tap
  interfaces is commented out, while `tap_handler.c:392` goes on filling them. These
  two kinds of rings keep their buffers for ever (`Unread`, the exceptions of
  `Returned`).
* `l2_switch.c:361` looks hosts up by the link's tag, but they are learned by the
  vswitch's VLAN id; `vlan_switch.c:414` indexes the vswitch array by id; a
  non-IP frame to the router's address is routed as `::`; broadcasts reach the
  router interface twice; `l2_repeater` and `vlan_switch` poll stopped ports.

Of the shells:

* `command_shell.c:749`: a client that hangs up while its pager runs blocks the
  lthread core in `waitpid`, or leaves `pager_start` spinning (`Lost`). A startup
  configuration that sets the pager and then runs a command spins there, too: a file
  stays readable.
* `command_shell.c:729`: every turn of a pager closes `pipefd[1]`. It is the pipe the
  first time; afterwards the number is free, and a client who connects while the
  pager runs gets it. The next turn closes that client's socket. The shell of the
  client then reads from a number that is closed, or somebody else's, and keeps
  its slot (`CutOff`, the exception of `Served`).
* `command_shell.c:366`: a child whose `execlp` fails returns from `pager_start` into
  sdplane: a second process that shares the sockets, reads some of the clients' keys
  and accepts some of the connections (`CopyReads`, `CopyAccepts`), and never
  exits, so that its shell stays in paging mode.
* `shell_read_close` and then `lthread_close` close a shell's descriptor one after the
  other; the model takes them as one step, so a number that another operating system
  thread opens between the two is outside it.
* `sdplane.c:143`: `sleep` yields inside the read section; commands pasted behind it
  read whatever `rib_tlocal` then is, NULL or freed included (`slept`).
  `startup_config` runs its commands outside any read section.
* `command_shell.c:785`, `startup_config.c`: a line of blanks or an indented comment
  counts as an unknown command and aborts the configuration; a last line without
  newline is not executed; a pasted command that fails drops the rest of its
  read. `command_shell.c:853`: after `exit` the line is not cleared, so what follows in
  the same read (256 bytes) is appended to the word: a comment or an empty line
  executes `exit` again, a command makes it an unknown one, which fails and ends
  sdplane. Only if the read ends there does `exit` end the configuration as completed.
* The completion inserts at the end of the cursor's word what completes the
  last word of the line; a telnet option inside an escape sequence is swallowed;
  a window size is assembled from signed bytes.

Of the next hops, vswitches and worker control, beyond the list above: a table
of next hops fills up over time, since stand-alone groups of multipath members
are never deleted (`nexthop.c:400`); a QCONF as the very first message crashes
(`QconfCrash`); links take `dpdk_port_id` 0 before the first PORT_STATUS
(`EarlyConfig`); `srv6_cmd.c:41` takes the next index from a snapshot, so that two
SIDs pasted at once overwrite each other; `tap_handler.c:483` renews its ports only
while the version grows.

## 6. Not modelled, and what is left

Not modelled:

* **l2fwd, l3fwd, pktgen** (`src/module/`, two thirds of the repository's lines):
  copies of DPDK's examples and of Pktgen-DPDK, launched like the workers. They
  do not read the rib or send messages; l2fwd and l3fwd obey the stop flag and
  report quiescent states, which is all that `Workers` and `RibRcu` see of a worker
  that polls nothing.
* **Header arithmetic**: checksums, byte order and the layout of headers; a frame
  in the models has the fields the decisions read.
* **Port commands, flow rules, devbind**: single calls of DPDK or of sysfs whose
  state is in the driver.
* **Statistics, show commands, logging, formatting**: read-only; nothing depends
  on them.
* **NetTLP**: builds single requests; nothing is retransmitted, no completion is
  handled, so that there is no protocol state.
* **Netlink hook**: starts the user's programs. (A program that cannot be executed
  leaves a second sdplane process behind, `netlink_hook.c:146`.)
* **DHCP answers**: the code reads and logs requests only.
* **Containers**: sequences in the models; `ptree.c` is used by nothing.
* **The file selector** of the shell, terminal modes, and the syntax of variable
  words of a command.
* **SRv6 local SID messages**, `tap_handler`'s port list, the exit and restart of
  `neigh_manager`: the ring it frees stays in use, which has no defined behaviour
  to model.

Every safety property that a passing run checks is proved for all values of the
constants, under the hypotheses given in section 4, except those of `RouteTable` and
`VtyShell`; these, and liveness, are model-checked only (end of section 4).
