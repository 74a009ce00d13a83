------------------------------ MODULE Nexthop -------------------------------
(***************************************************************************)
(* Next hops: the table of groups that routes refer to by slot, the pool   *)
(* of next-hop addresses that groups share by reference counts, and the    *)
(* hash table from the kernel's next-hop ids to slots.                     *)
(*                                                                         *)
(* A group is made for a kernel next-hop object (one address), a kernel    *)
(* group (it shares the addresses of other objects), or for the addresses  *)
(* written in a route; in the last case equal groups are shared, and the   *)
(* members of a multipath route get groups of their own, too.              *)
(*                                                                         *)
(* Slots are numbered like in the code.  A group's own reference count is  *)
(* left out: it is changed and printed, but no decision reads it.          *)
(***************************************************************************)
EXTENDS Integers, Sequences, FiniteSets, FiniteSetsExt, SequencesExt

CONSTANTS
  Info,       \* next-hop addresses: family, gateway and interface
  NhId,       \* the kernel's next-hop ids
  Prefix,     \* destinations of routes
  Infos,      \* the lists of addresses in routes
  Groups,     \* MAX_NEXTHOP_GRP_SIZE
  Pool,       \* MAX_NEXTHOP_INFO_SIZE
  MaxPaths,   \* MAX_ECMP_ENTRY
  MallocMayFail

ASSUME SizeAssumption == {Groups, Pool, MaxPaths} \subseteq Nat \ {0}
ASSUME IdAssumption == 0 \notin NhId
ASSUME InfosAssumption == Infos \subseteq BoundedSeq(Info, MaxPaths)

VARIABLES
  nh,         \* rib_info->nexthop
  nh_ht,      \* the hash table, a function on the ids it holds
  rib,        \* the routes: prefix -> slot of the group
  route,      \* history: the kernel's routes, prefix -> [id, infos, added]
  bare        \* history: an id has been hashed to a group without members

vars == <<nh, nh_ht, rib, route, bare>>

Slot == 0 .. Groups - 1
Index == 0 .. Pool - 1
Nothing == [x \in {} |-> 0]

\* nhcnt is 0 for a free slot; want is what the group was made for (history),
\* "none" where the message gives no address.
FreeGroup == [nhid |-> 0, nhcnt |-> 0, members |-> <<>>, want |-> <<>>]
FreeInfo == [refcnt |-> 0, info |-> "none"]

Init ==
  /\ nh = [groups |-> [s \in Slot |-> FreeGroup], pool |-> [i \in Index |-> FreeInfo],
           gtop |-> 0, itop |-> 0]
  /\ nh_ht = Nothing
  /\ rib = Nothing
  /\ route = Nothing
  /\ bare = FALSE

Insert(f, k, x) == [q \in DOMAIN f \cup {k} |-> IF q = k THEN x ELSE f[q]]
Without(f, k) == [q \in DOMAIN f \ {k} |-> f[q]]

\* The first of a set of numbers in 0 .. n-1 after start, going round; start
\* itself is not tried.
After(start, n, S) ==
  LET hits == {d \in 1 .. n - 1 : (start + d) % n \in S}
  IN  IF hits = {} THEN -1 ELSE (start + Min(hits)) % n

-----------------------------------------------------------------------------
(* The pool of next-hop addresses.                                         *)

Used(pool) == {i \in Index : pool[i].refcnt > 0}

\* _info_find
InfoFind(pool, x) ==
  LET hits == {i \in Used(pool) : pool[i].info = x}
  IN  IF hits = {} THEN -1 ELSE Min(hits)

\* Mutant: a shared address is not counted.
InfoTakeUncounted(n, i, x) ==
  IF i \in Used(n.pool) THEN n
  ELSE [n EXCEPT !.pool[i] = [refcnt |-> 1, info |-> x], !.itop = (i + 1) % Pool]

\* _info_alloc, once the entry is known: share it or fill it.
InfoTake(n, i, x) ==
  IF i \in Used(n.pool) THEN [n EXCEPT !.pool[i].refcnt = @ + 1]
  ELSE [n EXCEPT !.pool[i] = [refcnt |-> 1, info |-> x], !.itop = (i + 1) % Pool]

\* The entry _info_alloc finds for x, or -1.
InfoSlot(n, x) ==
  IF InfoFind(n.pool, x) # -1 THEN InfoFind(n.pool, x)
  ELSE After(n.itop, Pool, Index \ Used(n.pool))

\* Mutant: the entry is freed with the first group that releases it.
InfoReleaseAll(n, i) == IF i = -1 THEN n ELSE [n EXCEPT !.pool[i] = FreeInfo]

\* _info_release
InfoRelease(n, i) ==
  IF i = -1 THEN n
  ELSE IF n.pool[i].refcnt <= 1 THEN [n EXCEPT !.pool[i] = FreeInfo]
  ELSE [n EXCEPT !.pool[i].refcnt = @ - 1]

\* The loop over the members of a group.
ReleaseAll(n, members) ==
  LET run[k \in 0 .. Len(members)] ==
        IF k = 0 THEN n ELSE InfoRelease(run[k - 1], members[k])
  IN  run[Len(members)]

-----------------------------------------------------------------------------
(* Groups.                                                                 *)

FreeSlots(n) == {s \in Slot : n.groups[s].nhcnt = 0}

InfoAt(n, i) == IF i = -1 THEN "none" ELSE n.pool[i].info

InfosOf(n, s) == [j \in DOMAIN n.groups[s].members |-> InfoAt(n, n.groups[s].members[j])]

\* nexthop_get_index_by_nhid: slot 0 is stored as a NULL pointer, which the
\* caller takes for an absent id.
SlotOfNhid(ht, id) == IF id \in DOMAIN ht /\ ht[id] # 0 THEN ht[id] ELSE -1

\* The scan for an equal group without a kernel id.
SlotOfInfos(n, infos) ==
  LET hits == {s \in Slot \ FreeSlots(n) :
                            /\ n.groups[s].nhcnt = Len(infos)
                            /\ n.groups[s].nhid = 0
                            /\ InfosOf(n, s) = infos}
  IN  IF hits = {} THEN -1 ELSE Min(hits)

NewSlot(n) ==
  IF n.groups[n.gtop].nhcnt = 0 THEN n.gtop ELSE After(n.gtop, Groups, FreeSlots(n))

\* The hint for the next free slot, when slot s has been filled.
Hint(n, s) ==
  LET next == After(s, Groups, FreeSlots(n))
  IN  [n EXCEPT !.gtop = IF next # -1 THEN next ELSE s]

\* The steps below work on a record [n, slot]; slot -1 means failure.
Failed(n) == [n |-> n, slot |-> -1]

\* The end of nexthop_del_entry, and of a failed nexthop_add_entry.
FreeSlot(n, s) == [ReleaseAll(n, n.groups[s].members) EXCEPT !.groups[s] = FreeGroup]

\* Group s with one more member.
Joined(n, s, i) == [n EXCEPT !.groups[s].members = Append(@, i)]

\* A member with an address of its own.
InlineMember(acc, x) ==
  LET i == InfoSlot(acc.n, x)
      s == acc.slot
  IN  IF s = -1 THEN acc
      ELSE IF i = -1
      THEN Failed(FreeSlot(acc.n, s))
      ELSE [n |-> Joined(InfoTake(acc.n, i, x), s, i), slot |-> s]

\* A new group before its members are filled in; it is no longer free.
Claim(n, id, infos) ==
  LET s == NewSlot(n)
  IN  IF s = -1 THEN Failed(n)
      ELSE [n |-> [n EXCEPT !.groups[s] = [nhid |-> id, nhcnt |-> Len(infos),
                                           members |-> <<>>, want |-> infos]],
            slot |-> s]

Finish(acc) ==
  IF acc.slot = -1 THEN acc ELSE [n |-> Hint(acc.n, acc.slot), slot |-> acc.slot]

\* nexthop_add_entry for one address without a kernel id.
AddStandalone(n, x) ==
  LET old == SlotOfInfos(n, <<x>>)
  IN  IF old # -1 THEN [n |-> n, slot |-> old]
      ELSE Finish(InlineMember(Claim(n, 0, <<x>>), x))

\* members[0].info_index of a group; a group without members is all zero.
FirstMember(g) == IF g.members = <<>> THEN 0 ELSE g.members[1]

\* A member shares the first address of the group in slot r.
SharedMember(acc, r) ==
  LET i == FirstMember(acc.n.groups[r])
      n == IF i = -1 THEN acc.n ELSE [acc.n EXCEPT !.pool[i].refcnt = @ + 1]
  IN  [n |-> Joined(n, acc.slot, i), slot |-> acc.slot]

\* A member of a multipath route: the group of its own, then shared.
EcmpMember(acc, x) ==
  LET own == AddStandalone(acc.n, x)
      s == acc.slot
  IN  IF s = -1 THEN acc
      ELSE IF own.slot = -1
      THEN Failed(FreeSlot(own.n, s))
      ELSE SharedMember([n |-> own.n, slot |-> s], own.slot)

\* A member of a kernel group; an unknown id leaves it without an address.
RefMember(acc, id) ==
  LET r == SlotOfNhid(nh_ht, id)
  IN  IF acc.slot = -1 THEN acc
      ELSE IF r = -1
      THEN [n |-> Joined(acc.n, acc.slot, -1), slot |-> acc.slot]
      ELSE SharedMember(acc, r)

\* What a member of a kernel group is to share (for the history).
InfoOfNhid(n, id) ==
  LET r == SlotOfNhid(nh_ht, id)
  IN  IF r = -1 \/ r \in FreeSlots(n) THEN "none" ELSE n.groups[r].want[1]

\* Member k of a message with a kernel id or 0, and addresses or ids of other
\* objects.
Member(acc, id, infos, refs, k) ==
  IF refs # <<>> THEN RefMember(acc, refs[k])
  ELSE IF id = 0 /\ Len(infos) > 1 THEN EcmpMember(acc, infos[k])
  ELSE InlineMember(acc, infos[k])

\* The addresses of the members.
Wanted(n, infos, refs) ==
  IF refs # <<>> THEN [j \in DOMAIN refs |-> InfoOfNhid(n, refs[j])] ELSE infos

\* The group of the message with its members.
NewGroup(n, id, infos, refs) ==
  LET want == Wanted(n, infos, refs)
      run[k \in 0 .. Len(want)] ==
        IF k = 0 THEN Claim(n, id, want) ELSE Member(run[k - 1], id, infos, refs, k)
  IN  run[Len(want)]

\* nexthop_add_entry: the tables afterwards and the slot.  A group that is
\* found is returned as it is.
AddEntry(id, infos, refs, malloc) ==
  LET old == IF id # 0 THEN SlotOfNhid(nh_ht, id) ELSE SlotOfInfos(nh, infos)
      new == Finish(NewGroup(nh, id, infos, refs))
      inserted == id \in DOMAIN nh_ht \/ malloc
  IN  IF old # -1 THEN [n |-> nh, slot |-> old, ht |-> nh_ht]
      ELSE IF id = 0 \/ new.slot = -1 THEN [n |-> new.n, slot |-> new.slot, ht |-> nh_ht]
      ELSE IF inserted THEN [n |-> new.n, slot |-> new.slot, ht |-> Insert(nh_ht, id, new.slot)]
      ELSE [n |-> FreeSlot(new.n, new.slot), slot |-> -1, ht |-> nh_ht]

\* Mutant: the hash table keeps the id.
DelEntryHashed(id, infos) ==
  LET s == IF id # 0 THEN SlotOfNhid(nh_ht, id) ELSE SlotOfInfos(nh, infos)
  IN  IF s = -1 THEN [n |-> nh, slot |-> -1, ht |-> nh_ht]
      ELSE [n |-> FreeSlot(nh, s), slot |-> s, ht |-> nh_ht]

\* nexthop_del_entry
DelEntry(id, infos) ==
  LET s == IF id # 0 THEN SlotOfNhid(nh_ht, id) ELSE SlotOfInfos(nh, infos)
  IN  IF s = -1 THEN [n |-> nh, slot |-> -1, ht |-> nh_ht]
      ELSE [n |-> FreeSlot(nh, s), slot |-> s,
            ht |-> IF id # 0 THEN Without(nh_ht, id) ELSE nh_ht]

-----------------------------------------------------------------------------
(* Messages.  The kernel adds, replaces and deletes objects and routes in  *)
(* any order, and a message of the start-up dump may come after the change *)
(* it does not show yet.  The kernel lets no group name an object twice.   *)

Refs == {refs \in BoundedSeq(NhId, MaxPaths) \ {<<>>} : IsInjective(refs)}
Malloc == {TRUE} \cup {~MallocMayFail}

Tables(res) == nh' = res.n /\ nh_ht' = res.ht

NexthopEntryAdd(id, infos, refs, malloc) ==
  /\ Tables(AddEntry(id, infos, refs, malloc))
  /\ UNCHANGED <<rib, route, bare>>

NexthopEntryDel(id) ==
  /\ Tables(DelEntry(id, <<>>))
  /\ UNCHANGED <<rib, route, bare>>

\* A route may have no addresses: without an id it is a blackhole, and with an id
\* the kernel need not repeat the addresses of the object.  If the object is not
\* known here, the id is hashed to a group of no members, whose slot stays free.
RouteEntryAdd(p, id, infos, malloc) ==
  LET res == AddEntry(id, infos, <<>>, malloc)
  IN  /\ Tables(res)
      /\ rib' = IF res.slot = -1 THEN rib
                ELSE Insert(rib, p, res.slot)
      /\ route' = Insert(route, p, [id |-> id, infos |-> IF id = 0 THEN infos ELSE <<>>,
                                    added |-> res.slot # -1])
      /\ bare' = (bare \/ (id # 0 /\ infos = <<>> /\ SlotOfNhid(nh_ht, id) = -1))

\* A route with an id keeps the group.  Without its group a route is not
\* deleted.
RouteEntryDel(p) ==
  LET id == route[p].id
      res == IF id # 0 THEN [n |-> nh, slot |-> SlotOfNhid(nh_ht, id), ht |-> nh_ht]
             ELSE DelEntry(0, route[p].infos)
  IN  /\ p \in DOMAIN route
      /\ Tables(res)
      /\ rib' = IF res.slot = -1 THEN rib ELSE Without(rib, p)
      /\ route' = Without(route, p)
      /\ UNCHANGED bare

Next ==
  \/ \E id \in NhId, malloc \in Malloc :
       \/ \E x \in Info : NexthopEntryAdd(id, <<x>>, <<>>, malloc)
       \/ \E refs \in Refs : NexthopEntryAdd(id, <<>>, refs, malloc)
  \/ \E id \in NhId : NexthopEntryDel(id)
  \/ \E p \in Prefix, infos \in Infos : RouteEntryAdd(p, 0, infos, TRUE)
  \/ \E p \in Prefix, id \in NhId, infos \in Infos, malloc \in Malloc :
       RouteEntryAdd(p, id, infos, malloc)
  \/ \E p \in Prefix : RouteEntryDel(p)

Spec == Init /\ [][Next]_vars

-----------------------------------------------------------------------------
(* Properties.                                                             *)

InUse == Slot \ FreeSlots(nh)

TypeOK ==
  /\ \A s \in Slot : LET g == nh.groups[s]
                     IN  /\ g.nhid \in NhId \cup {0}
                         /\ g.members \in BoundedSeq(Index \cup {-1}, MaxPaths)
                         /\ Len(g.members) = g.nhcnt
  /\ \A i \in Index : nh.pool[i].refcnt \in Nat /\ nh.pool[i].info \in Info \cup {"none"}
  /\ nh.gtop \in Slot /\ nh.itop \in Index
  /\ DOMAIN nh_ht \subseteq NhId /\ \A id \in DOMAIN nh_ht : nh_ht[id] \in Slot
  /\ DOMAIN rib \subseteq Prefix /\ \A p \in DOMAIN rib : rib[p] \in Slot
  /\ DOMAIN route \subseteq Prefix
  /\ bare \in BOOLEAN

\* The members that use an entry of the pool.
Uses(n, i) ==
  {u \in Slot \X (1 .. MaxPaths) : /\ u[2] \in DOMAIN n.groups[u[1]].members
                                  /\ n.groups[u[1]].members[u[2]] = i}

\* The reference count of an address is the number of group members that use
\* it: nothing is leaked and nothing freed early, on the error paths and around
\* groups without members included.
InfoAccounted ==
  TypeOK /\ \A i \in Index : nh.pool[i].refcnt = Cardinality(Uses(nh, i))

\* As long as a group is in use its members have the addresses it was made for,
\* whatever other groups that share them have been deleted.
InfoKept ==
  \A s \in InUse : \A j \in DOMAIN nh.groups[s].want :
    nh.groups[s].want[j] # "none" => InfosOf(nh, s)[j] = nh.groups[s].want[j]

\* An id in the hash table leads to a group in use, the group of this id, as long
\* as no route has brought an unknown id without addresses: its slot stays free,
\* the next group takes it, and deleting the id deletes that group.
HashedIsGroup ==
  ~bare => \A id \in DOMAIN nh_ht : nh_ht[id] \in InUse /\ nh.groups[nh_ht[id]].nhid = id

\* nexthop.h: groups are counted by routes.  A route without a kernel id keeps
\* its addresses until the kernel deletes or replaces it.
RouteNexthopKept ==
  \A p \in DOMAIN route :
    LET r == route[p]
    IN  r.added /\ r.id = 0 /\ r.infos # <<>> => InfosOf(nh, rib[p]) = r.infos

-----------------------------------------------------------------------------
(* The inductive invariant.  Its first part holds within the steps, too,   *)
(* while a group is filled in.                                             *)

Address == Info \cup {"none"}
Group == [nhid : NhId \cup {0}, nhcnt : Nat, members : Seq(Index \cup {-1}),
          want : Seq(Address)]
Entry == [refcnt : Nat, info : Address]
Table == [groups : [Slot -> Group], pool : [Index -> Entry], gtop : Slot, itop : Index]

\* The members a group has so far are the ones it is made for.
Fits(n, s) ==
  LET g == n.groups[s]
  IN  /\ Len(g.members) <= g.nhcnt /\ g.nhcnt = Len(g.want) /\ g.nhcnt <= MaxPaths
      /\ \A j \in 1 .. Len(g.members) :
           g.want[j] # "none" => InfoAt(n, g.members[j]) = g.want[j]

Sound(n) ==
  /\ n \in Table
  /\ \A s \in Slot : Fits(n, s)
  /\ \A i \in Index : n.pool[i].refcnt = Cardinality(Uses(n, i))

Whole(n, s) == Len(n.groups[s].members) = n.groups[s].nhcnt

NexthopInv ==
  /\ Sound(nh) /\ \A s \in Slot : Whole(nh, s)
  /\ DOMAIN nh_ht \subseteq NhId /\ \A id \in DOMAIN nh_ht : nh_ht[id] \in Slot
  /\ HashedIsGroup
  /\ DOMAIN rib \subseteq Prefix /\ \A p \in DOMAIN rib : rib[p] \in Slot
  /\ DOMAIN route \subseteq Prefix
  /\ bare \in BOOLEAN
=============================================================================
