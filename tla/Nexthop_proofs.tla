--------------------------- MODULE Nexthop_proofs ---------------------------
(***************************************************************************)
(* The proofs about Nexthop: reference counts of addresses are exact in    *)
(* every state and on every error path, groups keep the addresses they     *)
(* were made for, and the hash table leads from an id to its group, for    *)
(* tables of any size and any messages.                                    *)
(***************************************************************************)
EXTENDS Nexthop, Induction_proofs, FiniteSetTheorems, SequenceTheorems

-----------------------------------------------------------------------------
(* Constants, tables and small helpers.                                    *)

LEMMA Sizes ==
  /\ Groups \in Nat \ {0} /\ Pool \in Nat \ {0} /\ MaxPaths \in Nat \ {0}
  /\ \A i \in Int : i \in Slot <=> 0 <= i /\ i < Groups
  /\ \A i \in Int : i \in Index <=> 0 <= i /\ i < Pool
  /\ Slot \subseteq Nat /\ Index \subseteq Nat
  /\ -1 \notin Slot /\ -1 \notin Index
<1>1. Groups \in Nat \ {0} /\ Pool \in Nat \ {0} /\ MaxPaths \in Nat \ {0}
  BY SizeAssumption
<1> QED
  BY <1>1 DEF Slot, Index

LEMMA MinIn ==
  ASSUME NEW S \in SUBSET Nat, S # {}
  PROVE  Min(S) \in S
<1>1. \E x \in S : \A y \in S : x <= y
  BY LeastNat
<1> QED
  BY <1>1 DEF Min

\* A search from a hint finds one of the numbers it looks for, or none.
LEMMA AfterFacts ==
  ASSUME NEW n \in Nat \ {0}, NEW start \in 0 .. n - 1, NEW S
  PROVE  After(start, n, S) = -1 \/ After(start, n, S) \in S \cap (0 .. n - 1)
<1> DEFINE hits == {d \in 1 .. n - 1 : (start + d) % n \in S}
<1>1. CASE hits = {}
  BY <1>1 DEF After
<1>2. CASE hits # {}
  <2>1. hits \in SUBSET Nat
    OBVIOUS
  <2>2. Min(hits) \in hits
    <3> HIDE DEF hits
    <3> QED
      BY <1>2, <2>1, MinIn
  <2>3. start + Min(hits) \in Int /\ (start + Min(hits)) % n \in S
    BY <2>2
  <2>4. \A x \in Int : x % n \in 0 .. n - 1
    OBVIOUS
  <2>5. After(start, n, S) = (start + Min(hits)) % n
    BY <1>2 DEF After
  <2> QED
    BY <2>3, <2>4, <2>5
<1> QED
  BY <1>1, <1>2

LEMMA TableFacts ==
  ASSUME NEW n \in Table
  PROVE  /\ n = [groups |-> n.groups, pool |-> n.pool, gtop |-> n.gtop, itop |-> n.itop]
         /\ n.groups \in [Slot -> Group] /\ n.pool \in [Index -> Entry]
         /\ n.gtop \in Slot /\ n.itop \in Index
BY DEF Table

LEMMA GroupFacts ==
  ASSUME NEW n \in Table, NEW s \in Slot
  PROVE  LET g == n.groups[s] IN
         /\ g = [nhid |-> g.nhid, nhcnt |-> g.nhcnt, members |-> g.members, want |-> g.want]
         /\ g.nhid \in NhId \cup {0} /\ g.nhcnt \in Nat
         /\ g.members \in Seq(Index \cup {-1}) /\ g.want \in Seq(Address)
         /\ Len(g.members) \in Nat /\ DOMAIN g.members = 1 .. Len(g.members)
         /\ \A j \in 1 .. Len(g.members) : g.members[j] \in Index \cup {-1}
<1>1. n.groups[s] \in Group
  BY TableFacts
<1> DEFINE g == n.groups[s]
<1>2. /\ g = [nhid |-> g.nhid, nhcnt |-> g.nhcnt, members |-> g.members, want |-> g.want]
      /\ g.nhid \in NhId \cup {0} /\ g.nhcnt \in Nat
      /\ g.members \in Seq(Index \cup {-1}) /\ g.want \in Seq(Address)
  BY <1>1 DEF Group
<1> HIDE DEF g
<1>3. Len(g.members) \in Nat /\ DOMAIN g.members = 1 .. Len(g.members)
  BY <1>2
<1>4. \A j \in 1 .. Len(g.members) : g.members[j] \in Index \cup {-1}
  BY <1>2
<1> QED
  BY <1>2, <1>3, <1>4 DEF g

LEMMA EntryFacts ==
  ASSUME NEW n \in Table, NEW i \in Index
  PROVE  /\ n.pool[i] = [refcnt |-> n.pool[i].refcnt, info |-> n.pool[i].info]
         /\ n.pool[i].refcnt \in Nat /\ n.pool[i].info \in Address
<1>1. n.pool[i] \in Entry
  BY TableFacts
<1> QED
  BY <1>1 DEF Entry

-----------------------------------------------------------------------------
(* Counting.                                                               *)

LEMMA PlacesFinite ==
  ASSUME NEW U, U \subseteq Slot \X (1 .. MaxPaths)
  PROVE  IsFiniteSet(U) /\ Cardinality(U) \in Nat
<1>1. IsFiniteSet(Slot) /\ IsFiniteSet(1 .. MaxPaths)
  <2>1. 0 \in Int /\ Groups - 1 \in Int /\ 1 \in Int /\ MaxPaths \in Int
    BY Sizes
  <2> QED
    BY <2>1, FS_Interval DEF Slot
<1>2. IsFiniteSet(Slot \X (1 .. MaxPaths))
  BY <1>1, FS_Product
<1>3. IsFiniteSet(U)
  BY <1>2, FS_Subset
<1> QED
  BY <1>3, FS_CardinalityType

LEMMA UsesFinite ==
  ASSUME NEW n, NEW i
  PROVE  IsFiniteSet(Uses(n, i)) /\ Cardinality(Uses(n, i)) \in Nat
<1>1. Uses(n, i) \subseteq Slot \X (1 .. MaxPaths)
  BY DEF Uses
<1> QED
  BY <1>1, PlacesFinite

\* An entry that a member uses is not free.
LEMMA UsedMember ==
  ASSUME NEW n, Sound(n), NEW s \in Slot, NEW j \in 1 .. Len(n.groups[s].members)
  PROVE  LET i == n.groups[s].members[j] IN
         i = -1 \/ (i \in Index /\ n.pool[i].refcnt \in Nat \ {0})
<1> DEFINE g == n.groups[s]
           i == g.members[j]
<1>1. n \in Table /\ Len(g.members) <= MaxPaths
  <2>1. n \in Table /\ Fits(n, s)
    BY DEF Sound
  <2>2. g.nhcnt \in Nat /\ Len(g.members) \in Nat
    BY <2>1, GroupFacts
  <2> QED
    BY <2>1, <2>2, Sizes DEF Fits
<1>2. /\ i \in Index \cup {-1} /\ DOMAIN g.members = 1 .. Len(g.members)
      /\ Len(g.members) \in Nat
  BY <1>1, GroupFacts
<1>3. ASSUME i \in Index PROVE n.pool[i].refcnt \in Nat \ {0}
  <2>1. <<s, j>> \in Slot \X (1 .. MaxPaths)
    BY <1>1, <1>2, Sizes
  <2>2. <<s, j>> \in Uses(n, i)
    BY <1>2, <2>1 DEF Uses
  <2>3. n.pool[i].refcnt = Cardinality(Uses(n, i))
    BY <1>3 DEF Sound
  <2>4. IsFiniteSet(Uses(n, i)) /\ Cardinality(Uses(n, i)) \in Nat
    BY UsesFinite
  <2>5. Cardinality(Uses(n, i)) # 0
    BY <2>2, <2>4, FS_EmptySet
  <2> QED
    BY <2>3, <2>4, <2>5
<1> QED
  BY <1>2, <1>3

\* What the groups that are not touched have stays what it is.
LEMMA FitsFrame ==
  ASSUME NEW n, Sound(n), NEW q, NEW t \in Slot, q.groups[t] = n.groups[t],
         \A i \in Index : n.pool[i].refcnt # 0 /\ i \in {n.groups[t].members[j] :
                              j \in 1 .. Len(n.groups[t].members)}
                          => q.pool[i].info = n.pool[i].info
  PROVE  Fits(q, t)
<1> DEFINE g == n.groups[t]
<1>1. Fits(n, t)
  BY DEF Sound
<1>2. ASSUME NEW j \in 1 .. Len(g.members)
      PROVE  InfoAt(q, g.members[j]) = InfoAt(n, g.members[j])
  <2>1. g.members[j] = -1 \/ (g.members[j] \in Index /\ n.pool[g.members[j]].refcnt # 0)
    BY UsedMember
  <2> QED
    BY <2>1 DEF InfoAt
<1> QED
  BY <1>1, <1>2 DEF Fits

-----------------------------------------------------------------------------
(* One more member.                                                        *)

Pushed(n, s, m, pool, itop) ==
  [groups |-> [n.groups EXCEPT ![s] =
                 [nhid |-> n.groups[s].nhid, nhcnt |-> n.groups[s].nhcnt,
                  members |-> Append(n.groups[s].members, m),
                  want |-> n.groups[s].want]],
   pool |-> pool, gtop |-> n.gtop, itop |-> itop]

LEMMA Push ==
  ASSUME NEW n, Sound(n), NEW s \in Slot,
         Len(n.groups[s].members) < n.groups[s].nhcnt,
         NEW m \in Index \cup {-1}, NEW pool \in [Index -> Entry], NEW itop \in Index,
         \A i \in Index : pool[i].refcnt = n.pool[i].refcnt + (IF i = m THEN 1 ELSE 0),
         \A i \in Index : n.pool[i].refcnt # 0 => pool[i].info = n.pool[i].info,
         n.groups[s].want[Len(n.groups[s].members) + 1] # "none"
           => (IF m = -1 THEN "none" ELSE pool[m].info)
                = n.groups[s].want[Len(n.groups[s].members) + 1]
  PROVE  Sound(Pushed(n, s, m, pool, itop))
<1> DEFINE g == n.groups[s]
           k == Len(g.members)
           h == [nhid |-> g.nhid, nhcnt |-> g.nhcnt, members |-> Append(g.members, m),
                 want |-> g.want]
           q == Pushed(n, s, m, pool, itop)
<1>1. /\ n \in Table /\ Fits(n, s) /\ k \in Nat
      /\ \A i \in Index : n.pool[i].refcnt = Cardinality(Uses(n, i))
  BY GroupFacts DEF Sound
<1>2. /\ g.nhid \in NhId \cup {0} /\ g.nhcnt \in Nat
      /\ g.members \in Seq(Index \cup {-1}) /\ g.want \in Seq(Address)
      /\ DOMAIN g.members = 1 .. k
  BY <1>1, GroupFacts
<1>3. /\ h.members \in Seq(Index \cup {-1}) /\ Len(h.members) = k + 1
      /\ DOMAIN h.members = 1 .. (k + 1)
      /\ h.members[k + 1] = m
      /\ \A j \in 1 .. k : h.members[j] = g.members[j]
  <2>1. PICK u : u = g.members
    OBVIOUS
  <2>2. PICK v : v = Append(u, m)
    OBVIOUS
  <2>3. u \in Seq(Index \cup {-1}) /\ Len(u) = k
    BY <1>2, <2>1
  <2>4. /\ v \in Seq(Index \cup {-1}) /\ Len(v) = k + 1
        /\ v[k + 1] = m /\ \A j \in 1 .. k : v[j] = u[j]
    <3> HIDE DEF k
    <3> QED
      BY <2>2, <2>3, AppendProperties
  <2>5. DOMAIN v = 1 .. (k + 1)
    BY <2>4
  <2>6. h.members = v
    BY <2>1, <2>2
  <2> QED
    BY <2>1, <2>4, <2>5, <2>6
<1>4. h \in Group
  BY <1>2, <1>3 DEF Group
<1>5. /\ q.groups \in [Slot -> Group] /\ q.groups[s] = h
      /\ \A t \in Slot : t # s => q.groups[t] = n.groups[t]
      /\ q.pool = pool
  <2>1. n.groups \in [Slot -> Group]
    BY <1>1, TableFacts
  <2> HIDE DEF h, g
  <2>2. q.groups = [n.groups EXCEPT ![s] = h] /\ q.pool = pool
    BY DEF Pushed, h, g
  <2> HIDE DEF q
  <2> QED
    BY <1>4, <2>1, <2>2
<1>6. q \in Table
  <2>1. n.gtop \in Slot
    BY <1>1, TableFacts
  <2>2. q = [groups |-> q.groups, pool |-> pool, gtop |-> n.gtop, itop |-> itop]
    BY DEF Pushed
  <2> HIDE DEF q
  <2> QED
    BY <1>5, <2>1, <2>2 DEF Table
<1> HIDE DEF q
<1>7. ASSUME NEW t \in Slot, t # s PROVE Fits(q, t)
  BY <1>5, <1>7, FitsFrame
<1>8. Fits(q, s)
  <2>1. k + 1 <= g.nhcnt
    BY <1>1, <1>2
  <2>2. ASSUME NEW j \in 1 .. k, g.want[j] # "none"
        PROVE  InfoAt(q, h.members[j]) = g.want[j]
    <3>1. InfoAt(n, g.members[j]) = g.want[j]
      BY <1>1, <2>2 DEF Fits
    <3>2. g.members[j] = -1 \/ (g.members[j] \in Index /\ n.pool[g.members[j]].refcnt \in Nat \ {0})
      BY UsedMember, Zenon
    <3>3. InfoAt(q, g.members[j]) = InfoAt(n, g.members[j])
      BY <1>5, <3>2 DEF InfoAt
    <3> QED
      BY <1>3, <3>1, <3>3
  <2>3. g.want[k + 1] # "none" => InfoAt(q, h.members[k + 1]) = g.want[k + 1]
    BY <1>3, <1>5 DEF InfoAt
  <2>4. \A j \in 1 .. (k + 1) : j \in 1 .. k \/ j = k + 1
    BY <1>1
  <2>5. \A j \in 1 .. Len(h.members) :
          h.want[j] # "none" => InfoAt(q, h.members[j]) = h.want[j]
    BY <1>3, <2>2, <2>3, <2>4
  <2>6. /\ h.nhcnt = g.nhcnt /\ h.nhid = g.nhid /\ h.want = g.want
    OBVIOUS
  <2> HIDE DEF h, g
  <2> QED
    BY <1>1, <1>3, <1>5, <2>1, <2>5, <2>6 DEF Fits, g
<1>9. ASSUME NEW i \in Index
      PROVE  q.pool[i].refcnt = Cardinality(Uses(q, i))
  <2> DEFINE u == <<s, k + 1>>
  <2>1. u \in Slot \X (1 .. MaxPaths)
    <3>1. g.nhcnt <= MaxPaths
      BY <1>1 DEF Fits
    <3>2. MaxPaths \in Nat
      BY Sizes
    <3>3. k + 1 \in 1 .. MaxPaths
      BY <1>1, <1>2, <3>1, <3>2, SMTT(30)
    <3> QED
      BY <3>3
  <2>2. \A v \in Slot \X (1 .. MaxPaths) : v # u =>
          ((v[2] \in DOMAIN q.groups[v[1]].members /\ q.groups[v[1]].members[v[2]] = i)
           <=> (v[2] \in DOMAIN n.groups[v[1]].members /\ n.groups[v[1]].members[v[2]] = i))
    <3> SUFFICES ASSUME NEW v \in Slot \X (1 .. MaxPaths), v # u
                 PROVE  (v[2] \in DOMAIN q.groups[v[1]].members
                           /\ q.groups[v[1]].members[v[2]] = i)
                    <=> (v[2] \in DOMAIN n.groups[v[1]].members
                           /\ n.groups[v[1]].members[v[2]] = i)
      OBVIOUS
    <3>1. CASE v[1] # s
      BY <1>5, <3>1
    <3>2. CASE v[1] = s
      <4>1. v[2] # k + 1 /\ v[2] \in Int
        BY <3>2
      <4>2. v[2] \in 1 .. (k + 1) <=> v[2] \in 1 .. k
        BY <1>1, <4>1
      <4> HIDE DEF h, g
      <4>3. q.groups[v[1]] = h /\ n.groups[v[1]] = g
        BY <1>5, <3>2 DEF g
      <4>4. v[2] \in DOMAIN h.members <=> v[2] \in DOMAIN g.members
        BY <1>2, <1>3, <4>2
      <4>5. v[2] \in DOMAIN g.members => h.members[v[2]] = g.members[v[2]]
        BY <1>2, <1>3
      <4> QED
        BY <4>3, <4>4, <4>5
    <3> QED
      BY <3>1, <3>2
  <2>3. u \notin Uses(n, i)
    BY <1>1, <1>2 DEF Uses
  <2>4. u \in Uses(q, i) <=> i = m
    <3>1. u[1] = s /\ u[2] = k + 1
      OBVIOUS
    <3> HIDE DEF h, g, u, k
    <3>2. k + 1 \in 1 .. (k + 1)
      BY <1>1
    <3> QED
      BY <1>3, <1>5, <2>1, <3>1, <3>2 DEF Uses
  <2> HIDE DEF u
  <2>5. \A v : v # u => (v \in Uses(q, i) <=> v \in Uses(n, i))
    BY <2>2 DEF Uses
  <2>6. /\ IsFiniteSet(Uses(n, i)) /\ Cardinality(Uses(n, i)) \in Nat
    BY UsesFinite
  <2>7. CASE i = m
    <3>1. Uses(q, i) = Uses(n, i) \cup {u}
      BY <2>4, <2>5, <2>7
    <3>2. Cardinality(Uses(n, i) \cup {u}) = Cardinality(Uses(n, i)) + 1
      BY <2>3, <2>6, FS_AddElement
    <3> QED
      BY <1>1, <1>5, <2>7, <3>1, <3>2
  <2>8. CASE i # m
    <3>1. Uses(q, i) = Uses(n, i)
      <4>1. \A v : v \in Uses(q, i) <=> v \in Uses(n, i)
        BY <2>3, <2>4, <2>5, <2>8, Zenon
      <4>2. Uses(q, i) \subseteq Uses(n, i) /\ Uses(n, i) \subseteq Uses(q, i)
        BY <4>1, Zenon
      <4> QED
        BY <4>2, Zenon
    <3>2. pool[i].refcnt = n.pool[i].refcnt
      BY <1>1, <2>6, <2>8
    <3> QED
      BY <1>1, <1>5, <3>1, <3>2
  <2> QED
    BY <2>7, <2>8
<1>10. \A t \in Slot : Fits(q, t)
  BY <1>7, <1>8
<1>11. Sound(q)
  BY <1>6, <1>9, <1>10 DEF Sound
<1> QED
  BY <1>11 DEF q

LEMMA JoinedFacts ==
  ASSUME NEW n \in Table, NEW s \in Slot, NEW i \in Index \cup {-1},
         NEW pool \in [Index -> Entry], NEW itop \in Index, NEW q,
         q = [groups |-> n.groups, pool |-> pool, gtop |-> n.gtop, itop |-> itop]
  PROVE  Joined(q, s, i) = Pushed(n, s, i, pool, itop)
<1> DEFINE g == n.groups[s]
           h == [g EXCEPT !.members = Append(g.members, i)]
<1>1. h = [nhid |-> g.nhid, nhcnt |-> g.nhcnt, members |-> Append(g.members, i),
           want |-> g.want]
  <2>1. g = [nhid |-> g.nhid, nhcnt |-> g.nhcnt, members |-> g.members, want |-> g.want]
    BY GroupFacts
  <2> HIDE DEF g
  <2> QED
    BY <2>1, SMTT(30)
<1>2. Joined(q, s, i) = [q EXCEPT !.groups = [q.groups EXCEPT ![s] =
                           [q.groups[s] EXCEPT !.members = Append(q.groups[s].members, i)]]]
  BY DEF Joined
<1>3. Joined(q, s, i) = [q EXCEPT !.groups = [n.groups EXCEPT ![s] = h]]
  BY <1>2
<1> HIDE DEF h
<1>4. Joined(q, s, i) = [groups |-> [n.groups EXCEPT ![s] = h], pool |-> pool,
                         gtop |-> n.gtop, itop |-> itop]
  BY <1>3
<1> QED
  BY <1>1, <1>4 DEF Pushed

-----------------------------------------------------------------------------
(* Addresses are taken from the pool.                                      *)

LEMMA InfoSlotFacts ==
  ASSUME NEW n \in Table, NEW x
  PROVE  LET i == InfoSlot(n, x) IN
         i = -1 \/ (i \in Index /\ (n.pool[i].refcnt # 0 => n.pool[i].info = x))
<1> DEFINE hits == {i \in Used(n.pool) : n.pool[i].info = x}
<1>1. CASE InfoFind(n.pool, x) # -1
  <2>1. hits # {} /\ InfoSlot(n, x) = Min(hits)
    BY <1>1 DEF InfoFind, InfoSlot
  <2>2. hits \in SUBSET Nat
    BY Sizes DEF Used
  <2>3. Min(hits) \in hits
    <3> HIDE DEF hits
    <3> QED
      BY <2>1, <2>2, MinIn
  <2> QED
    BY <2>1, <2>3 DEF Used
<1>2. CASE InfoFind(n.pool, x) = -1
  <2>1. InfoSlot(n, x) = After(n.itop, Pool, Index \ Used(n.pool))
    BY <1>2 DEF InfoSlot
  <2>2. n.itop \in 0 .. Pool - 1 /\ Pool \in Nat \ {0}
    BY Sizes, TableFacts DEF Index
  <2>3. InfoSlot(n, x) = -1 \/ InfoSlot(n, x) \in Index \ Used(n.pool)
    <3> DEFINE S == Index \ Used(n.pool)
    <3> HIDE DEF S
    <3>1. After(n.itop, Pool, S) = -1 \/ After(n.itop, Pool, S) \in S \cap (0 .. Pool - 1)
      BY <2>2, AfterFacts
    <3> QED
      BY <2>1, <3>1 DEF S
  <2>4. \A i \in Index \ Used(n.pool) : n.pool[i].refcnt = 0
    <3> SUFFICES ASSUME NEW i \in Index \ Used(n.pool) PROVE n.pool[i].refcnt = 0
      OBVIOUS
    <3>1. n.pool[i].refcnt \in Nat
      BY EntryFacts
    <3> QED
      BY <3>1 DEF Used
  <2> QED
    BY <2>3, <2>4
<1> QED
  BY <1>1, <1>2

Taken(n, i, x, pool, itop) ==
  /\ InfoTake(n, i, x) = [groups |-> n.groups, pool |-> pool, gtop |-> n.gtop,
                          itop |-> itop]
  /\ \A k \in Index : pool[k].refcnt = n.pool[k].refcnt + (IF k = i THEN 1 ELSE 0)
  /\ \A k \in Index : n.pool[k].refcnt # 0 => pool[k].info = n.pool[k].info
  /\ pool[i].info = x

LEMMA TakeFacts ==
  ASSUME NEW n \in Table, NEW i \in Index, NEW x \in Address,
         n.pool[i].refcnt # 0 => n.pool[i].info = x
  PROVE  \E pool \in [Index -> Entry], itop \in Index : Taken(n, i, x, pool, itop)
<1> DEFINE e == [refcnt |-> n.pool[i].refcnt + 1, info |-> x]
           pool == [n.pool EXCEPT ![i] = e]
<1>1. e \in Entry
  <2>1. n.pool[i].refcnt \in Nat
    BY EntryFacts
  <2> QED
    BY <2>1 DEF Entry
<1>2. \A k \in Index : n.pool[k].refcnt \in Nat
  <2> SUFFICES ASSUME NEW k \in Index PROVE n.pool[k].refcnt \in Nat
    OBVIOUS
  <2> QED
    BY EntryFacts
<1>3. n.pool \in [Index -> Entry] /\ n.gtop \in Slot /\ n.itop \in Index
  BY TableFacts
<1>4. /\ pool \in [Index -> Entry]
      /\ pool[i] = e /\ \A k \in Index : k # i => pool[k] = n.pool[k]
  <2> HIDE DEF e
  <2> QED
    BY <1>1, <1>3
<1>5. /\ \A k \in Index : pool[k].refcnt = n.pool[k].refcnt + (IF k = i THEN 1 ELSE 0)
      /\ \A k \in Index : n.pool[k].refcnt # 0 => pool[k].info = n.pool[k].info
      /\ pool[i].info = x
  <2> HIDE DEF pool
  <2> QED
    BY <1>2, <1>4
<1>6. CASE i \in Used(n.pool)
  <2>1. n.pool[i].info = x
    BY <1>2, <1>6 DEF Used
  <2>2. [n.pool[i] EXCEPT !.refcnt = n.pool[i].refcnt + 1] = e
    <3>1. n.pool[i] = [refcnt |-> n.pool[i].refcnt, info |-> n.pool[i].info]
      BY EntryFacts
    <3> QED
      BY <2>1, <3>1
  <2>3. InfoTake(n, i, x) = [n EXCEPT !.pool = [n.pool EXCEPT ![i] =
                               [n.pool[i] EXCEPT !.refcnt = n.pool[i].refcnt + 1]]]
    BY <1>6 DEF InfoTake
  <2> HIDE DEF e
  <2>4. InfoTake(n, i, x) = [n EXCEPT !.pool = pool]
    BY <2>2, <2>3
  <2> HIDE DEF pool
  <2>5. InfoTake(n, i, x) = [groups |-> n.groups, pool |-> pool, gtop |-> n.gtop,
                             itop |-> n.itop]
    BY <2>4, TableFacts
  <2> QED
    BY <1>3, <1>4, <1>5, <2>5 DEF Taken
<1>7. CASE i \notin Used(n.pool)
  <2>1. e = [refcnt |-> 1, info |-> x]
    BY <1>2, <1>7 DEF Used
  <2> DEFINE itop == (i + 1) % Pool
  <2>2. itop \in Index
    <3>1. i + 1 \in Int /\ Pool \in Nat \ {0}
      BY Sizes
    <3>2. \A y \in Int : y % Pool \in 0 .. Pool - 1
      BY <3>1
    <3> QED
      BY <3>1, <3>2 DEF Index
  <2>3. InfoTake(n, i, x) = [n EXCEPT !.pool = [n.pool EXCEPT ![i] = [refcnt |-> 1, info |-> x]],
                                      !.itop = itop]
    BY <1>7 DEF InfoTake
  <2> HIDE DEF e, itop
  <2>4. InfoTake(n, i, x) = [n EXCEPT !.pool = pool, !.itop = itop]
    BY <2>1, <2>3
  <2> HIDE DEF pool
  <2>5. InfoTake(n, i, x) = [groups |-> n.groups, pool |-> pool, gtop |-> n.gtop,
                             itop |-> itop]
    BY <2>4, TableFacts
  <2> QED
    BY <1>4, <1>5, <2>2, <2>5 DEF Taken
<1> QED
  BY <1>6, <1>7

-----------------------------------------------------------------------------
(* A group is given up, whole or half filled in.                           *)

WithPool(n, pool) ==
  [groups |-> n.groups, pool |-> pool, gtop |-> n.gtop, itop |-> n.itop]

LEMMA ReleaseFacts ==
  ASSUME NEW n \in Table, NEW i \in Index \cup {-1}
  PROVE  \E pool \in [Index -> Entry] :
           /\ InfoRelease(n, i) = WithPool(n, pool)
           /\ \A k \in Index : k # i => pool[k] = n.pool[k]
           /\ i # -1 /\ n.pool[i].refcnt # 0 =>
                /\ pool[i].refcnt = n.pool[i].refcnt - 1
                /\ pool[i].refcnt # 0 => pool[i].info = n.pool[i].info
<1>1. n.pool \in [Index -> Entry] /\ n = WithPool(n, n.pool)
  BY TableFacts DEF WithPool
<1>2. CASE i = -1
  <2>1. InfoRelease(n, i) = WithPool(n, n.pool)
    BY <1>1, <1>2 DEF InfoRelease
  <2> QED
    BY <1>1, <1>2, <2>1
<1>3. CASE i # -1
  <2>1. i \in Index /\ n.pool[i].refcnt \in Nat /\ n.pool[i].info \in Address
    BY <1>3, EntryFacts
  <2> DEFINE e == IF n.pool[i].refcnt <= 1 THEN FreeInfo
                  ELSE [refcnt |-> n.pool[i].refcnt - 1, info |-> n.pool[i].info]
             pool == [n.pool EXCEPT ![i] = e]
  <2>2. e \in Entry
    <3>1. FreeInfo \in Entry
      BY DEF Entry, FreeInfo, Address
    <3>2. CASE ~(n.pool[i].refcnt <= 1)
      BY <2>1, <3>2 DEF Entry
    <3> QED
      BY <3>1, <3>2
  <2>3. /\ n.pool[i].refcnt # 0 => e.refcnt = n.pool[i].refcnt - 1
        /\ e.refcnt # 0 => e.info = n.pool[i].info
    BY <2>1 DEF FreeInfo
  <2>4. n.pool[i] = [refcnt |-> n.pool[i].refcnt, info |-> n.pool[i].info]
    BY <2>1, EntryFacts
  <2>5. InfoRelease(n, i) = [n EXCEPT !.pool = pool]
    <3>1. CASE n.pool[i].refcnt <= 1
      BY <1>3, <3>1 DEF InfoRelease
    <3>2. CASE ~(n.pool[i].refcnt <= 1)
      <4>1. InfoRelease(n, i) = [n EXCEPT !.pool = [n.pool EXCEPT ![i] =
                                  [n.pool[i] EXCEPT !.refcnt = n.pool[i].refcnt - 1]]]
        BY <1>3, <3>2 DEF InfoRelease
      <4>2. [n.pool[i] EXCEPT !.refcnt = n.pool[i].refcnt - 1] = e
        BY <2>4, <3>2
      <4> HIDE DEF e
      <4> QED
        BY <4>1, <4>2
    <3> QED
      BY <3>1, <3>2
  <2> HIDE DEF e
  <2>6. /\ pool \in [Index -> Entry] /\ pool[i] = e
        /\ \A k \in Index : k # i => pool[k] = n.pool[k]
    BY <1>1, <2>1, <2>2
  <2> HIDE DEF pool
  <2>7. InfoRelease(n, i) = WithPool(n, pool)
    BY <2>5, TableFacts DEF WithPool
  <2> QED
    BY <2>3, <2>6, <2>7
<1> QED
  BY <1>2, <1>3

LEMMA WithPoolFacts ==
  ASSUME NEW n \in Table, NEW pool \in [Index -> Entry]
  PROVE  /\ WithPool(n, pool) \in Table
         /\ WithPool(n, pool).groups = n.groups /\ WithPool(n, pool).pool = pool
         /\ \A p : WithPool(WithPool(n, pool), p) = WithPool(n, p)
<1>1. /\ n.groups \in [Slot -> Group] /\ n.gtop \in Slot /\ n.itop \in Index
  BY TableFacts
<1> QED
  BY <1>1 DEF WithPool, Table

\* What uses an entry when the first k members of s are released.
Left(n, s, i, k) == Uses(n, i) \ {<<s, j>> : j \in 1 .. k}

\* The pool when the first k members of s are released.
Releasing(n, s, pool, k) ==
  \A i \in Index :
    /\ pool[i].refcnt = Cardinality(Left(n, s, i, k))
    /\ pool[i].refcnt # 0 => pool[i].info = n.pool[i].info

LEMMA ReleaseOne ==
  ASSUME NEW n, Sound(n), NEW s \in Slot, NEW k \in 1 .. Len(n.groups[s].members),
         NEW pool \in [Index -> Entry], Releasing(n, s, pool, k - 1),
         NEW next \in [Index -> Entry],
         LET i == n.groups[s].members[k]
         IN  /\ \A l \in Index : l # i => next[l] = pool[l]
             /\ i # -1 /\ pool[i].refcnt # 0 =>
                  /\ next[i].refcnt = pool[i].refcnt - 1
                  /\ next[i].refcnt # 0 => next[i].info = pool[i].info
  PROVE  Releasing(n, s, next, k)
<1> DEFINE g == n.groups[s]
           m == g.members[k]
           u == <<s, k>>
<1>1. /\ n \in Table /\ Len(g.members) \in Nat /\ DOMAIN g.members = 1 .. Len(g.members)
      /\ Len(g.members) <= MaxPaths /\ m \in Index \cup {-1} /\ k \in Nat \ {0}
  <2>1. n \in Table /\ Fits(n, s)
    BY DEF Sound
  <2>2. g.nhcnt \in Nat /\ Len(g.members) \in Nat /\ DOMAIN g.members = 1 .. Len(g.members)
        /\ m \in Index \cup {-1}
    BY <2>1, GroupFacts
  <2> QED
    BY <2>1, <2>2, Sizes DEF Fits
<1>2. \A j \in Int : j \in 1 .. k <=> j \in 1 .. (k - 1) \/ j = k
  BY <1>1
<1>3. \A i : Left(n, s, i, k) = Left(n, s, i, k - 1) \ {u}
  BY <1>1, <1>2 DEF Left
<1>4. \A i \in Index : u \in Uses(n, i) <=> i = m
  <2>1. u \in Slot \X (1 .. MaxPaths) /\ u[1] = s /\ u[2] = k
    BY <1>1, Sizes
  <2> HIDE DEF u
  <2> QED
    BY <1>1, <2>1 DEF Uses
<1>5. u \notin {<<s, j>> : j \in 1 .. (k - 1)}
  BY <1>1
<1>6. \A i : IsFiniteSet(Left(n, s, i, k - 1)) /\ Cardinality(Left(n, s, i, k - 1)) \in Nat
  <2> SUFFICES ASSUME NEW i
               PROVE  /\ IsFiniteSet(Left(n, s, i, k - 1))
                      /\ Cardinality(Left(n, s, i, k - 1)) \in Nat
    OBVIOUS
  <2>1. Left(n, s, i, k - 1) \subseteq Slot \X (1 .. MaxPaths)
    BY DEF Left, Uses
  <2> QED
    BY <2>1, PlacesFinite
<1> HIDE DEF u
<1> SUFFICES ASSUME NEW i \in Index
             PROVE  /\ next[i].refcnt = Cardinality(Left(n, s, i, k))
                    /\ next[i].refcnt # 0 => next[i].info = n.pool[i].info
  BY DEF Releasing
<1>7. /\ pool[i].refcnt = Cardinality(Left(n, s, i, k - 1))
      /\ pool[i].refcnt # 0 => pool[i].info = n.pool[i].info
  BY DEF Releasing
<1>8. CASE i # m
  <2>1. u \notin Left(n, s, i, k - 1)
    BY <1>4, <1>8 DEF Left
  <2>2. Left(n, s, i, k) = Left(n, s, i, k - 1)
    BY <1>3, <2>1
  <2> QED
    BY <1>7, <1>8, <2>2
<1>9. CASE i = m
  <2>1. u \in Left(n, s, i, k - 1)
    BY <1>4, <1>5, <1>9 DEF Left
  <2>2. Cardinality(Left(n, s, i, k - 1) \ {u}) = Cardinality(Left(n, s, i, k - 1)) - 1
    BY <1>6, <2>1, FS_RemoveElement
  <2>3. Cardinality(Left(n, s, i, k - 1)) # 0
    BY <1>6, <2>1, FS_EmptySet
  <2>4. m # -1
    BY <1>9, Sizes
  <2>5. /\ next[m].refcnt = pool[m].refcnt - 1
        /\ next[m].refcnt # 0 => next[m].info = pool[m].info
    BY <1>7, <1>9, <2>3, <2>4
  <2>6. pool[i].refcnt # 0
    BY <1>7, <2>3
  <2> QED
    BY <1>3, <1>7, <1>9, <2>2, <2>5, <2>6
<1> QED
  BY <1>8, <1>9

LEMMA ReleaseAllFacts ==
  ASSUME NEW n, Sound(n), NEW s \in Slot
  PROVE  \E pool \in [Index -> Entry] :
           /\ ReleaseAll(n, n.groups[s].members) = WithPool(n, pool)
           /\ Releasing(n, s, pool, Len(n.groups[s].members))
<1> DEFINE ms == n.groups[s].members
           len == Len(ms)
           Body(f) == [k \in 0 .. len |-> IF k = 0 THEN n ELSE InfoRelease(f[k - 1], ms[k])]
           run == CHOOSE f : f = Body(f)
           step == [p \in Nat \X Table |->
                      IF p[1] \in 1 .. len THEN InfoRelease(p[2], ms[p[1]]) ELSE p[2]]
<1>1. /\ n \in Table /\ len \in Nat
      /\ \A j \in 1 .. len : ms[j] \in Index \cup {-1}
  BY GroupFacts DEF Sound
<1>2. ReleaseAll(n, ms) = run[len]
  BY Zenon DEF ReleaseAll
<1> HIDE DEF ms, len
<1>3. \A x \in Table, j \in 1 .. len : InfoRelease(x, ms[j]) \in Table
  <2> SUFFICES ASSUME NEW x \in Table, NEW j \in 1 .. len
               PROVE  InfoRelease(x, ms[j]) \in Table
    OBVIOUS
  <2>1. PICK pool \in [Index -> Entry] : InfoRelease(x, ms[j]) = WithPool(x, pool)
    BY <1>1, ReleaseFacts
  <2> QED
    BY <2>1, WithPoolFacts
<1>4. step \in [Nat \X Table -> Table]
  BY <1>3
<1>5. \A j \in 1 .. len, x \in Table : step[<<j, x>>] = InfoRelease(x, ms[j])
  BY <1>1
<1> HIDE DEF step
<1>6. PICK f : IsRun(f, n, step, Table, len)
  BY <1>1, <1>4, RunExists
<1>7. f = Body(f)
  <2>1. f \in [0 .. len -> Table] /\ f[0] = n
    BY <1>6 DEF IsRun
  <2>2. ASSUME NEW k \in 1 .. len PROVE f[k] = InfoRelease(f[k - 1], ms[k])
    <3>1. k - 1 \in 0 .. len
      BY <1>1
    <3>2. f[k] = step[<<k, f[k - 1]>>] /\ f[k - 1] \in Table
      BY <1>6, <2>1, <3>1 DEF IsRun
    <3> QED
      BY <1>5, <3>2
  <2>3. ASSUME NEW k \in 0 .. len
        PROVE  f[k] = IF k = 0 THEN n ELSE InfoRelease(f[k - 1], ms[k])
    <3>1. k # 0 => k \in 1 .. len
      BY <1>1
    <3> QED
      BY <2>1, <2>2, <3>1
  <2> QED
    BY <2>1, <2>3
<1>8. run = Body(run)
  <2>1. \E h : h = Body(h)
    BY <1>7
  <2> QED
    BY <2>1, Zenon
<1> HIDE DEF run
<1>9. /\ run[0] = n
      /\ \A k \in 1 .. len : run[k] = InfoRelease(run[k - 1], ms[k])
  <2>1. \A k \in 0 .. len : run[k] = IF k = 0 THEN n ELSE InfoRelease(run[k - 1], ms[k])
    BY <1>8
  <2>2. 0 \in 0 .. len /\ \A k \in 1 .. len : k \in 0 .. len /\ k # 0
    BY <1>1
  <2> QED
    BY <2>1, <2>2
<1> DEFINE Fine == {p \in Nat \X Table :
                      \E pool \in [Index -> Entry] :
                        p[2] = WithPool(n, pool) /\ Releasing(n, s, pool, p[1])}
           h == [k \in 0 .. len |-> <<k, run[k]>>]
<1>10. h[0] \in Fine
  <2>1. h[0] = <<0, n>>
    BY <1>1, <1>9
  <2>2. n.pool \in [Index -> Entry] /\ n = WithPool(n, n.pool)
    BY <1>1, TableFacts DEF WithPool
  <2>3. \A i : Left(n, s, i, 0) = Uses(n, i)
    <3>1. 1 .. 0 = {}
      OBVIOUS
    <3> QED
      BY <3>1 DEF Left
  <2>4. Releasing(n, s, n.pool, 0)
    BY <2>3 DEF Releasing, Sound
  <2> QED
    BY <1>1, <2>1, <2>2, <2>4
<1>11. ASSUME NEW k \in 1 .. len, h[k - 1] \in Fine
       PROVE  h[k] \in Fine
  <2>1. k \in Nat /\ k - 1 \in Nat /\ k - 1 \in 0 .. len /\ k \in 0 .. len
    BY <1>1
  <2>2. PICK pool \in [Index -> Entry] :
          run[k - 1] = WithPool(n, pool) /\ Releasing(n, s, pool, k - 1)
    BY <1>11, <2>1
  <2>3. run[k - 1] \in Table /\ run[k - 1].pool = pool
    BY <1>1, <2>2, WithPoolFacts
  <2>4. PICK next \in [Index -> Entry] :
          /\ InfoRelease(run[k - 1], ms[k]) = WithPool(run[k - 1], next)
          /\ \A l \in Index : l # ms[k] => next[l] = run[k - 1].pool[l]
          /\ ms[k] # -1 /\ run[k - 1].pool[ms[k]].refcnt # 0 =>
               /\ next[ms[k]].refcnt = run[k - 1].pool[ms[k]].refcnt - 1
               /\ next[ms[k]].refcnt # 0
                    => next[ms[k]].info = run[k - 1].pool[ms[k]].info
    BY <1>1, <2>3, ReleaseFacts, Zenon
  <2>5. run[k] = WithPool(n, next)
    BY <1>1, <1>9, <2>2, <2>4, WithPoolFacts
  <2>6. Releasing(n, s, next, k)
    <3>1. k \in 1 .. Len(n.groups[s].members) /\ ms = n.groups[s].members
      BY DEF len, ms
    <3> QED
      BY <2>2, <2>3, <2>4, <3>1, ReleaseOne
  <2>7. run[k] \in Table
    BY <1>1, <2>5, WithPoolFacts
  <2>8. h[k] = <<k, run[k]>> /\ <<k, run[k]>> \in Nat \X Table
    BY <2>1, <2>7
  <2> QED
    BY <2>5, <2>6, <2>8
<1>12. \A k \in 0 .. len : h[k] \in Fine
  <2> HIDE DEF h, Fine
  <2> QED
    BY <1>1, <1>10, <1>11, RunInduction
<1>13. PICK pool \in [Index -> Entry] :
         run[len] = WithPool(n, pool) /\ Releasing(n, s, pool, len)
  <2>1. len \in 0 .. len
    BY <1>1
  <2>2. <<len, run[len]>> \in Fine
    BY <1>12, <2>1
  <2> QED
    BY <2>2
<1> QED
  BY <1>2, <1>13 DEF ms, len

\* nexthop_del_entry and every roll-back: only the group itself is gone.
LEMMA FreeSlotFacts ==
  ASSUME NEW n, Sound(n), NEW s \in Slot
  PROVE  LET q == FreeSlot(n, s) IN
         /\ Sound(q)
         /\ q.groups[s] = FreeGroup
         /\ \A t \in Slot : t # s => q.groups[t] = n.groups[t]
<1> DEFINE q == FreeSlot(n, s)
           ms == n.groups[s].members
<1>1. PICK pool \in [Index -> Entry] :
         /\ ReleaseAll(n, ms) = WithPool(n, pool)
         /\ Releasing(n, s, pool, Len(ms))
  BY ReleaseAllFacts
<1>2. n \in Table /\ Len(ms) \in Nat /\ DOMAIN ms = 1 .. Len(ms)
  BY GroupFacts DEF Sound
<1>3. n.groups \in [Slot -> Group] /\ n.gtop \in Slot /\ n.itop \in Index
  BY <1>2, TableFacts
<1> DEFINE groups == [n.groups EXCEPT ![s] = FreeGroup]
<1>4. q = [groups |-> groups, pool |-> pool, gtop |-> n.gtop, itop |-> n.itop]
  BY <1>1 DEF FreeSlot, WithPool
<1>5. FreeGroup \in Group
  BY DEF FreeGroup, Group
<1>6. /\ groups \in [Slot -> Group] /\ groups[s] = FreeGroup
      /\ \A t \in Slot : t # s => groups[t] = n.groups[t]
  BY <1>3, <1>5
<1> HIDE DEF groups, q
<1>7. q \in Table /\ q.groups = groups /\ q.pool = pool
  BY <1>3, <1>4, <1>6 DEF Table
<1>8. ASSUME NEW i \in Index PROVE Uses(q, i) = Left(n, s, i, Len(ms))
  <2>1. ASSUME NEW u \in Slot \X (1 .. MaxPaths)
        PROVE  u \in Uses(q, i) <=> u \in Left(n, s, i, Len(ms))
    <3>1. u = <<u[1], u[2]>> /\ u[1] \in Slot /\ u[2] \in 1 .. MaxPaths
      OBVIOUS
    <3>2. CASE u[1] = s
      <4>1. u \notin Uses(q, i)
        <5>1. DOMAIN FreeGroup.members = {}
          BY DEF FreeGroup
        <5> QED
          BY <1>6, <1>7, <3>2, <5>1 DEF Uses
      <4>2. u \in Uses(n, i) => u[2] \in 1 .. Len(ms)
        BY <1>2, <3>2 DEF Uses
      <4>3. u \in Uses(n, i) => u \in {<<s, j>> : j \in 1 .. Len(ms)}
        BY <3>1, <3>2, <4>2
      <4> QED
        BY <4>1, <4>3 DEF Left
    <3>3. CASE u[1] # s
      <4>1. u \in Uses(q, i) <=> u \in Uses(n, i)
        BY <1>6, <1>7, <3>1, <3>3 DEF Uses
      <4>2. u \notin {<<s, j>> : j \in 1 .. Len(ms)}
        BY <3>3
      <4> QED
        BY <4>1, <4>2 DEF Left
    <3> QED
      BY <3>2, <3>3
  <2>2. Uses(q, i) \subseteq Slot \X (1 .. MaxPaths)
    BY DEF Uses
  <2>3. Left(n, s, i, Len(ms)) \subseteq Slot \X (1 .. MaxPaths)
    BY DEF Left, Uses
  <2> QED
    BY <2>1, <2>2, <2>3
<1>9. \A i \in Index : q.pool[i].refcnt = Cardinality(Uses(q, i))
  BY <1>1, <1>7, <1>8 DEF Releasing
<1>10. Fits(q, s)
  <2>1. Len(<<>>) = 0 /\ 0 <= MaxPaths /\ 0 <= 0
    BY Sizes
  <2>2. 1 .. 0 = {}
    OBVIOUS
  <2> QED
    BY <1>6, <1>7, <2>1, <2>2 DEF Fits, FreeGroup
<1>11. ASSUME NEW t \in Slot, t # s PROVE Fits(q, t)
  <2> DEFINE mt == n.groups[t].members
  <2>1. q.groups[t] = n.groups[t]
    BY <1>6, <1>7, <1>11
  <2>2. ASSUME NEW i \in Index, i \in {mt[j] : j \in 1 .. Len(mt)}
        PROVE  q.pool[i].info = n.pool[i].info
    <3>1. PICK j \in 1 .. Len(mt) : mt[j] = i
      BY <2>2
    <3>2. /\ Len(mt) \in Nat /\ DOMAIN mt = 1 .. Len(mt) /\ Len(mt) <= MaxPaths
      <4>1. Fits(n, t)
        BY DEF Sound
      <4>2. Len(mt) \in Nat /\ DOMAIN mt = 1 .. Len(mt) /\ n.groups[t].nhcnt \in Nat
        BY <1>2, GroupFacts
      <4>3. MaxPaths \in Nat
        BY Sizes
      <4> QED
        BY <4>1, <4>2, <4>3 DEF Fits
    <3>3. j \in 1 .. MaxPaths
      BY <3>2, Sizes
    <3>4. <<t, j>> \in Uses(q, i)
      BY <2>1, <3>1, <3>2, <3>3 DEF Uses
    <3>5. Cardinality(Uses(q, i)) # 0
      BY <3>4, UsesFinite, FS_EmptySet
    <3>6. pool[i].refcnt # 0
      BY <1>7, <1>9, <3>5
    <3> QED
      BY <1>1, <1>7, <3>6 DEF Releasing
  <2> QED
    BY <2>1, <2>2, FitsFrame
<1>12. Sound(q)
  BY <1>7, <1>9, <1>10, <1>11 DEF Sound
<1> QED
  BY <1>6, <1>7, <1>12 DEF q

-----------------------------------------------------------------------------
(* A group is begun, gets members and is finished.                         *)

\* From n to q only slot s has changed.
OnlySlot(n, q, s) == \A t \in Slot : t # s => q.groups[t] = n.groups[t]

\* Group s has one more member.
Grown(n, q, s) ==
  /\ Sound(q) /\ OnlySlot(n, q, s)
  /\ q.groups[s].nhid = n.groups[s].nhid /\ q.groups[s].nhcnt = n.groups[s].nhcnt
  /\ q.groups[s].want = n.groups[s].want
  /\ Len(q.groups[s].members) = Len(n.groups[s].members) + 1

\* Group s is gone.
Gone(n, q, s) == Sound(q) /\ OnlySlot(n, q, s) /\ q.groups[s] = FreeGroup

LEMMA NewSlotFacts ==
  ASSUME NEW n \in Table
  PROVE  NewSlot(n) = -1 \/ (NewSlot(n) \in Slot /\ n.groups[NewSlot(n)].nhcnt = 0)
<1>1. n.gtop \in Slot /\ n.gtop \in 0 .. Groups - 1 /\ Groups \in Nat \ {0}
  BY Sizes, TableFacts DEF Slot
<1>2. CASE n.groups[n.gtop].nhcnt = 0
  BY <1>1, <1>2 DEF NewSlot
<1>3. CASE n.groups[n.gtop].nhcnt # 0
  <2> DEFINE S == FreeSlots(n)
  <2> HIDE DEF S
  <2>1. After(n.gtop, Groups, S) = -1 \/ After(n.gtop, Groups, S) \in S \cap (0 .. Groups - 1)
    BY <1>1, AfterFacts
  <2>2. NewSlot(n) = After(n.gtop, Groups, S)
    BY <1>3 DEF NewSlot, S
  <2> QED
    BY <2>1, <2>2 DEF S, FreeSlots
<1> QED
  BY <1>2, <1>3

\* A group without members, in a slot that was free.
Begun(n, id, want, c) ==
  \/ c.slot = -1 /\ c.n = n
  \/ /\ c.slot \in Slot /\ n.groups[c.slot].nhcnt = 0
     /\ Sound(c.n) /\ OnlySlot(n, c.n, c.slot)
     /\ c.n.groups[c.slot] = [nhid |-> id, nhcnt |-> Len(want), members |-> <<>>,
                              want |-> want]

LEMMA ClaimFacts ==
  ASSUME NEW n, Sound(n), NEW id \in NhId \cup {0}, NEW want \in Seq(Address),
         Len(want) <= MaxPaths
  PROVE  Begun(n, id, want, Claim(n, id, want))
<1> DEFINE s == NewSlot(n)
           g == [nhid |-> id, nhcnt |-> Len(want), members |-> <<>>, want |-> want]
           groups == [n.groups EXCEPT ![s] = g]
           q == [groups |-> groups, pool |-> n.pool, gtop |-> n.gtop, itop |-> n.itop]
<1>1. n \in Table /\ Len(want) \in Nat
  BY DEF Sound
<1>2. CASE s = -1
  BY <1>2 DEF Claim, Failed, Begun
<1>3. CASE s # -1
  <2>1. s \in Slot /\ n.groups[s].nhcnt = 0
    BY <1>1, <1>3, NewSlotFacts
  <2>2. /\ n.groups \in [Slot -> Group] /\ n.pool \in [Index -> Entry]
        /\ n.gtop \in Slot /\ n.itop \in Index
        /\ n = [groups |-> n.groups, pool |-> n.pool, gtop |-> n.gtop, itop |-> n.itop]
    BY <1>1, TableFacts
  <2>3. Claim(n, id, want) = [n |-> q, slot |-> s]
    <3>1. Claim(n, id, want) = [n |-> [n EXCEPT !.groups = groups], slot |-> s]
      BY <1>3 DEF Claim
    <3> HIDE DEF groups, s
    <3>2. [n EXCEPT !.groups = groups] = q
      BY <2>2
    <3> QED
      BY <3>1, <3>2
  <2>4. g \in Group
    BY <1>1 DEF Group
  <2> HIDE DEF s
  <2>5. /\ groups \in [Slot -> Group] /\ groups[s] = g
        /\ \A t \in Slot : t # s => groups[t] = n.groups[t]
    <3> HIDE DEF g
    <3> QED
      BY <2>1, <2>2, <2>4
  <2> HIDE DEF groups
  <2>6. q \in Table /\ q.groups = groups /\ q.pool = n.pool
    BY <2>2, <2>5 DEF Table
  <2> HIDE DEF q
  <2>7. ASSUME NEW t \in Slot, t # s PROVE Fits(q, t)
    BY <2>5, <2>6, <2>7, FitsFrame
  <2>8. Fits(q, s)
    <3>1. Len(<<>>) = 0 /\ 0 <= Len(want) /\ 1 .. 0 = {}
      BY <1>1
    <3> QED
      BY <2>5, <2>6, <3>1 DEF Fits
  <2>9. DOMAIN n.groups[s].members = {}
    <3>1. Fits(n, s)
      BY <2>1 DEF Sound
    <3>2. /\ Len(n.groups[s].members) \in Nat
          /\ DOMAIN n.groups[s].members = 1 .. Len(n.groups[s].members)
      BY <1>1, <2>1, GroupFacts
    <3>3. Len(n.groups[s].members) <= 0
      BY <2>1, <3>1 DEF Fits
    <3> QED
      BY <3>2, <3>3
  <2>10. ASSUME NEW i \in Index PROVE Uses(q, i) = Uses(n, i)
    <3>1. DOMAIN q.groups[s].members = {}
      BY <2>5, <2>6
    <3>2. ASSUME NEW u \in Slot \X (1 .. MaxPaths)
          PROVE  (u[2] \in DOMAIN q.groups[u[1]].members /\ q.groups[u[1]].members[u[2]] = i)
             <=> (u[2] \in DOMAIN n.groups[u[1]].members /\ n.groups[u[1]].members[u[2]] = i)
      <4>1. CASE u[1] = s
        BY <2>9, <3>1, <4>1
      <4>2. CASE u[1] # s
        BY <2>5, <2>6, <4>2
      <4> QED
        BY <4>1, <4>2
    <3> QED
      BY <3>2 DEF Uses
  <2>11. Sound(q)
    BY <2>6, <2>7, <2>8, <2>10 DEF Sound
  <2>12. OnlySlot(n, q, s)
    BY <2>5, <2>6 DEF OnlySlot
  <2> QED
    BY <2>1, <2>3, <2>5, <2>6, <2>11, <2>12 DEF Begun
<1> QED
  BY <1>2, <1>3

LEMMA HintFacts ==
  ASSUME NEW n, Sound(n), NEW s \in Slot
  PROVE  Sound(Hint(n, s)) /\ Hint(n, s).groups = n.groups /\ Hint(n, s).pool = n.pool
<1> DEFINE next == After(s, Groups, FreeSlots(n))
           top == IF next # -1 THEN next ELSE s
           q == Hint(n, s)
<1>1. n \in Table
  BY DEF Sound
<1>2. top \in Slot
  <2> DEFINE S == FreeSlots(n)
  <2> HIDE DEF S
  <2>1. After(s, Groups, S) = -1 \/ After(s, Groups, S) \in S \cap (0 .. Groups - 1)
    <3>1. s \in 0 .. Groups - 1 /\ Groups \in Nat \ {0}
      BY Sizes DEF Slot
    <3> QED
      BY <3>1, AfterFacts
  <2>2. next = -1 \/ next \in Slot
    BY <2>1 DEF S, Slot
  <2> HIDE DEF next
  <2> QED
    BY <2>2
<1>3. q = [n EXCEPT !.gtop = top]
  BY DEF Hint
<1> HIDE DEF top
<1>4. q = [groups |-> n.groups, pool |-> n.pool, gtop |-> top, itop |-> n.itop]
  BY <1>1, <1>3, TableFacts
<1> HIDE DEF q
<1>5. q \in Table /\ q.groups = n.groups /\ q.pool = n.pool
  BY <1>1, <1>2, <1>4, TableFacts DEF Table
<1>6. \A t \in Slot : Fits(q, t)
  BY <1>5, FitsFrame
<1>7. \A i : Uses(q, i) = Uses(n, i)
  BY <1>5 DEF Uses
<1>8. Sound(q)
  BY <1>5, <1>6, <1>7 DEF Sound
<1> QED
  BY <1>5, <1>8 DEF q

LEMMA GrownFacts ==
  ASSUME NEW n, Sound(n), NEW s \in Slot,
         Len(n.groups[s].members) < n.groups[s].nhcnt,
         NEW m \in Index \cup {-1}, NEW pool \in [Index -> Entry], NEW itop \in Index,
         \A i \in Index : pool[i].refcnt = n.pool[i].refcnt + (IF i = m THEN 1 ELSE 0),
         \A i \in Index : n.pool[i].refcnt # 0 => pool[i].info = n.pool[i].info,
         n.groups[s].want[Len(n.groups[s].members) + 1] # "none"
           => (IF m = -1 THEN "none" ELSE pool[m].info)
                = n.groups[s].want[Len(n.groups[s].members) + 1]
  PROVE  Grown(n, Pushed(n, s, m, pool, itop), s)
<1> DEFINE q == Pushed(n, s, m, pool, itop)
           g == n.groups[s]
           h == [nhid |-> g.nhid, nhcnt |-> g.nhcnt, members |-> Append(g.members, m),
                 want |-> g.want]
<1>1. Sound(q)
  BY Push
<1>2. n \in Table /\ n.groups \in [Slot -> Group]
  BY TableFacts DEF Sound
<1>3. g.members \in Seq(Index \cup {-1})
  BY <1>2, GroupFacts
<1>4. Len(h.members) = Len(g.members) + 1
  BY <1>3
<1>5. q.groups = [n.groups EXCEPT ![s] = h]
  BY DEF Pushed
<1>6. q.groups[s] = h /\ \A t \in Slot : t # s => q.groups[t] = n.groups[t]
  BY <1>2, <1>5
<1>7. h.nhid = g.nhid /\ h.nhcnt = g.nhcnt /\ h.want = g.want
  OBVIOUS
<1> HIDE DEF q, h
<1> QED
  BY <1>1, <1>4, <1>6, <1>7 DEF Grown, OnlySlot, q

LEMMA InlineFacts ==
  ASSUME NEW acc, Sound(acc.n), acc.slot \in Slot,
         NEW x \in Address,
         Len(acc.n.groups[acc.slot].members) < acc.n.groups[acc.slot].nhcnt,
         acc.n.groups[acc.slot].want[Len(acc.n.groups[acc.slot].members) + 1] = x
  PROVE  LET r == InlineMember(acc, x) IN
         \/ r.slot = -1 /\ Gone(acc.n, r.n, acc.slot)
         \/ r.slot = acc.slot /\ Grown(acc.n, r.n, acc.slot)
<1> DEFINE n == acc.n
           s == acc.slot
           i == InfoSlot(n, x)
           r == InlineMember(acc, x)
<1>1. n \in Table /\ s # -1
  BY Sizes DEF Sound
<1>2. i = -1 \/ (i \in Index /\ (n.pool[i].refcnt # 0 => n.pool[i].info = x))
  BY <1>1, InfoSlotFacts
<1>3. CASE i = -1
  <2>1. r.slot = -1 /\ r.n = FreeSlot(n, s)
    BY <1>1, <1>3 DEF InlineMember, Failed
  <2>2. Gone(n, FreeSlot(n, s), s)
    BY FreeSlotFacts DEF Gone, OnlySlot
  <2> QED
    BY <2>1, <2>2
<1>4. CASE i # -1
  <2>1. r = [n |-> Joined(InfoTake(n, i, x), s, i), slot |-> s]
    BY <1>1, <1>4 DEF InlineMember
  <2> HIDE DEF i, r
  <2>2. PICK pool \in [Index -> Entry], itop \in Index : Taken(n, i, x, pool, itop)
    <3>1. i \in Index /\ (n.pool[i].refcnt # 0 => n.pool[i].info = x)
      BY <1>2, <1>4
    <3> HIDE DEF n
    <3> QED
      BY <1>1, <3>1, TakeFacts
  <2>3. Joined(InfoTake(n, i, x), s, i) = Pushed(n, s, i, pool, itop)
    BY <1>1, <1>2, <2>2, JoinedFacts DEF Taken
  <2>4. Grown(n, Pushed(n, s, i, pool, itop), s)
    <3>1. (IF i = -1 THEN "none" ELSE pool[i].info) = n.groups[s].want[Len(n.groups[s].members) + 1]
      BY <1>4, <2>2 DEF Taken
    <3> QED
      BY <1>2, <2>2, <3>1, GrownFacts DEF Taken
  <2> QED
    BY <2>1, <2>3, <2>4 DEF r
<1> QED
  BY <1>3, <1>4

\* A member without an address.
LEMMA UnresolvedFacts ==
  ASSUME NEW n, Sound(n), NEW s \in Slot,
         Len(n.groups[s].members) < n.groups[s].nhcnt,
         n.groups[s].want[Len(n.groups[s].members) + 1] = "none"
  PROVE  Grown(n, Joined(n, s, -1), s)
<1>1. /\ n \in Table /\ n.pool \in [Index -> Entry] /\ n.itop \in Index
      /\ n = [groups |-> n.groups, pool |-> n.pool, gtop |-> n.gtop, itop |-> n.itop]
  BY TableFacts DEF Sound
<1>2. Joined(n, s, -1) = Pushed(n, s, -1, n.pool, n.itop)
  <2> DEFINE q == [groups |-> n.groups, pool |-> n.pool, gtop |-> n.gtop, itop |-> n.itop]
  <2>1. PICK m \in Index \cup {-1} : m = -1
    OBVIOUS
  <2>2. q = [groups |-> n.groups, pool |-> n.pool, gtop |-> n.gtop, itop |-> n.itop] /\ q = n
    BY <1>1
  <2> HIDE DEF q
  <2>3. Joined(q, s, m) = Pushed(n, s, m, n.pool, n.itop)
    BY <1>1, <2>2, JoinedFacts
  <2> QED
    BY <2>1, <2>2, <2>3
<1>3. \A i \in Index : n.pool[i].refcnt = n.pool[i].refcnt + (IF i = -1 THEN 1 ELSE 0)
  <2> SUFFICES ASSUME NEW i \in Index
               PROVE  n.pool[i].refcnt = n.pool[i].refcnt + (IF i = -1 THEN 1 ELSE 0)
    OBVIOUS
  <2>1. n.pool[i].refcnt \in Nat
    BY <1>1, EntryFacts
  <2>2. i # -1
    BY Sizes
  <2> QED
    BY <2>1, <2>2
<1>4. Grown(n, Pushed(n, s, -1, n.pool, n.itop), s)
  BY <1>1, <1>3, GrownFacts
<1> QED
  BY <1>2, <1>4

LEMMA SharedFacts ==
  ASSUME NEW acc, Sound(acc.n), acc.slot \in Slot, NEW r \in Slot,
         Len(acc.n.groups[acc.slot].members) < acc.n.groups[acc.slot].nhcnt,
         NEW x, x = acc.n.groups[acc.slot].want[Len(acc.n.groups[acc.slot].members) + 1],
         x # "none" => InfoAt(acc.n, FirstMember(acc.n.groups[r])) = x
  PROVE  LET q == SharedMember(acc, r) IN
         q.slot = acc.slot /\ Grown(acc.n, q.n, acc.slot)
<1> DEFINE n == acc.n
           s == acc.slot
           i == FirstMember(n.groups[r])
           p == IF i = -1 THEN n ELSE [n EXCEPT !.pool[i].refcnt = @ + 1]
<1>1. /\ n \in Table /\ n.pool \in [Index -> Entry] /\ n.itop \in Index
      /\ n = [groups |-> n.groups, pool |-> n.pool, gtop |-> n.gtop, itop |-> n.itop]
  BY TableFacts DEF Sound
<1>2. SharedMember(acc, r) = [n |-> Joined(p, s, i), slot |-> s]
  BY DEF SharedMember
<1>3. n.groups[r].members \in Seq(Index \cup {-1})
  BY <1>1, GroupFacts
<1>4. i = -1 \/ i \in Index
  <2>1. CASE n.groups[r].members = <<>>
    BY <2>1, Sizes DEF FirstMember
  <2>2. CASE n.groups[r].members # <<>>
    BY <1>3, <2>2 DEF FirstMember
  <2> QED
    BY <2>1, <2>2
<1>5. CASE i = -1
  <2>1. p = n
    BY <1>5
  <2>2. n.groups[s].want[Len(n.groups[s].members) + 1] = "none"
    BY <1>5 DEF InfoAt
  <2> HIDE DEF p, i
  <2>3. Grown(n, Joined(n, s, -1), s)
    BY <2>2, UnresolvedFacts
  <2> QED
    BY <1>2, <1>5, <2>1, <2>3
<1>6. CASE i # -1
  <2> DEFINE e == [refcnt |-> n.pool[i].refcnt + 1, info |-> n.pool[i].info]
             pool == [n.pool EXCEPT ![i] = e]
  <2>0. i \in Index
    BY <1>4, <1>6
  <2> HIDE DEF i
  <2>1. /\ n.pool[i] = [refcnt |-> n.pool[i].refcnt, info |-> n.pool[i].info]
        /\ n.pool[i].refcnt \in Nat /\ n.pool[i].info \in Address
    BY <1>1, <2>0, EntryFacts
  <2>2. [n.pool[i] EXCEPT !.refcnt = n.pool[i].refcnt + 1] = e
    BY <2>1
  <2>3. p = [n EXCEPT !.pool = [n.pool EXCEPT ![i] =
               [n.pool[i] EXCEPT !.refcnt = n.pool[i].refcnt + 1]]]
    BY <1>6
  <2>4. e \in Entry
    BY <2>1 DEF Entry
  <2>5. e.refcnt = n.pool[i].refcnt + 1 /\ e.info = n.pool[i].info
    OBVIOUS
  <2> HIDE DEF e, p
  <2>6. p = [n EXCEPT !.pool = pool]
    BY <2>2, <2>3
  <2>7. /\ pool \in [Index -> Entry] /\ pool[i] = e
        /\ \A k \in Index : k # i => pool[k] = n.pool[k]
    BY <1>1, <2>0, <2>4
  <2> HIDE DEF pool
  <2>8. p = [groups |-> n.groups, pool |-> pool, gtop |-> n.gtop, itop |-> n.itop]
    BY <1>1, <2>6
  <2>9. Joined(p, s, i) = Pushed(n, s, i, pool, n.itop)
    BY <1>1, <2>0, <2>7, <2>8, JoinedFacts
  <2>10. ASSUME NEW k \in Index
         PROVE  /\ pool[k].refcnt = n.pool[k].refcnt + (IF k = i THEN 1 ELSE 0)
                /\ pool[k].info = n.pool[k].info
    <3>1. n.pool[k].refcnt \in Nat
      BY <1>1, EntryFacts
    <3> QED
      BY <2>5, <2>7, <3>1
  <2>11. n.groups[s].want[Len(n.groups[s].members) + 1] # "none"
           => (IF i = -1 THEN "none" ELSE pool[i].info)
                = n.groups[s].want[Len(n.groups[s].members) + 1]
    BY <1>6, <2>5, <2>7 DEF InfoAt, i
  <2>12. Grown(n, Pushed(n, s, i, pool, n.itop), s)
    BY <1>1, <2>0, <2>7, <2>10, <2>11, GrownFacts
  <2> QED
    BY <1>2, <2>9, <2>12
<1> QED
  BY <1>5, <1>6

-----------------------------------------------------------------------------
(* Groups of one address that were not asked for.                          *)

LEMMA SlotOfInfosFacts ==
  ASSUME NEW n \in Table, NEW infos
  PROVE  LET old == SlotOfInfos(n, infos) IN
         \/ old = -1
         \/ /\ old \in Slot /\ n.groups[old].nhcnt # 0 /\ n.groups[old].nhcnt = Len(infos)
            /\ n.groups[old].nhid = 0 /\ InfosOf(n, old) = infos
<1> DEFINE hits == {s \in Slot \ FreeSlots(n) : /\ n.groups[s].nhcnt = Len(infos)
                                                /\ n.groups[s].nhid = 0
                                                /\ InfosOf(n, s) = infos}
<1>1. CASE hits = {}
  BY <1>1 DEF SlotOfInfos
<1>2. CASE hits # {}
  <2>1. hits \in SUBSET Nat
    BY Sizes
  <2>2. Min(hits) \in hits
    <3> HIDE DEF hits
    <3> QED
      BY <1>2, <2>1, MinIn
  <2>3. SlotOfInfos(n, infos) = Min(hits)
    BY <1>2 DEF SlotOfInfos
  <2> QED
    BY <2>2, <2>3 DEF FreeSlots
<1> QED
  BY <1>1, <1>2

\* What is in use stays, and what was free is whole.
Later(n, q) ==
  /\ Sound(q)
  /\ \A t \in Slot : n.groups[t].nhcnt # 0 => q.groups[t] = n.groups[t]
  /\ \A t \in Slot : n.groups[t].nhcnt = 0 => Whole(q, t)

LEMMA FreeIsWhole ==
  ASSUME NEW n, Sound(n), NEW t \in Slot, n.groups[t].nhcnt = 0
  PROVE  Whole(n, t)
<1>1. Len(n.groups[t].members) <= n.groups[t].nhcnt
  BY DEF Sound, Fits
<1>2. Len(n.groups[t].members) \in Nat
  BY GroupFacts DEF Sound
<1> QED
  BY <1>1, <1>2 DEF Whole

LEMMA StandaloneFacts ==
  ASSUME NEW n, Sound(n), NEW x \in Address
  PROVE  LET r == AddStandalone(n, x) IN
         /\ Later(n, r.n)
         /\ \/ r.slot = -1
            \/ /\ r.slot \in Slot /\ r.n.groups[r.slot].nhcnt = 1
               /\ Len(r.n.groups[r.slot].members) = 1
               /\ x # "none" => InfoAt(r.n, r.n.groups[r.slot].members[1]) = x
<1> DEFINE old == SlotOfInfos(n, <<x>>)
           c == Claim(n, 0, <<x>>)
           b == InlineMember(c, x)
           r == AddStandalone(n, x)
<1>1. n \in Table /\ <<x>> \in Seq(Address) /\ Len(<<x>>) = 1 /\ 1 <= MaxPaths
  BY Sizes DEF Sound
<1>2. \A t \in Slot : n.groups[t].nhcnt = 0 => Whole(n, t)
  BY FreeIsWhole
<1>3. CASE old # -1
  <2>1. r.n = n /\ r.slot = old
    BY <1>3 DEF AddStandalone
  <2>2. Later(n, n)
    BY <1>2 DEF Later
  <2>3. old \in Slot /\ n.groups[old].nhcnt = 1 /\ InfosOf(n, old) = <<x>>
    BY <1>1, <1>3, SlotOfInfosFacts
  <2> HIDE DEF old
  <2> DEFINE ms == n.groups[old].members
  <2>4. Len(ms) \in Nat /\ DOMAIN ms = 1 .. Len(ms)
    BY <1>1, <2>3, GroupFacts
  <2>5. InfosOf(n, old) = [j \in DOMAIN ms |-> InfoAt(n, ms[j])]
    BY DEF InfosOf
  <2> HIDE DEF ms
  <2>6. DOMAIN <<x>> = 1 .. 1 /\ <<x>>[1] = x
    OBVIOUS
  <2>7. 1 .. Len(ms) = 1 .. 1
    BY <2>3, <2>4, <2>5, <2>6
  <2>8. Len(ms) = 1
    BY <2>4, <2>7
  <2>9. InfoAt(n, ms[1]) = x
    BY <2>3, <2>4, <2>5, <2>6, <2>8
  <2> QED
    BY <2>1, <2>2, <2>3, <2>8, <2>9 DEF ms
<1>4. CASE old = -1
  <2>1. r = Finish(b)
    BY <1>4 DEF AddStandalone
  <2>2. \/ c.slot = -1 /\ c.n = n
        \/ /\ c.slot \in Slot /\ n.groups[c.slot].nhcnt = 0
           /\ Sound(c.n) /\ OnlySlot(n, c.n, c.slot)
           /\ c.n.groups[c.slot] = [nhid |-> 0, nhcnt |-> 1, members |-> <<>>,
                                    want |-> <<x>>]
    <3> DEFINE w == <<x>>
    <3>1. w \in Seq(Address) /\ Len(w) = 1 /\ Len(w) <= MaxPaths /\ 0 \in NhId \cup {0}
      BY <1>1
    <3> HIDE DEF w
    <3>2. Begun(n, 0, w, Claim(n, 0, w))
      BY <3>1, ClaimFacts
    <3> QED
      BY <3>1, <3>2 DEF Begun, w
  <2> HIDE DEF c, r
  <2>3. CASE c.slot = -1
    <3>1. b = c
      BY <2>3 DEF InlineMember
    <3>2. r = c /\ c.n = n
      BY <2>1, <2>2, <2>3, <3>1, Sizes DEF Finish
    <3>3. Later(n, n)
      BY <1>2 DEF Later
    <3> QED
      BY <2>3, <3>2, <3>3 DEF r
  <2>4. CASE c.slot # -1
    <3> DEFINE s == c.slot
    <3>1. /\ s \in Slot /\ n.groups[s].nhcnt = 0 /\ Sound(c.n) /\ OnlySlot(n, c.n, s)
          /\ c.n.groups[s].nhcnt = 1 /\ c.n.groups[s].members = <<>>
          /\ c.n.groups[s].want = <<x>>
      BY <1>1, <2>2, <2>4
    <3>2. \/ b.slot = -1 /\ Gone(c.n, b.n, s)
          \/ b.slot = s /\ Grown(c.n, b.n, s)
      <4>1. Len(c.n.groups[s].members) < c.n.groups[s].nhcnt
            /\ c.n.groups[s].want[Len(c.n.groups[s].members) + 1] = x
        BY <3>1
      <4> QED
        BY <3>1, <4>1, InlineFacts
    <3> HIDE DEF b
    <3>3. CASE b.slot = -1
      <4>1. Gone(c.n, b.n, s) /\ r = b
        BY <2>1, <3>1, <3>2, <3>3, Sizes DEF Finish
      <4>2. \A t \in Slot : t # s => b.n.groups[t] = n.groups[t]
        BY <3>1, <4>1 DEF Gone, OnlySlot
      <4>3. Sound(b.n) /\ b.n.groups[s].nhcnt = 0
        BY <4>1 DEF Gone, FreeGroup
      <4>4. \A t \in Slot : b.n.groups[t].nhcnt = 0 => Whole(b.n, t)
        BY <4>3, FreeIsWhole
      <4>5. Later(n, b.n)
        BY <3>1, <4>2, <4>3, <4>4 DEF Later
      <4> QED
        BY <3>3, <4>1, <4>5 DEF r
    <3>4. CASE b.slot # -1
      <4>1. b.slot = s /\ Grown(c.n, b.n, s) /\ r = [n |-> Hint(b.n, s), slot |-> s]
        BY <2>1, <3>2, <3>4 DEF Finish
      <4>2. \A t \in Slot : t # s => b.n.groups[t] = n.groups[t]
        BY <3>1, <4>1 DEF Grown, OnlySlot
      <4>3. /\ Sound(b.n) /\ b.n.groups[s].nhcnt = 1 /\ Len(b.n.groups[s].members) = 1
            /\ b.n.groups[s].want = <<x>>
        BY <3>1, <4>1 DEF Grown
      <4>4. /\ Sound(r.n) /\ r.n.groups = b.n.groups /\ r.slot = s
        BY <3>1, <4>1, <4>3, HintFacts
      <4>5. \A t \in Slot : r.n.groups[t].nhcnt = 0 => Whole(r.n, t)
        BY <4>4, FreeIsWhole
      <4>6. Whole(r.n, s)
        BY <4>3, <4>4 DEF Whole
      <4>7. Later(n, r.n)
        BY <3>1, <4>2, <4>4, <4>5, <4>6 DEF Later
      <4>8. x # "none" => InfoAt(r.n, r.n.groups[s].members[1]) = x
        <5>1. Fits(r.n, s)
          BY <3>1, <4>4 DEF Sound
        <5>2. 1 \in 1 .. Len(r.n.groups[s].members)
          BY <4>3, <4>4
        <5>3. r.n.groups[s].want = <<x>> /\ <<x>>[1] = x
          BY <4>3, <4>4
        <5> QED
          BY <5>1, <5>2, <5>3 DEF Fits
      <4> QED
        BY <3>1, <4>3, <4>4, <4>7, <4>8 DEF r
    <3> QED
      BY <3>3, <3>4
  <2> QED
    BY <2>3, <2>4
<1> QED
  BY <1>3, <1>4

-----------------------------------------------------------------------------
(* A new group, member by member.                                          *)

\* k members of the group are filled in, or it has been given up.
Building(acc, id, want, k) ==
  /\ acc = [n |-> acc.n, slot |-> acc.slot]
  /\ Sound(acc.n)
  /\ \A t \in Slot : nh.groups[t].nhcnt # 0 => acc.n.groups[t] = nh.groups[t]
  /\ \A t \in Slot : t # acc.slot => Whole(acc.n, t)
  /\ \/ acc.slot = -1
     \/ /\ acc.slot \in Slot /\ nh.groups[acc.slot].nhcnt = 0
        /\ acc.n.groups[acc.slot].nhid = id /\ acc.n.groups[acc.slot].want = want
        /\ Len(acc.n.groups[acc.slot].members) = k

LEMMA BuildingFacts ==
  ASSUME NEW acc, NEW id, NEW want, NEW k, Building(acc, id, want, k), acc.slot # -1
  PROVE  /\ acc.slot \in Slot /\ Sound(acc.n)
         /\ acc.n.groups[acc.slot].nhcnt = Len(want)
         /\ acc.n.groups[acc.slot].want = want
         /\ Len(acc.n.groups[acc.slot].members) = k
<1>1. /\ acc.slot \in Slot /\ Sound(acc.n)
      /\ acc.n.groups[acc.slot].want = want
      /\ Len(acc.n.groups[acc.slot].members) = k
  BY DEF Building
<1>2. acc.n.groups[acc.slot].nhcnt = Len(acc.n.groups[acc.slot].want)
  BY <1>1 DEF Sound, Fits
<1> QED
  BY <1>1, <1>2

LEMMA GrownBuilds ==
  ASSUME NEW acc, NEW id, NEW want, NEW k, Building(acc, id, want, k), acc.slot # -1,
         NEW r, r = [n |-> r.n, slot |-> r.slot], r.slot = acc.slot,
         Grown(acc.n, r.n, acc.slot)
  PROVE  Building(r, id, want, k + 1)
<1>1. \A t \in Slot : t # acc.slot => r.n.groups[t] = acc.n.groups[t]
  BY DEF Grown, OnlySlot
<1>2. \A t \in Slot : t # r.slot => Whole(r.n, t)
  BY <1>1 DEF Building, Whole
<1>3. \A t \in Slot : nh.groups[t].nhcnt # 0 => r.n.groups[t] = nh.groups[t]
  BY <1>1 DEF Building
<1> QED
  BY <1>2, <1>3 DEF Building, Grown

LEMMA GoneBuilds ==
  ASSUME NEW acc, NEW id, NEW want, NEW k, Building(acc, id, want, k), acc.slot # -1,
         NEW r, r = [n |-> r.n, slot |-> r.slot], r.slot = -1,
         Gone(acc.n, r.n, acc.slot)
  PROVE  Building(r, id, want, k + 1)
<1>1. \A t \in Slot : t # acc.slot => r.n.groups[t] = acc.n.groups[t]
  BY DEF Gone, OnlySlot
<1>2. Whole(r.n, acc.slot)
  <2>1. r.n.groups[acc.slot] = FreeGroup
    BY DEF Gone
  <2> QED
    BY <2>1 DEF Whole, FreeGroup
<1>3. \A t \in Slot : Whole(r.n, t)
  BY <1>1, <1>2 DEF Building, Whole
<1>4. \A t \in Slot : nh.groups[t].nhcnt # 0 => r.n.groups[t] = nh.groups[t]
  BY <1>1 DEF Building
<1> QED
  BY <1>3, <1>4 DEF Building, Gone

LEMMA InlineBuilds ==
  ASSUME NEW acc, NEW id, NEW want, NEW k \in Nat, Building(acc, id, want, k),
         want \in Seq(Address), k < Len(want)
  PROVE  Building(InlineMember(acc, want[k + 1]), id, want, k + 1)
<1> DEFINE x == want[k + 1]
           r == InlineMember(acc, x)
<1>1. x \in Address
  <2>1. Len(want) \in Nat /\ k + 1 \in 1 .. Len(want)
    OBVIOUS
  <2> QED
    BY <2>1
<1>2. CASE acc.slot = -1
  <2>1. r = acc
    BY <1>2 DEF InlineMember
  <2> QED
    BY <1>2, <2>1, Sizes DEF Building
<1>3. CASE acc.slot # -1
  <2>1. /\ acc.slot \in Slot /\ Sound(acc.n)
        /\ acc.n.groups[acc.slot].nhcnt = Len(want)
        /\ acc.n.groups[acc.slot].want = want
        /\ Len(acc.n.groups[acc.slot].members) = k
    BY <1>3, BuildingFacts
  <2>2. \/ r.slot = -1 /\ Gone(acc.n, r.n, acc.slot)
        \/ r.slot = acc.slot /\ Grown(acc.n, r.n, acc.slot)
    BY <1>1, <2>1, InlineFacts
  <2>3. r = [n |-> r.n, slot |-> r.slot]
    BY <1>3 DEF InlineMember, Failed
  <2> HIDE DEF r
  <2> QED
    BY <1>3, <2>2, <2>3, GoneBuilds, GrownBuilds DEF r
<1> QED
  BY <1>2, <1>3

LEMMA EcmpBuilds ==
  ASSUME NEW acc, NEW id, NEW want, NEW k \in Nat, Building(acc, id, want, k),
         want \in Seq(Address), k < Len(want), Len(want) > 1
  PROVE  Building(EcmpMember(acc, want[k + 1]), id, want, k + 1)
<1> DEFINE x == want[k + 1]
           r == EcmpMember(acc, x)
           own == AddStandalone(acc.n, x)
           s == acc.slot
<1>1. x \in Address /\ Len(want) \in Nat
  <2>1. Len(want) \in Nat /\ k + 1 \in 1 .. Len(want)
    OBVIOUS
  <2> QED
    BY <2>1
<1>2. CASE s = -1
  <2>1. r = acc
    BY <1>2 DEF EcmpMember
  <2> QED
    BY <1>2, <2>1 DEF Building
<1>3. CASE s # -1
  <2>1. /\ s \in Slot /\ Sound(acc.n)
        /\ acc.n.groups[s].nhcnt = Len(want) /\ acc.n.groups[s].want = want
        /\ Len(acc.n.groups[s].members) = k
    BY <1>3, BuildingFacts
  <2>2. /\ Later(acc.n, own.n)
        /\ \/ own.slot = -1
           \/ /\ own.slot \in Slot /\ own.n.groups[own.slot].nhcnt = 1
              /\ Len(own.n.groups[own.slot].members) = 1
              /\ x # "none" => InfoAt(own.n, own.n.groups[own.slot].members[1]) = x
    BY <1>1, <2>1, StandaloneFacts
  <2> DEFINE m == [n |-> own.n, slot |-> s]
  <2>3. /\ own.slot = -1 => r = Failed(FreeSlot(own.n, s))
        /\ own.slot # -1 => r = SharedMember(m, own.slot)
    BY <1>3 DEF EcmpMember
  <2> HIDE DEF own
  <2>4. m.n = own.n /\ m.slot = s /\ m = [n |-> m.n, slot |-> m.slot]
    OBVIOUS
  <2> HIDE DEF m
  <2>5. own.n.groups[s] = acc.n.groups[s] /\ Sound(own.n)
    BY <1>1, <2>1, <2>2 DEF Later
  <2>6. ASSUME NEW t \in Slot, t # s PROVE Whole(own.n, t)
    <3>1. CASE acc.n.groups[t].nhcnt # 0
      BY <2>2, <2>6, <3>1 DEF Later, Building, Whole
    <3>2. CASE acc.n.groups[t].nhcnt = 0
      BY <2>2, <3>2 DEF Later
    <3> QED
      BY <3>1, <3>2
  <2>7. ASSUME NEW t \in Slot, nh.groups[t].nhcnt # 0
        PROVE  own.n.groups[t] = nh.groups[t]
    <3>1. acc.n.groups[t] = nh.groups[t]
      BY <2>7 DEF Building
    <3> QED
      BY <2>2, <2>7, <3>1 DEF Later
  <2>8. Building(m, id, want, k)
    <3>1. nh.groups[s].nhcnt = 0 /\ acc.n.groups[s].nhid = id
      BY <1>3 DEF Building
    <3> QED
      BY <2>1, <2>4, <2>5, <2>6, <2>7, <3>1 DEF Building
  <2>9. CASE own.slot = -1
    <3>1. r.slot = -1 /\ r.n = FreeSlot(own.n, s) /\ r = [n |-> r.n, slot |-> r.slot]
      BY <2>3, <2>9 DEF Failed
    <3>2. Gone(own.n, r.n, s)
      BY <2>1, <2>5, <3>1, FreeSlotFacts DEF Gone, OnlySlot
    <3> HIDE DEF r
    <3> QED
      BY <1>3, <2>4, <2>8, <3>1, <3>2, GoneBuilds DEF r
  <2>10. CASE own.slot # -1
    <3>1. r = SharedMember(m, own.slot)
      BY <2>3, <2>10
    <3>2. r = [n |-> r.n, slot |-> r.slot]
      BY <3>1 DEF SharedMember
    <3>3. /\ own.slot \in Slot
          /\ x # "none" => InfoAt(m.n, FirstMember(m.n.groups[own.slot])) = x
      <4>1. own.n.groups[own.slot].members # <<>>
        <5> DEFINE ms == own.n.groups[own.slot].members
        <5>1. Len(ms) = 1
          BY <2>2, <2>10
        <5>2. Len(<<>>) # 1
          OBVIOUS
        <5> HIDE DEF ms
        <5>3. ms # <<>>
          BY <5>1, <5>2, Zenon
        <5> QED
          BY <5>3 DEF ms
      <4> QED
        BY <2>2, <2>4, <2>10, <4>1 DEF FirstMember
    <3>4. /\ Sound(m.n) /\ m.slot \in Slot
          /\ Len(m.n.groups[m.slot].members) < m.n.groups[m.slot].nhcnt
          /\ m.n.groups[m.slot].want[Len(m.n.groups[m.slot].members) + 1] = x
      BY <2>1, <2>4, <2>5
    <3> HIDE DEF r, x
    <3>5. r.slot = m.slot /\ Grown(m.n, r.n, m.slot)
      BY <3>1, <3>3, <3>4, SharedFacts
    <3> QED
      BY <1>3, <2>4, <2>8, <3>2, <3>5, GrownBuilds DEF r, x
  <2> QED
    BY <2>9, <2>10
<1> QED
  BY <1>2, <1>3

\* A known id leads to a group that is complete.
LEMMA NhidFacts ==
  ASSUME NexthopInv, NEW id \in NhId
  PROVE  LET r == SlotOfNhid(nh_ht, id) IN
         \/ r = -1
         \/ /\ id \in DOMAIN nh_ht /\ r = nh_ht[id] /\ r \in Slot
            /\ ~bare => nh.groups[r].nhid = id
            /\ nh.groups[r].nhcnt \in Nat
            /\ Len(nh.groups[r].members) = nh.groups[r].nhcnt
<1> DEFINE r == SlotOfNhid(nh_ht, id)
<1>1. CASE r # -1
  <2>1. id \in DOMAIN nh_ht /\ r = nh_ht[id]
    BY <1>1 DEF SlotOfNhid
  <2> HIDE DEF r
  <2>2. /\ r \in Slot /\ (~bare => nh.groups[r].nhid = id)
        /\ Whole(nh, r) /\ nh \in Table
    BY <2>1 DEF NexthopInv, HashedIsGroup, Sound
  <2>3. nh.groups[r].nhcnt \in Nat
    BY <2>2, GroupFacts
  <2> QED
    BY <2>1, <2>2, <2>3 DEF Whole, r
<1> QED
  BY <1>1

\* What a member of a kernel group shares is what was meant.
LEMMA NhidInfo ==
  ASSUME NexthopInv, NEW id \in NhId
  PROVE  LET r == SlotOfNhid(nh_ht, id)
             x == InfoOfNhid(nh, id)
         IN  /\ x \in Address
             /\ x # "none" => /\ r \in Slot /\ nh.groups[r].nhcnt \in Nat \ {0}
                             /\ x = nh.groups[r].want[1]
<1> DEFINE r == SlotOfNhid(nh_ht, id)
           x == InfoOfNhid(nh, id)
<1>1. CASE r = -1 \/ r \in FreeSlots(nh)
  BY <1>1 DEF InfoOfNhid, Address
<1>2. CASE ~(r = -1 \/ r \in FreeSlots(nh))
  <2>1. r \in Slot /\ nh.groups[r].nhcnt \in Nat \ {0}
    BY <1>2, NhidFacts DEF FreeSlots
  <2>2. x = nh.groups[r].want[1]
    BY <1>2 DEF InfoOfNhid
  <2> HIDE DEF r, x
  <2> DEFINE w == nh.groups[r].want
  <2>3. nh \in Table /\ Fits(nh, r)
    BY <2>1 DEF NexthopInv, Sound
  <2>4. w \in Seq(Address) /\ Len(w) = nh.groups[r].nhcnt
    BY <2>1, <2>3, GroupFacts DEF Fits
  <2>5. w[1] \in Address
    <3> HIDE DEF w
    <3>1. 1 \in 1 .. Len(w)
      BY <2>1, <2>4
    <3> QED
      BY <2>4, <3>1
  <2> QED
    BY <2>1, <2>2, <2>5 DEF r, x
<1> QED
  BY <1>1, <1>2

LEMMA RefBuilds ==
  ASSUME NexthopInv, NEW acc, NEW id, NEW want, NEW k \in Nat, Building(acc, id, want, k),
         want \in Seq(Address), k < Len(want),
         NEW ref \in NhId, want[k + 1] = InfoOfNhid(nh, ref)
  PROVE  Building(RefMember(acc, ref), id, want, k + 1)
<1> DEFINE r == SlotOfNhid(nh_ht, ref)
           q == RefMember(acc, ref)
<1>1. CASE acc.slot = -1
  <2>1. q = acc
    BY <1>1 DEF RefMember
  <2> QED
    BY <1>1, <2>1 DEF Building
<1>2. CASE acc.slot # -1
  <2>1. /\ acc.slot \in Slot /\ Sound(acc.n)
        /\ acc.n.groups[acc.slot].nhcnt = Len(want)
        /\ acc.n.groups[acc.slot].want = want
        /\ Len(acc.n.groups[acc.slot].members) = k
    BY <1>2, BuildingFacts
  <2>2. CASE r = -1
    <3>1. q = [n |-> Joined(acc.n, acc.slot, -1), slot |-> acc.slot]
      BY <1>2, <2>2 DEF RefMember
    <3>2. want[k + 1] = "none"
      BY <2>2 DEF InfoOfNhid
    <3>3. Grown(acc.n, Joined(acc.n, acc.slot, -1), acc.slot)
      BY <2>1, <3>2, UnresolvedFacts
    <3>4. q.slot = acc.slot /\ q.n = Joined(acc.n, acc.slot, -1)
          /\ q = [n |-> q.n, slot |-> q.slot]
      BY <3>1
    <3> HIDE DEF q
    <3> QED
      BY <1>2, <3>3, <3>4, GrownBuilds DEF q
  <2>3. CASE r # -1
    <3>1. q = SharedMember(acc, r)
      BY <1>2, <2>3 DEF RefMember
    <3>2. q = [n |-> q.n, slot |-> q.slot]
      BY <3>1 DEF SharedMember
    <3>3. r \in Slot /\ Len(nh.groups[r].members) = nh.groups[r].nhcnt
      BY <2>3, NhidFacts
    <3>4. want[k + 1] # "none" => /\ nh.groups[r].nhcnt \in Nat \ {0}
                                  /\ want[k + 1] = nh.groups[r].want[1]
      BY NhidInfo
    <3> HIDE DEF r, q
    <3>5. ASSUME want[k + 1] # "none"
          PROVE  InfoAt(acc.n, FirstMember(acc.n.groups[r])) = want[k + 1]
      <4>1. acc.n.groups[r] = nh.groups[r]
        BY <3>3, <3>4, <3>5 DEF Building
      <4>2. Fits(acc.n, r)
        BY <2>1, <3>3 DEF Sound
      <4>3. /\ 1 \in 1 .. Len(acc.n.groups[r].members)
            /\ acc.n.groups[r].members # <<>>
        BY <3>3, <3>4, <3>5, <4>1
      <4> QED
        BY <3>4, <3>5, <4>1, <4>2, <4>3 DEF Fits, FirstMember
    <3>6. q.slot = acc.slot /\ Grown(acc.n, q.n, acc.slot)
      <4>1. /\ Len(acc.n.groups[acc.slot].members) < acc.n.groups[acc.slot].nhcnt
            /\ want[k + 1] = acc.n.groups[acc.slot].want[Len(acc.n.groups[acc.slot].members) + 1]
        BY <2>1
      <4> QED
        BY <2>1, <3>1, <3>3, <3>5, <4>1, SharedFacts
    <3> QED
      BY <1>2, <3>2, <3>6, GrownBuilds DEF q
  <2> QED
    BY <2>2, <2>3
<1> QED
  BY <1>1, <1>2

\* The messages that rib_manager gets.
Message(id, infos, refs) ==
  /\ id \in NhId \cup {0}
  /\ infos \in Seq(Info) /\ Len(infos) <= MaxPaths
  /\ refs \in Seq(NhId) /\ Len(refs) <= MaxPaths
  /\ refs # <<>> => id # 0

LEMMA WantedFacts ==
  ASSUME NexthopInv, NEW id, NEW infos, NEW refs, Message(id, infos, refs)
  PROVE  LET want == Wanted(nh, infos, refs) IN
         /\ want \in Seq(Address) /\ Len(want) \in Nat /\ Len(want) <= MaxPaths
         /\ refs # <<>> => /\ Len(want) = Len(refs)
                           /\ \A j \in 1 .. Len(refs) : want[j] = InfoOfNhid(nh, refs[j])
         /\ refs = <<>> => want = infos
<1> DEFINE want == Wanted(nh, infos, refs)
<1>1. CASE refs = <<>>
  <2>1. want = infos
    BY <1>1 DEF Wanted
  <2>2. infos \in Seq(Address)
    <3>1. infos \in Seq(Info) /\ Info \subseteq Address
      BY DEF Message, Address
    <3> QED
      BY <3>1
  <2> HIDE DEF want
  <2> QED
    BY <1>1, <2>1, <2>2 DEF Message, want
<1>2. CASE refs # <<>>
  <2>1. /\ refs \in Seq(NhId) /\ Len(refs) \in Nat /\ DOMAIN refs = 1 .. Len(refs)
        /\ Len(refs) # 0 /\ \A j \in 1 .. Len(refs) : refs[j] \in NhId
    BY <1>2 DEF Message
  <2>2. want = [j \in 1 .. Len(refs) |-> InfoOfNhid(nh, refs[j])]
    BY <1>2, <2>1 DEF Wanted
  <2>3. ASSUME NEW j \in 1 .. Len(refs) PROVE InfoOfNhid(nh, refs[j]) \in Address
    <3>1. refs[j] \in NhId
      BY <2>1
    <3> QED
      BY <3>1, NhidInfo
  <2> HIDE DEF want
  <2>4. want \in [1 .. Len(refs) -> Address]
    BY <2>2, <2>3
  <2>5. want \in Seq(Address) /\ Len(want) = Len(refs)
    BY <2>1, <2>4
  <2>6. \A j \in 1 .. Len(refs) : want[j] = InfoOfNhid(nh, refs[j])
    BY <2>2
  <2> QED
    BY <1>2, <2>1, <2>5, <2>6 DEF Message, want
<1> QED
  BY <1>1, <1>2

LEMMA ClaimBuilds ==
  ASSUME NexthopInv, NEW id \in NhId \cup {0}, NEW want \in Seq(Address),
         Len(want) <= MaxPaths
  PROVE  Building(Claim(nh, id, want), id, want, 0)
<1> DEFINE c == Claim(nh, id, want)
<1>1. Sound(nh) /\ \A t \in Slot : Whole(nh, t)
  BY DEF NexthopInv
<1>2. Begun(nh, id, want, c)
  BY <1>1, ClaimFacts
<1>3. c = [n |-> c.n, slot |-> c.slot]
  BY DEF Claim, Failed
<1> HIDE DEF c
<1>4. CASE c.slot = -1
  <2>1. c.n = nh
    BY <1>2, <1>4, Sizes DEF Begun
  <2> QED
    BY <1>1, <1>3, <1>4, <2>1 DEF Building, c
<1>5. CASE c.slot # -1
  <2>1. /\ c.slot \in Slot /\ nh.groups[c.slot].nhcnt = 0
        /\ Sound(c.n) /\ OnlySlot(nh, c.n, c.slot)
        /\ c.n.groups[c.slot] = [nhid |-> id, nhcnt |-> Len(want), members |-> <<>>,
                                 want |-> want]
    BY <1>2, <1>5 DEF Begun
  <2>2. \A t \in Slot : t # c.slot => c.n.groups[t] = nh.groups[t]
    BY <2>1 DEF OnlySlot
  <2>3. \A t \in Slot : t # c.slot => Whole(c.n, t)
    BY <1>1, <2>2 DEF Whole
  <2>4. /\ c.n.groups[c.slot].nhid = id /\ c.n.groups[c.slot].want = want
        /\ Len(c.n.groups[c.slot].members) = 0
    BY <2>1
  <2> QED
    BY <1>3, <2>1, <2>2, <2>3, <2>4 DEF Building, c
<1> QED
  BY <1>4, <1>5

LEMMA MemberBuilds ==
  ASSUME NexthopInv, NEW id, NEW infos, NEW refs, Message(id, infos, refs),
         NEW k \in 1 .. Len(Wanted(nh, infos, refs)), NEW acc,
         Building(acc, id, Wanted(nh, infos, refs), k - 1)
  PROVE  Building(Member(acc, id, infos, refs, k), id, Wanted(nh, infos, refs), k)
<1> DEFINE want == Wanted(nh, infos, refs)
           l == k - 1
<1>1. /\ want \in Seq(Address) /\ Len(want) \in Nat
      /\ refs # <<>> => /\ Len(want) = Len(refs)
                        /\ \A j \in 1 .. Len(refs) : want[j] = InfoOfNhid(nh, refs[j])
      /\ refs = <<>> => want = infos
  BY WantedFacts
<1> HIDE DEF want
<1>2. l \in Nat /\ l < Len(want) /\ l + 1 = k /\ k \in 1 .. Len(want)
  BY <1>1 DEF want
<1>3. Building(acc, id, want, l)
  BY DEF want
<1> HIDE DEF l
<1>4. CASE refs # <<>>
  <2>1. Member(acc, id, infos, refs, k) = RefMember(acc, refs[k])
    BY <1>4 DEF Member
  <2>2. refs[k] \in NhId /\ want[k] = InfoOfNhid(nh, refs[k])
    BY <1>1, <1>2, <1>4 DEF Message
  <2>3. Building(RefMember(acc, refs[k]), id, want, l + 1)
    BY <1>1, <1>2, <1>3, <2>2, RefBuilds
  <2> QED
    BY <1>2, <2>1, <2>3 DEF want
<1>5. CASE refs = <<>> /\ id = 0 /\ Len(infos) > 1
  <2>1. Member(acc, id, infos, refs, k) = EcmpMember(acc, want[l + 1])
    BY <1>1, <1>2, <1>5 DEF Member
  <2>2. Building(EcmpMember(acc, want[l + 1]), id, want, l + 1)
    BY <1>1, <1>2, <1>3, <1>5, EcmpBuilds
  <2> QED
    BY <1>2, <2>1, <2>2 DEF want
<1>6. CASE refs = <<>> /\ ~(id = 0 /\ Len(infos) > 1)
  <2>1. Member(acc, id, infos, refs, k) = InlineMember(acc, want[l + 1])
    BY <1>1, <1>2, <1>6 DEF Member
  <2>2. Building(InlineMember(acc, want[l + 1]), id, want, l + 1)
    BY <1>1, <1>2, <1>3, InlineBuilds
  <2> QED
    BY <1>2, <2>1, <2>2 DEF want
<1> QED
  BY <1>4, <1>5, <1>6

LEMMA NewGroupFacts ==
  ASSUME NexthopInv, NEW id, NEW infos, NEW refs, Message(id, infos, refs)
  PROVE  LET want == Wanted(nh, infos, refs)
         IN  Building(NewGroup(nh, id, infos, refs), id, want, Len(want))
<1> DEFINE want == Wanted(nh, infos, refs)
           len == Len(want)
           Acc == [n : Table, slot : Slot \cup {-1}]
           first == Claim(nh, id, want)
           Body(f) == [k \in 0 .. len |->
                         IF k = 0 THEN first ELSE Member(f[k - 1], id, infos, refs, k)]
           run == CHOOSE f : f = Body(f)
           step == [p \in Nat \X Acc |->
                      IF p[1] \in 1 .. len /\ Building(p[2], id, want, p[1] - 1)
                      THEN Member(p[2], id, infos, refs, p[1]) ELSE p[2]]
<1>1. /\ want \in Seq(Address) /\ len \in Nat /\ len <= MaxPaths
      /\ id \in NhId \cup {0}
  BY WantedFacts DEF Message
<1>2. NewGroup(nh, id, infos, refs) = run[len]
  BY Zenon DEF NewGroup
<1>3. Building(first, id, want, 0)
  <2> HIDE DEF want
  <2> QED
    BY <1>1, ClaimBuilds
<1>4. ASSUME NEW acc, NEW k \in 1 .. len, Building(acc, id, want, k - 1)
      PROVE  Building(Member(acc, id, infos, refs, k), id, want, k)
  BY <1>4, MemberBuilds
<1> HIDE DEF want, len, first
<1>5. ASSUME NEW acc, NEW k, Building(acc, id, want, k) PROVE acc \in Acc
  <2>1. acc.n \in Table /\ acc.slot \in Slot \cup {-1} /\ acc = [n |-> acc.n, slot |-> acc.slot]
    BY <1>5 DEF Building, Sound
  <2> QED
    BY <2>1
<1> HIDE DEF Acc
<1>6. step \in [Nat \X Acc -> Acc]
  <2> SUFFICES ASSUME NEW p \in Nat \X Acc
               PROVE  (IF p[1] \in 1 .. len /\ Building(p[2], id, want, p[1] - 1)
                       THEN Member(p[2], id, infos, refs, p[1]) ELSE p[2]) \in Acc
    OBVIOUS
  <2>1. CASE p[1] \in 1 .. len /\ Building(p[2], id, want, p[1] - 1)
    <3>1. Building(Member(p[2], id, infos, refs, p[1]), id, want, p[1])
      BY <1>4, <2>1
    <3> QED
      BY <1>5, <2>1, <3>1
  <2> QED
    BY <2>1
<1>7. ASSUME NEW k \in 1 .. len, NEW acc \in Acc, Building(acc, id, want, k - 1)
      PROVE  step[<<k, acc>>] = Member(acc, id, infos, refs, k)
  <2>1. <<k, acc>> \in Nat \X Acc
    BY <1>1
  <2> QED
    BY <1>7, <2>1
<1> HIDE DEF step
<1>8. PICK f : IsRun(f, first, step, Acc, len)
  BY <1>1, <1>3, <1>5, <1>6, RunExists
<1> DEFINE Fine == {p \in Nat \X Acc : Building(p[2], id, want, p[1])}
<1>9. ASSUME NEW r, r[0] = first,
             \A k \in 1 .. len : Building(r[k - 1], id, want, k - 1)
                                   => r[k] = Member(r[k - 1], id, infos, refs, k)
      PROVE  \A k \in 0 .. len : Building(r[k], id, want, k)
  <2> DEFINE h == [k \in 0 .. len |-> <<k, r[k]>>]
  <2>1. h[0] \in Fine
    <3>1. h[0] = <<0, first>>
      BY <1>1, <1>9
    <3>2. <<0, first>> \in Nat \X Acc
      BY <1>3, <1>5
    <3> QED
      BY <1>3, <3>1, <3>2
  <2>2. ASSUME NEW k \in 1 .. len, h[k - 1] \in Fine
        PROVE  h[k] \in Fine
    <3>1. k \in Nat /\ k - 1 \in Nat /\ k - 1 \in 0 .. len /\ k \in 0 .. len
      BY <1>1
    <3>2. Building(r[k - 1], id, want, k - 1)
      BY <2>2, <3>1
    <3>3. Building(r[k], id, want, k)
      BY <1>4, <1>9, <3>2
    <3>4. h[k] = <<k, r[k]>> /\ <<k, r[k]>> \in Nat \X Acc
      BY <1>5, <3>1, <3>3
    <3> QED
      BY <3>3, <3>4
  <2>3. \A k \in 0 .. len : h[k] \in Fine
    <3> HIDE DEF h, Fine
    <3> QED
      BY <1>1, <2>1, <2>2, RunInduction
  <2> SUFFICES ASSUME NEW k \in 0 .. len PROVE Building(r[k], id, want, k)
    OBVIOUS
  <2>4. <<k, r[k]>> \in Fine
    BY <2>3
  <2> QED
    BY <2>4
<1> HIDE DEF Fine
<1>10. f = Body(f)
  <2>1. f \in [0 .. len -> Acc] /\ f[0] = first
    BY <1>8 DEF IsRun
  <2>2. ASSUME NEW k \in 1 .. len, Building(f[k - 1], id, want, k - 1)
        PROVE  f[k] = Member(f[k - 1], id, infos, refs, k)
    <3>1. f[k] = step[<<k, f[k - 1]>>] /\ f[k - 1] \in Acc
      BY <1>5, <1>8, <2>2 DEF IsRun
    <3> QED
      BY <1>7, <2>2, <3>1
  <2>3. \A k \in 0 .. len : Building(f[k], id, want, k)
    BY <1>9, <2>1, <2>2
  <2>4. ASSUME NEW k \in 0 .. len
        PROVE  f[k] = IF k = 0 THEN first ELSE Member(f[k - 1], id, infos, refs, k)
    <3>1. k # 0 => k \in 1 .. len /\ k - 1 \in 0 .. len
      BY <1>1
    <3> QED
      BY <2>1, <2>2, <2>3, <3>1
  <2> QED
    BY <2>1, <2>4
<1>11. run = Body(run)
  <2>1. \E h : h = Body(h)
    BY <1>10
  <2> QED
    BY <2>1, Zenon
<1> HIDE DEF run
<1>12. /\ run[0] = first
       /\ \A k \in 1 .. len : run[k] = Member(run[k - 1], id, infos, refs, k)
  <2>1. \A k \in 0 .. len : run[k] = IF k = 0 THEN first
                                     ELSE Member(run[k - 1], id, infos, refs, k)
    BY <1>11
  <2>2. 0 \in 0 .. len /\ \A k \in 1 .. len : k \in 0 .. len /\ k # 0
    BY <1>1
  <2> QED
    BY <2>1, <2>2
<1>13. \A k \in 0 .. len : Building(run[k], id, want, k)
  BY <1>9, <1>12
<1>14. len \in 0 .. len
  BY <1>1
<1> QED
  BY <1>2, <1>13, <1>14 DEF want, len

-----------------------------------------------------------------------------
(* Whole operations.                                                       *)

\* The tables between two steps; with b an id may lead to any slot.
Tabled(n, ht, b) ==
  /\ Sound(n) /\ \A s \in Slot : Whole(n, s)
  /\ DOMAIN ht \subseteq NhId
  /\ \A k \in DOMAIN ht : ht[k] \in Slot
  /\ ~b => \A k \in DOMAIN ht : n.groups[ht[k]].nhcnt # 0 /\ n.groups[ht[k]].nhid = k

\* The tables as they are, and any with the groups of the ids in them.
LEMMA TabledFacts ==
  ASSUME NexthopInv
  PROVE  /\ Tabled(nh, nh_ht, bare)
         /\ \A k \in DOMAIN nh_ht : /\ k \in NhId /\ k # 0 /\ nh_ht[k] \in Slot
                                    /\ ~bare => /\ nh.groups[nh_ht[k]].nhid = k
                                                /\ nh.groups[nh_ht[k]].nhcnt # 0
<1>1. Tabled(nh, nh_ht, bare)
  BY DEF Tabled, NexthopInv, HashedIsGroup, InUse, FreeSlots
<1>2. 0 \notin NhId
  BY IdAssumption
<1> QED
  BY <1>1, <1>2 DEF Tabled

\* The group that an operation finds.
Found(id, infos) == IF id # 0 THEN SlotOfNhid(nh_ht, id) ELSE SlotOfInfos(nh, infos)

LEMMA FoundFacts ==
  ASSUME NexthopInv, NEW id \in NhId \cup {0}, NEW infos
  PROVE  LET s == Found(id, infos) IN
         s = -1 \/ (s \in Slot /\ (~bare => nh.groups[s].nhid = id))
<1>1. CASE id # 0
  BY <1>1, NhidFacts DEF Found
<1>2. CASE id = 0
  <2>1. nh \in Table
    BY DEF NexthopInv, Sound
  <2> QED
    BY <1>2, <2>1, SlotOfInfosFacts DEF Found
<1> QED
  BY <1>1, <1>2

\* nexthop_del_entry
LEMMA DelEntryFacts ==
  ASSUME NexthopInv, NEW id \in NhId \cup {0}, NEW infos
  PROVE  Tabled(DelEntry(id, infos).n, DelEntry(id, infos).ht, bare)
<1> DEFINE s == Found(id, infos)
           q == FreeSlot(nh, s)
           ht == IF id # 0 THEN Without(nh_ht, id) ELSE nh_ht
<1>1. DelEntry(id, infos) = IF s = -1 THEN [n |-> nh, slot |-> -1, ht |-> nh_ht]
                            ELSE [n |-> q, slot |-> s, ht |-> ht]
  BY DEF DelEntry, Found
<1>2. s = -1 \/ (s \in Slot /\ (~bare => nh.groups[s].nhid = id))
  BY FoundFacts
<1> HIDE DEF s
<1>3. CASE s = -1
  BY <1>1, <1>3, TabledFacts
<1>4. CASE s # -1
  <2>1. /\ Sound(q) /\ q.groups[s] = FreeGroup
        /\ \A t \in Slot : t # s => q.groups[t] = nh.groups[t]
    BY <1>2, <1>4, FreeSlotFacts DEF NexthopInv
  <2>2. \A t \in Slot : Whole(q, t)
    <3>1. Whole(q, s)
      BY <2>1 DEF Whole, FreeGroup
    <3>2. \A t \in Slot : t # s => Whole(q, t)
      BY <2>1 DEF Whole, NexthopInv
    <3> QED
      BY <3>1, <3>2
  <2>3. /\ DOMAIN ht \subseteq DOMAIN nh_ht
        /\ \A k \in DOMAIN ht : ht[k] = nh_ht[k] /\ k # id
    <3>1. CASE id # 0
      BY <3>1 DEF Without
    <3>2. CASE id = 0
      BY <3>2, TabledFacts
    <3> QED
      BY <3>1, <3>2
  <2> HIDE DEF q, ht
  <2>4. DOMAIN ht \subseteq NhId
    BY <2>3, TabledFacts
  <2>5. \A k \in DOMAIN ht : ht[k] \in Slot
    BY <2>3, TabledFacts
  <2>6. ASSUME NEW k \in DOMAIN ht, ~bare
        PROVE  q.groups[ht[k]].nhcnt # 0 /\ q.groups[ht[k]].nhid = k
    <3>1. /\ k \in DOMAIN nh_ht /\ ht[k] = nh_ht[k] /\ k # id /\ nh_ht[k] \in Slot
          /\ nh.groups[nh_ht[k]].nhid = k /\ nh.groups[nh_ht[k]].nhcnt # 0
      BY <2>3, <2>6, TabledFacts
    <3>2. ht[k] # s
      BY <1>2, <1>4, <2>6, <3>1
    <3> QED
      BY <2>1, <3>1, <3>2
  <2>7. Tabled(q, ht, bare)
    BY <2>1, <2>2, <2>4, <2>5, <2>6 DEF Tabled
  <2> QED
    BY <1>1, <1>4, <2>7
<1> QED
  BY <1>3, <1>4

\* An id that is not known and comes without members.
Barely(id, infos, refs) ==
  id # 0 /\ infos = <<>> /\ refs = <<>> /\ SlotOfNhid(nh_ht, id) = -1

\* nexthop_add_entry
LEMMA AddEntryFacts ==
  ASSUME NexthopInv, NEW id, NEW infos, NEW refs, Message(id, infos, refs), NEW malloc,
         NEW b, ~b => ~bare /\ ~Barely(id, infos, refs)
  PROVE  LET r == AddEntry(id, infos, refs, malloc)
         IN  Tabled(r.n, r.ht, b) /\ r.slot \in Slot \cup {-1}
<1> DEFINE r == AddEntry(id, infos, refs, malloc)
           want == Wanted(nh, infos, refs)
           old == Found(id, infos)
           acc == NewGroup(nh, id, infos, refs)
           new == Finish(acc)
           inserted == id \in DOMAIN nh_ht \/ malloc
<1>1. r = IF old # -1 THEN [n |-> nh, slot |-> old, ht |-> nh_ht]
          ELSE IF id = 0 \/ new.slot = -1 THEN [n |-> new.n, slot |-> new.slot, ht |-> nh_ht]
          ELSE IF inserted
          THEN [n |-> new.n, slot |-> new.slot, ht |-> Insert(nh_ht, id, new.slot)]
          ELSE [n |-> FreeSlot(new.n, new.slot), slot |-> -1, ht |-> nh_ht]
  BY DEF AddEntry, Found
<1>2. id \in NhId \cup {0}
  BY DEF Message
<1>3. old \in Slot \cup {-1}
  BY <1>2, FoundFacts
<1>4. Building(acc, id, want, Len(want))
  BY NewGroupFacts
<1> HIDE DEF r, old, acc, want, inserted
<1>5. /\ Sound(new.n) /\ new.slot = acc.slot
      /\ \A t \in Slot : new.n.groups[t] = acc.n.groups[t]
  <2>1. CASE acc.slot = -1
    <3>1. new = acc
      BY <2>1 DEF Finish
    <3> HIDE DEF new
    <3> QED
      BY <1>4, <3>1 DEF Building
  <2>2. CASE acc.slot # -1
    <3>1. acc.slot \in Slot /\ Sound(acc.n)
      BY <1>4, <2>2, BuildingFacts
    <3>2. new.n = Hint(acc.n, acc.slot) /\ new.slot = acc.slot
      BY <2>2 DEF Finish
    <3> HIDE DEF new
    <3> QED
      BY <3>1, <3>2, HintFacts
  <2> QED
    BY <2>1, <2>2
<1> HIDE DEF new
<1>6. \A t \in Slot : Whole(new.n, t)
  <2>1. \A t \in Slot : t # acc.slot => Whole(new.n, t)
    BY <1>4, <1>5 DEF Building, Whole
  <2>2. acc.slot # -1 => Whole(new.n, acc.slot)
    <3>1. acc.slot # -1 => /\ acc.slot \in Slot
                           /\ acc.n.groups[acc.slot].nhcnt = Len(want)
                           /\ Len(acc.n.groups[acc.slot].members) = Len(want)
      BY <1>4, BuildingFacts
    <3> QED
      BY <1>5, <3>1 DEF Whole
  <2>3. -1 \notin Slot
    BY Sizes
  <2> QED
    BY <2>1, <2>2, <2>3
<1>7. \A k \in DOMAIN nh_ht : k \in NhId /\ nh_ht[k] \in Slot
  BY TabledFacts
<1>8. ASSUME NEW k \in DOMAIN nh_ht, ~b
      PROVE  /\ new.n.groups[nh_ht[k]].nhid = k /\ new.n.groups[nh_ht[k]].nhcnt # 0
             /\ nh_ht[k] # new.slot
  <2>1. /\ k \in NhId /\ nh_ht[k] \in Slot
        /\ nh.groups[nh_ht[k]].nhid = k /\ nh.groups[nh_ht[k]].nhcnt # 0
    BY <1>8, TabledFacts
  <2>2. acc.n.groups[nh_ht[k]] = nh.groups[nh_ht[k]]
    BY <1>4, <2>1 DEF Building
  <2>3. nh_ht[k] # acc.slot
    <3>1. acc.slot = -1 \/ nh.groups[acc.slot].nhcnt = 0
      BY <1>4 DEF Building
    <3>2. -1 \notin Slot
      BY Sizes
    <3> QED
      BY <2>1, <3>1, <3>2
  <2> QED
    BY <1>5, <2>1, <2>2, <2>3
<1>9. new.slot = -1 \/ (new.slot \in Slot /\ new.n.groups[new.slot].nhid = id)
  BY <1>4, <1>5 DEF Building
<1>10. Tabled(new.n, nh_ht, b)
  BY <1>5, <1>6, <1>7, <1>8 DEF Tabled
<1>11. CASE old # -1
  <2>1. r.n = nh /\ r.ht = nh_ht /\ r.slot = old
    BY <1>1, <1>11
  <2>2. Tabled(nh, nh_ht, b)
    BY TabledFacts DEF Tabled
  <2> QED
    BY <1>3, <2>1, <2>2 DEF r
<1>12. CASE old = -1 /\ (id = 0 \/ new.slot = -1)
  <2>1. r.n = new.n /\ r.ht = nh_ht /\ r.slot = new.slot
    BY <1>1, <1>12
  <2> QED
    BY <1>9, <1>10, <2>1 DEF r
<1>13. CASE old = -1 /\ ~(id = 0 \/ new.slot = -1) /\ inserted
  <2> DEFINE ht == Insert(nh_ht, id, new.slot)
  <2>1. r.n = new.n /\ r.ht = ht /\ r.slot = new.slot
    BY <1>1, <1>13
  <2>2. id \in NhId /\ new.slot \in Slot
    BY <1>2, <1>9, <1>13
  <2>3. /\ DOMAIN ht = DOMAIN nh_ht \cup {id}
        /\ \A k \in DOMAIN ht : ht[k] = IF k = id THEN new.slot ELSE nh_ht[k]
    BY DEF Insert
  <2> HIDE DEF ht
  <2>4. DOMAIN ht \subseteq NhId /\ \A k \in DOMAIN ht : ht[k] \in Slot
    BY <1>7, <2>2, <2>3
  <2>5. ~b => new.n.groups[new.slot].nhcnt # 0
    <3>1. new.n.groups[new.slot].nhcnt = Len(want)
      BY <1>4, <1>5, <1>13, <2>2, BuildingFacts
    <3>2. ~b => infos # <<>> \/ refs # <<>>
      BY <1>13 DEF Barely, old, Found
    <3>3. infos # <<>> \/ refs # <<>> => Len(want) # 0
      <4>1. /\ refs # <<>> => Len(want) = Len(refs)
            /\ refs = <<>> => want = infos
        BY WantedFacts DEF want
      <4> QED
        BY <4>1 DEF Message
    <3> QED
      BY <3>1, <3>2, <3>3
  <2>6. ~b => \A k \in DOMAIN ht : new.n.groups[ht[k]].nhcnt # 0 /\ new.n.groups[ht[k]].nhid = k
    BY <1>8, <1>9, <1>13, <2>3, <2>5
  <2>7. Tabled(new.n, ht, b)
    BY <1>5, <1>6, <2>4, <2>6 DEF Tabled
  <2> QED
    BY <2>1, <2>2, <2>7 DEF r
<1>14. CASE old = -1 /\ ~(id = 0 \/ new.slot = -1) /\ ~inserted
  <2> DEFINE q == FreeSlot(new.n, new.slot)
  <2>1. r.n = q /\ r.ht = nh_ht /\ r.slot = -1
    BY <1>1, <1>14
  <2>2. new.slot \in Slot
    BY <1>9, <1>14
  <2>3. /\ Sound(q) /\ q.groups[new.slot] = FreeGroup
        /\ \A t \in Slot : t # new.slot => q.groups[t] = new.n.groups[t]
    BY <1>5, <2>2, FreeSlotFacts
  <2> HIDE DEF q
  <2>4. \A t \in Slot : Whole(q, t)
    <3>1. Whole(q, new.slot)
      BY <2>3 DEF Whole, FreeGroup
    <3>2. \A t \in Slot : t # new.slot => Whole(q, t)
      BY <1>6, <2>3 DEF Whole
    <3> QED
      BY <3>1, <3>2
  <2>5. ~b => \A k \in DOMAIN nh_ht : q.groups[nh_ht[k]].nhcnt # 0 /\ q.groups[nh_ht[k]].nhid = k
    BY <1>7, <1>8, <2>3
  <2>6. Tabled(q, nh_ht, b)
    BY <1>7, <2>3, <2>4, <2>5 DEF Tabled
  <2> QED
    BY <2>1, <2>6 DEF r
<1> QED
  BY <1>11, <1>12, <1>13, <1>14

-----------------------------------------------------------------------------
(* The invariant.                                                          *)

LEMMA BoundedFacts ==
  ASSUME NEW S, NEW n \in Nat, NEW seq
  PROVE  seq \in BoundedSeq(S, n) <=> seq \in Seq(S) /\ Len(seq) <= n
<1>1. ASSUME seq \in BoundedSeq(S, n) PROVE seq \in Seq(S) /\ Len(seq) <= n
  <2>1. PICK m \in 0 .. n : seq \in [1 .. m -> S]
    BY <1>1 DEF BoundedSeq, SeqOf
  <2> QED
    BY <2>1
<1>2. ASSUME seq \in Seq(S), Len(seq) <= n PROVE seq \in BoundedSeq(S, n)
  <2>1. Len(seq) \in 0 .. n /\ seq \in [1 .. Len(seq) -> S]
    BY <1>2
  <2> QED
    BY <2>1 DEF BoundedSeq, SeqOf
<1> QED
  BY <1>1, <1>2

LEMMA NexthopInit == Init => NexthopInv
<1> SUFFICES ASSUME Init PROVE NexthopInv
  OBVIOUS
<1>1. /\ nh = [groups |-> [s \in Slot |-> FreeGroup], pool |-> [i \in Index |-> FreeInfo],
               gtop |-> 0, itop |-> 0]
      /\ nh_ht = Nothing /\ rib = Nothing /\ route = Nothing /\ bare = FALSE
  BY DEF Init
<1>2. 0 \in Slot /\ 0 \in Index /\ 0 <= MaxPaths
  BY Sizes
<1>3. FreeGroup \in Group /\ FreeInfo \in Entry
  BY DEF FreeGroup, FreeInfo, Group, Entry, Address
<1>4. nh \in Table
  BY <1>1, <1>2, <1>3 DEF Table
<1>5. \A s \in Slot : nh.groups[s] = FreeGroup
  BY <1>1
<1>6. \A i \in Index : nh.pool[i] = FreeInfo
  BY <1>1
<1>7. /\ Len(FreeGroup.members) = 0 /\ FreeGroup.nhcnt = 0 /\ FreeGroup.nhid = 0
      /\ Len(FreeGroup.want) = 0 /\ DOMAIN FreeGroup.members = {} /\ FreeInfo.refcnt = 0
  BY DEF FreeGroup, FreeInfo
<1>8. \A s \in Slot : Fits(nh, s) /\ Whole(nh, s)
  <2>1. 1 .. 0 = {} /\ 0 <= 0
    OBVIOUS
  <2> QED
    BY <1>2, <1>5, <1>7, <2>1 DEF Fits, Whole
<1>9. ASSUME NEW i \in Index PROVE nh.pool[i].refcnt = Cardinality(Uses(nh, i))
  <2>1. Uses(nh, i) = {}
    BY <1>5, <1>7 DEF Uses
  <2> QED
    BY <1>6, <1>7, <2>1, FS_EmptySet
<1>10. Sound(nh)
  BY <1>4, <1>8, <1>9 DEF Sound
<1>11. DOMAIN Nothing = {}
  BY DEF Nothing
<1> QED
  BY <1>1, <1>8, <1>10, <1>11 DEF NexthopInv, HashedIsGroup

\* A step that leaves the tables in order keeps the invariant.
LEMMA TablesKept ==
  ASSUME NEW res, Tables(res), Tabled(res.n, res.ht, bare'), bare' \in BOOLEAN,
         DOMAIN rib' \subseteq Prefix, \A p \in DOMAIN rib' : rib'[p] \in Slot,
         DOMAIN route' \subseteq Prefix
  PROVE  NexthopInv'
<1>1. nh' = res.n /\ nh_ht' = res.ht
  BY DEF Tables
<1>2. Sound(nh)'
  BY <1>1 DEF Tabled
<1>3. \A s \in Slot : Whole(nh, s)'
  BY <1>1 DEF Tabled
<1> QED
  BY <1>1, <1>2, <1>3 DEF NexthopInv, HashedIsGroup, Tabled, InUse, FreeSlots

LEMMA NexthopNext == NexthopInv /\ [Next]_vars => NexthopInv'
<1> SUFFICES ASSUME NexthopInv, [Next]_vars PROVE NexthopInv'
  OBVIOUS
<1>1. /\ DOMAIN rib \subseteq Prefix /\ \A p \in DOMAIN rib : rib[p] \in Slot
      /\ DOMAIN route \subseteq Prefix /\ bare \in BOOLEAN
  BY DEF NexthopInv
<1>2. MaxPaths \in Nat /\ 1 <= MaxPaths /\ 0 <= MaxPaths
  BY Sizes
<1>3. <<>> \in Seq(NhId) /\ <<>> \in Seq(Info) /\ Len(<<>>) = 0
  OBVIOUS
<1>4. ASSUME NEW infos \in Infos PROVE infos \in Seq(Info) /\ Len(infos) <= MaxPaths
  BY <1>2, InfosAssumption, BoundedFacts
<1>5. ASSUME NEW id \in NhId, NEW infos, NEW refs, NEW malloc, Message(id, infos, refs),
             infos # <<>> \/ refs # <<>>, NexthopEntryAdd(id, infos, refs, malloc)
      PROVE  NexthopInv'
  <2> DEFINE res == AddEntry(id, infos, refs, malloc)
  <2>1. Tabled(res.n, res.ht, bare)
    <3>1. ~Barely(id, infos, refs)
      BY <1>5 DEF Barely
    <3> QED
      BY <1>5, <3>1, AddEntryFacts
  <2>2. Tables(res) /\ rib' = rib /\ route' = route /\ bare' = bare
    BY <1>5 DEF NexthopEntryAdd
  <2> HIDE DEF res
  <2> QED
    BY <1>1, <2>1, <2>2, TablesKept
<1>6. ASSUME NEW id \in NhId, NEW x \in Info, NEW malloc,
             NexthopEntryAdd(id, <<x>>, <<>>, malloc)
      PROVE  NexthopInv'
  <2>1. <<x>> \in Seq(Info) /\ Len(<<x>>) = 1 /\ <<x>> # <<>>
    OBVIOUS
  <2>2. Message(id, <<x>>, <<>>)
    BY <1>2, <1>3, <2>1 DEF Message
  <2> QED
    BY <1>5, <1>6, <2>1, <2>2
<1>7. ASSUME NEW id \in NhId, NEW refs \in Refs, NEW malloc,
             NexthopEntryAdd(id, <<>>, refs, malloc)
      PROVE  NexthopInv'
  <2>1. refs \in BoundedSeq(NhId, MaxPaths) /\ refs # <<>>
    BY DEF Refs
  <2>2. refs \in Seq(NhId) /\ Len(refs) <= MaxPaths
    BY <1>2, <2>1, BoundedFacts
  <2>3. Message(id, <<>>, refs)
    BY <1>2, <1>3, <2>1, <2>2, IdAssumption DEF Message
  <2> QED
    BY <1>5, <1>7, <2>1, <2>3
<1>8. ASSUME NEW id \in NhId, NexthopEntryDel(id) PROVE NexthopInv'
  <2> DEFINE res == DelEntry(id, <<>>)
  <2>1. Tabled(res.n, res.ht, bare)
    BY DelEntryFacts
  <2>2. Tables(res) /\ rib' = rib /\ route' = route /\ bare' = bare
    BY <1>8 DEF NexthopEntryDel
  <2> HIDE DEF res
  <2> QED
    BY <1>1, <2>1, <2>2, TablesKept
<1>9. ASSUME NEW p \in Prefix, NEW id \in NhId \cup {0}, NEW infos \in Infos, NEW malloc,
             RouteEntryAdd(p, id, infos, malloc)
      PROVE  NexthopInv'
  <2> DEFINE res == AddEntry(id, infos, <<>>, malloc)
  <2>1. Message(id, infos, <<>>)
    BY <1>2, <1>3, <1>4, <1>9 DEF Message
  <2>0. bare' = (bare \/ Barely(id, infos, <<>>))
    BY <1>9 DEF RouteEntryAdd, Barely
  <2>2. Tabled(res.n, res.ht, bare') /\ res.slot \in Slot \cup {-1}
    BY <2>0, <2>1, AddEntryFacts
  <2>3. /\ Tables(res) /\ bare' \in BOOLEAN
        /\ rib' = IF res.slot = -1 THEN rib ELSE Insert(rib, p, res.slot)
        /\ DOMAIN route' = DOMAIN route \cup {p}
    BY <1>1, <1>9, <2>0 DEF RouteEntryAdd, Insert
  <2> HIDE DEF res
  <2>4. DOMAIN rib' \subseteq Prefix /\ \A k \in DOMAIN rib' : rib'[k] \in Slot
    <3>1. CASE res.slot = -1
      BY <1>1, <2>3, <3>1
    <3>2. CASE res.slot # -1
      <4>1. rib' = [k \in DOMAIN rib \cup {p} |-> IF k = p THEN res.slot ELSE rib[k]]
        BY <2>3, <3>2 DEF Insert
      <4> QED
        BY <1>1, <2>2, <3>2, <4>1
    <3> QED
      BY <3>1, <3>2
  <2> QED
    BY <1>1, <2>2, <2>3, <2>4, TablesKept
<1>10. ASSUME NEW p \in Prefix, RouteEntryDel(p) PROVE NexthopInv'
  <2> DEFINE id == route[p].id
             res == IF id # 0
                    THEN [n |-> nh, slot |-> SlotOfNhid(nh_ht, id), ht |-> nh_ht]
                    ELSE DelEntry(0, route[p].infos)
  <2>1. Tabled(res.n, res.ht, bare)
    <3>1. CASE id # 0
      BY <3>1, TabledFacts
    <3>2. CASE id = 0
      BY <3>2, DelEntryFacts
    <3> QED
      BY <3>1, <3>2
  <2>2. /\ Tables(res)
        /\ rib' = IF res.slot = -1 THEN rib ELSE Without(rib, p)
        /\ route' = Without(route, p) /\ bare' = bare
    BY <1>10 DEF RouteEntryDel
  <2> HIDE DEF res
  <2>3. DOMAIN rib' \subseteq Prefix /\ \A k \in DOMAIN rib' : rib'[k] \in Slot
    BY <1>1, <2>2 DEF Without
  <2>4. DOMAIN route' \subseteq Prefix
    BY <1>1, <2>2 DEF Without
  <2> QED
    BY <1>1, <2>1, <2>2, <2>3, <2>4, TablesKept
<1>11. ASSUME UNCHANGED vars PROVE NexthopInv'
  BY <1>11 DEF vars, NexthopInv, HashedIsGroup, InUse, FreeSlots
<1>12. CASE Next
  <2>1. ASSUME NEW p \in Prefix, NEW infos \in Infos, RouteEntryAdd(p, 0, infos, TRUE)
        PROVE  NexthopInv'
    BY <1>9, <2>1
  <2>2. ASSUME NEW p \in Prefix, NEW id \in NhId, NEW infos \in Infos,
               NEW malloc, RouteEntryAdd(p, id, infos, malloc)
        PROVE  NexthopInv'
    BY <1>9, <2>2
  <2> QED
    BY <1>6, <1>7, <1>8, <1>10, <1>12, <2>1, <2>2 DEF Next
<1> QED
  BY <1>11, <1>12

\* The reference counts of the pool, the members of every group and the hash
\* table fit together after every message, whichever of the steps in
\* nexthop_add_entry fails: the members filled in so far are released before
\* the slot is given back.
THEOREM InvHolds == Spec => []NexthopInv
<1> QED
  BY NexthopInit, NexthopNext, PTL DEF Spec

\* An address is freed by _info_release exactly when its last member lets go
\* of it, however groups share it: refcnt is the number of members.
THEOREM InfosAccounted == Spec => []InfoAccounted
<1>1. NexthopInv => InfoAccounted
  <2> SUFFICES ASSUME NexthopInv PROVE InfoAccounted
    OBVIOUS
  <2>1. /\ Sound(nh) /\ nh \in Table
        /\ \A i \in Index : nh.pool[i].refcnt = Cardinality(Uses(nh, i))
    BY DEF NexthopInv, Sound
  <2>2. ASSUME NEW s \in Slot
        PROVE  /\ nh.groups[s].nhid \in NhId \cup {0}
               /\ nh.groups[s].members \in BoundedSeq(Index \cup {-1}, MaxPaths)
               /\ Len(nh.groups[s].members) = nh.groups[s].nhcnt
    <3>1. Fits(nh, s) /\ Whole(nh, s)
      BY DEF NexthopInv, Sound
    <3>2. /\ nh.groups[s].nhid \in NhId \cup {0}
          /\ nh.groups[s].members \in Seq(Index \cup {-1})
      BY <2>1, GroupFacts
    <3>3. /\ Len(nh.groups[s].members) = nh.groups[s].nhcnt
          /\ Len(nh.groups[s].members) <= MaxPaths
      BY <3>1 DEF Fits, Whole
    <3>4. nh.groups[s].members \in BoundedSeq(Index \cup {-1}, MaxPaths)
      BY <3>2, <3>3, Sizes, BoundedFacts
    <3> QED
      BY <3>2, <3>3, <3>4
  <2>3. \A i \in Index : nh.pool[i].refcnt \in Nat /\ nh.pool[i].info \in Info \cup {"none"}
    BY <2>1, EntryFacts DEF Address
  <2>4. nh.gtop \in Slot /\ nh.itop \in Index
    BY <2>1, TableFacts
  <2>5. TypeOK
    BY <2>2, <2>3, <2>4 DEF TypeOK, NexthopInv
  <2> QED
    BY <2>1, <2>5 DEF InfoAccounted
<1> QED
  BY <1>1, InvHolds, PTL

\* A group in use keeps the addresses it was made for, although other groups
\* that share them come and go and their pool entries are used again.
THEOREM InfosKept == Spec => []InfoKept
<1>1. NexthopInv => InfoKept
  <2> SUFFICES ASSUME NexthopInv, NEW s \in InUse, NEW j \in DOMAIN nh.groups[s].want,
                      nh.groups[s].want[j] # "none"
               PROVE  InfosOf(nh, s)[j] = nh.groups[s].want[j]
    BY DEF InfoKept
  <2> DEFINE ms == nh.groups[s].members
             w == nh.groups[s].want
  <2>1. s \in Slot /\ nh \in Table /\ Fits(nh, s) /\ Whole(nh, s)
    BY DEF InUse, NexthopInv, Sound
  <2>2. DOMAIN ms = 1 .. Len(ms) /\ w \in Seq(Address)
    BY <2>1, GroupFacts
  <2>3. Len(w) = Len(ms)
    BY <2>1 DEF Fits, Whole
  <2>4. j \in 1 .. Len(ms)
    BY <2>2, <2>3
  <2>5. InfoAt(nh, ms[j]) = w[j]
    BY <2>1, <2>4 DEF Fits
  <2> QED
    BY <2>2, <2>4, <2>5 DEF InfosOf
<1> QED
  BY <1>1, InvHolds, PTL

\* A kernel id found in the hash table leads to the group of this id, which is
\* in use: a failed nexthop_add_entry leaves no id behind and nexthop_del_entry
\* takes it out.  It ends with the first route that brings an id nexthop_add_entry
\* does not know and no addresses.
THEOREM HashedIsGroupHolds == Spec => []HashedIsGroup
<1>1. NexthopInv => HashedIsGroup
  BY DEF NexthopInv
<1> QED
  BY <1>1, InvHolds, PTL
=============================================================================
