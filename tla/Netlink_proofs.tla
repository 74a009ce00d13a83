--------------------------- MODULE Netlink_proofs ---------------------------
(***************************************************************************)
(* Theorems about Netlink, for tables, rings and names of any size: the    *)
(* master table stays sorted, so that the binary search is right; while    *)
(* msg_queue_rib has room, the position deltas keep the rib's table equal  *)
(* to it; and while the queues have room, dump and events together bring   *)
(* the rib to the kernel's neighbours and the devices' addresses.          *)
(***************************************************************************)
EXTENDS Netlink, Induction_proofs, FiniteSetTheorems

-----------------------------------------------------------------------------
(* The binary search.                                                      *)

Sorted(t) ==
  \A i, j \in 0 .. t.num - 1 : i < j => t.entries[i].key < t.entries[j].key

LEMMA TableFacts ==
  ASSUME NEW t \in NeighTable
  PROVE  /\ MaxEntry \in Nat /\ t.num \in Nat /\ t.num <= MaxEntry
         /\ t.entries \in [Index -> Entry]
         /\ \A i \in 0 .. t.num - 1 : i \in Index /\ t.entries[i].key \in Nat
         /\ \A i \in Int : i \in Index <=> 0 <= i /\ i < MaxEntry
<1>1. MaxEntry \in Nat /\ t.num \in Nat /\ t.num <= MaxEntry
      /\ t.entries \in [Index -> Entry]
  BY SizeAssumption DEF NeighTable
<1>2. \A i \in Int : i \in Index <=> 0 <= i /\ i < MaxEntry
  BY <1>1 DEF Index
<1>3. ASSUME NEW i \in 0 .. t.num - 1
      PROVE  i \in Index /\ t.entries[i].key \in Nat
  <2>1. i \in Index
    BY <1>1, <1>2
  <2>2. t.entries[i] \in Entry
    BY <1>1, <2>1
  <2>3. Key \cup {0} \subseteq Nat
    BY KeyAssumption
  <2> QED
    BY <2>1, <2>2, <2>3 DEF Entry
<1> QED
  BY <1>1, <1>2, <1>3

LEMMA Middle ==
  ASSUME NEW l \in Int, NEW r \in Int, l <= r
  PROVE  (l + r) \div 2 \in Int /\ l <= (l + r) \div 2 /\ (l + r) \div 2 <= r
OBVIOUS

\* The state of the search: where the key can still be.
Searching(t, key, n, at) ==
  /\ at.found => at.left < t.num /\ t.entries[at.left].key = key
  /\ ~at.found =>
       /\ at.left <= at.right + 1
       /\ \A i \in 0 .. t.num - 1 : i < at.left => t.entries[i].key < key
       /\ \A i \in 0 .. t.num - 1 : at.right < i => key < t.entries[i].key
       /\ at.right - at.left + 1 <= t.num - n \/ at.right < at.left

LEMMA ProbeFacts ==
  ASSUME NEW t \in NeighTable, Sorted(t), NEW key \in Nat, NEW n \in Nat,
         NEW at \in [left : 0 .. t.num, right : -1 .. t.num - 1, found : BOOLEAN]
  PROVE  /\ Probe(t, key, at)
              \in [left : 0 .. t.num, right : -1 .. t.num - 1, found : BOOLEAN]
         /\ Searching(t, key, n, at) => Searching(t, key, n + 1, Probe(t, key, at))
<1> DEFINE mid == (at.left + at.right) \div 2
<1>1. /\ t.num \in Nat
      /\ \A i \in 0 .. t.num - 1 : t.entries[i].key \in Nat
      /\ at.left \in 0 .. t.num /\ at.right \in -1 .. t.num - 1
      /\ at.found \in BOOLEAN
      /\ at = [left |-> at.left, right |-> at.right, found |-> at.found]
  BY TableFacts
<1>2. CASE at.found \/ at.left > at.right
  <2>1. Probe(t, key, at) = at
    BY <1>2 DEF Probe
  <2>2. Searching(t, key, n, at) => Searching(t, key, n + 1, at)
    BY <1>1, <1>2 DEF Searching
  <2> QED
    BY <2>1, <2>2
<1>3. CASE ~(at.found \/ at.left > at.right)
  <2>1. mid \in Int /\ at.left <= mid /\ mid <= at.right
    BY <1>1, <1>3, Middle
  <2>2. /\ ~at.found /\ mid \in 0 .. t.num - 1 /\ t.entries[mid].key \in Nat
        /\ mid \in 0 .. t.num /\ mid \in -1 .. t.num - 1
        /\ mid + 1 \in 0 .. t.num /\ mid - 1 \in -1 .. t.num - 1
    BY <1>1, <1>3, <2>1
  <2>3. Probe(t, key, at) =
          IF t.entries[mid].key = key THEN [left |-> mid, right |-> mid, found |-> TRUE]
          ELSE IF t.entries[mid].key < key
          THEN [left |-> mid + 1, right |-> at.right, found |-> FALSE]
          ELSE [left |-> at.left, right |-> mid - 1, found |-> FALSE]
    BY <1>3 DEF Probe
  <2> HIDE DEF mid
  <2>4. CASE t.entries[mid].key = key
    <3>1. Probe(t, key, at) = [left |-> mid, right |-> mid, found |-> TRUE]
      BY <2>3, <2>4
    <3> QED
      BY <1>1, <2>2, <2>4, <3>1 DEF Searching
  <2>5. CASE t.entries[mid].key < key
    <3>1. Probe(t, key, at) = [left |-> mid + 1, right |-> at.right, found |-> FALSE]
      BY <2>2, <2>3, <2>5
    <3>2. \A i \in 0 .. t.num - 1 : i < mid + 1 => t.entries[i].key < key
      <4> SUFFICES ASSUME NEW i \in 0 .. t.num - 1, i < mid + 1
                   PROVE  t.entries[i].key < key
        OBVIOUS
      <4>1. i = mid \/ i < mid
        BY <2>2
      <4>2. i < mid => t.entries[i].key < t.entries[mid].key
        BY <2>2 DEF Sorted
      <4>3. t.entries[i].key \in Nat
        BY <1>1
      <4> QED
        BY <2>2, <2>5, <4>1, <4>2, <4>3
    <3>3. ASSUME Searching(t, key, n, at)
          PROVE  /\ \A i \in 0 .. t.num - 1 : at.right < i => key < t.entries[i].key
                 /\ at.right - at.left + 1 <= t.num - n
      BY <1>1, <1>3, <3>3 DEF Searching
    <3>4. ASSUME Searching(t, key, n, at)
          PROVE  at.right - (mid + 1) + 1 <= t.num - (n + 1)
      BY <1>1, <2>1, <2>2, <3>3, <3>4
    <3>5. mid + 1 <= at.right + 1
      BY <1>1, <2>1, <2>2
    <3> QED
      BY <1>1, <2>2, <3>1, <3>2, <3>3, <3>4, <3>5 DEF Searching
  <2>6. CASE key < t.entries[mid].key
    <3>1. Probe(t, key, at) = [left |-> at.left, right |-> mid - 1, found |-> FALSE]
      BY <2>2, <2>3, <2>6
    <3>2. \A i \in 0 .. t.num - 1 : mid - 1 < i => key < t.entries[i].key
      <4> SUFFICES ASSUME NEW i \in 0 .. t.num - 1, mid - 1 < i
                   PROVE  key < t.entries[i].key
        OBVIOUS
      <4>1. i = mid \/ mid < i
        BY <2>2
      <4>2. mid < i => t.entries[mid].key < t.entries[i].key
        BY <2>2 DEF Sorted
      <4>3. t.entries[i].key \in Nat
        BY <1>1
      <4> QED
        BY <2>2, <2>6, <4>1, <4>2, <4>3
    <3>3. ASSUME Searching(t, key, n, at)
          PROVE  /\ \A i \in 0 .. t.num - 1 : i < at.left => t.entries[i].key < key
                 /\ at.right - at.left + 1 <= t.num - n
      BY <1>1, <1>3, <3>3 DEF Searching
    <3>4. ASSUME Searching(t, key, n, at)
          PROVE  (mid - 1) - at.left + 1 <= t.num - (n + 1)
      BY <1>1, <2>1, <2>2, <3>3, <3>4
    <3>5. at.left <= (mid - 1) + 1
      BY <1>1, <2>1, <2>2
    <3> QED
      BY <1>1, <2>2, <3>1, <3>2, <3>3, <3>4, <3>5 DEF Searching
  <2> QED
    BY <2>2, <2>4, <2>5, <2>6
<1> QED
  BY <1>2, <1>3

\* The binary search of a sorted table is right.
LEMMA LookupFacts ==
  ASSUME NEW t \in NeighTable, Sorted(t), NEW key \in Nat
  PROVE  LET at == Lookup(t, key) IN
         /\ at.pos \in 0 .. t.num
         /\ at.found \in BOOLEAN
         /\ at.found => at.pos < t.num /\ t.entries[at.pos].key = key
         /\ ~at.found => \A i \in 0 .. t.num - 1 :
              /\ i < at.pos => t.entries[i].key < key
              /\ at.pos <= i => key < t.entries[i].key
<1> DEFINE S == [left : 0 .. t.num, right : -1 .. t.num - 1, found : BOOLEAN]
           a == [left |-> 0, right |-> t.num - 1, found |-> FALSE]
           step == [p \in Nat \X S |-> Probe(t, key, p[2])]
           Body(f) == [n \in 0 .. t.num |-> IF n = 0 THEN a ELSE Probe(t, key, f[n - 1])]
           turn == CHOOSE f : f = Body(f)
<1>1. t.num \in Nat /\ a \in S
  BY TableFacts
<1>2. \A x \in S : Probe(t, key, x) \in S
  <2>1. 0 \in Nat
    OBVIOUS
  <2> QED
    BY <2>1, ProbeFacts
<1> HIDE DEF S, a
<1>3. step \in [Nat \X S -> S]
  BY <1>2
<1>4. \A n \in Nat, x \in S : step[<<n, x>>] = Probe(t, key, x)
  OBVIOUS
<1> HIDE DEF step
<1>5. PICK f : IsRun(f, a, step, S, t.num)
  BY <1>1, <1>3, RunExists
<1>6. f = Body(f)
  <2>1. f \in [0 .. t.num -> S] /\ f[0] = a
    BY <1>5 DEF IsRun
  <2>2. \A n \in 1 .. t.num : f[n] = Probe(t, key, f[n - 1])
    <3> SUFFICES ASSUME NEW n \in 1 .. t.num PROVE f[n] = Probe(t, key, f[n - 1])
      OBVIOUS
    <3>1. n \in Nat /\ n - 1 \in 0 .. t.num
      BY <1>1
    <3>2. f[n] = step[<<n, f[n - 1]>>] /\ f[n - 1] \in S
      BY <1>5, <2>1, <3>1 DEF IsRun
    <3> QED
      BY <1>4, <3>1, <3>2
  <2>3. \A n \in 0 .. t.num : f[n] = IF n = 0 THEN a ELSE Probe(t, key, f[n - 1])
    <3> SUFFICES ASSUME NEW n \in 0 .. t.num, n # 0
                 PROVE  f[n] = Probe(t, key, f[n - 1])
      BY <2>1
    <3>1. n \in 1 .. t.num
      BY <1>1
    <3> QED
      BY <2>2, <3>1
  <2> QED
    BY <2>1, <2>3
<1>7. turn = Body(turn)
  <2>1. \E g : g = Body(g)
    BY <1>6
  <2> QED
    BY <2>1, Zenon
<1>8. Lookup(t, key) = [pos |-> turn[t.num].left, found |-> turn[t.num].found]
  BY Zenon DEF Lookup, a
<1> HIDE DEF turn
<1>9. /\ turn[0] = a
      /\ \A n \in 1 .. t.num : turn[n] = Probe(t, key, turn[n - 1])
  <2>1. \A n \in 0 .. t.num : turn[n] = IF n = 0 THEN a ELSE Probe(t, key, turn[n - 1])
    BY <1>7
  <2>2. 0 \in 0 .. t.num /\ \A n \in 1 .. t.num : n \in 0 .. t.num /\ n # 0
    BY <1>1
  <2> QED
    BY <2>1, <2>2
<1> DEFINE g == [n \in 0 .. t.num |-> <<n, turn[n]>>]
           Fine == {p \in Nat \X S : Searching(t, key, p[1], p[2])}
<1>10. g[0] \in Fine
  <2>1. g[0] = <<0, a>>
    BY <1>1, <1>9
  <2>2. Searching(t, key, 0, a)
    BY <1>1 DEF Searching, a
  <2>3. <<0, a>> \in Nat \X S
    BY <1>1
  <2> QED
    BY <2>1, <2>2, <2>3
<1>11. ASSUME NEW n \in 1 .. t.num, g[n - 1] \in Fine
       PROVE  g[n] \in Fine
  <2>1. n - 1 \in Nat /\ n - 1 \in 0 .. t.num /\ n \in 0 .. t.num /\ (n - 1) + 1 = n
        /\ n \in Nat
    BY <1>1
  <2>2. turn[n - 1] \in S /\ Searching(t, key, n - 1, turn[n - 1])
    BY <1>11, <2>1
  <2>3. /\ Probe(t, key, turn[n - 1]) \in S
        /\ Searching(t, key, (n - 1) + 1, Probe(t, key, turn[n - 1]))
    BY <2>1, <2>2, ProbeFacts DEF S
  <2>4. turn[n] \in S /\ Searching(t, key, n, turn[n])
    BY <1>9, <2>1, <2>3
  <2> QED
    BY <2>1, <2>4
<1>12. \A n \in 0 .. t.num : g[n] \in Fine
  <2> HIDE DEF g, Fine
  <2> QED
    BY <1>1, <1>10, <1>11, RunInduction
<1> DEFINE x == turn[t.num]
<1>13. x \in S /\ Searching(t, key, t.num, x)
  <2>1. t.num \in 0 .. t.num
    BY <1>1
  <2> QED
    BY <1>12, <2>1
<1> HIDE DEF x
<1>14. /\ x.left \in 0 .. t.num /\ x.right \in -1 .. t.num - 1
       /\ x.found \in BOOLEAN
  BY <1>13 DEF S
<1>15. ~x.found => x.right < x.left /\ x.left <= x.right + 1
  BY <1>1, <1>13, <1>14 DEF Searching
<1>16. ~x.found => \A i \in 0 .. t.num - 1 :
              /\ i < x.left => t.entries[i].key < key
              /\ x.left <= i => key < t.entries[i].key
  <2> SUFFICES ASSUME ~x.found, NEW i \in 0 .. t.num - 1
               PROVE  /\ i < x.left => t.entries[i].key < key
                      /\ x.left <= i => key < t.entries[i].key
    OBVIOUS
  <2>1. x.left <= i => x.right < i
    BY <1>1, <1>14, <1>15
  <2> QED
    BY <1>13, <2>1 DEF Searching
<1>17. x.found => x.left < t.num /\ t.entries[x.left].key = key
  BY <1>13 DEF Searching
<1>18. Lookup(t, key) = [pos |-> x.left, found |-> x.found]
  BY <1>8 DEF x
<1> QED
  BY <1>14, <1>16, <1>17, <1>18

-----------------------------------------------------------------------------
(* A set of two elements is finite.                                        *)
LEMMA PairIsFinite == \A x, y : IsFiniteSet({x, y})
<1> SUFFICES ASSUME NEW x, NEW y PROVE IsFiniteSet({x, y})
  OBVIOUS
<1>1. IsFiniteSet({x})
  BY FS_Singleton, Zenon
<1>2. IsFiniteSet({x} \cup {y})
  BY <1>1, FS_AddElement, Zenon
<1>3. {x} \cup {y} = {x, y}
  BY Zenon
<1> QED
  BY <1>2, <1>3, Zenon

-----------------------------------------------------------------------------
(* Insertion and deletion in the array.                                    *)

LEMMA InsertFacts ==
  ASSUME NEW e \in [Index -> Entry], NEW num \in Nat, num < MaxEntry,
         NEW at \in 0 .. num, NEW d \in Entry
  PROVE  LET f == [Memmove(e, at + 1, at, num - at) EXCEPT ![at] = d] IN
         /\ f \in [Index -> Entry]
         /\ \A i \in 0 .. num :
              f[i] = IF i < at THEN e[i] ELSE IF i = at THEN d ELSE e[i - 1]
<1> DEFINE m == Memmove(e, at + 1, at, num - at)
           f == [m EXCEPT ![at] = d]
<1>0. MaxEntry \in Nat /\ \A i \in Int : i \in Index <=> 0 <= i /\ i < MaxEntry
  BY SizeAssumption DEF Index
<1>1. m \in [Index -> Entry]
  BY DEF Memmove
<1>2. \A i \in Index :
        m[i] = IF at + 1 <= i /\ i < at + 1 + (num - at)
                  /\ at + (i - (at + 1)) \in Index
               THEN e[at + (i - (at + 1))] ELSE e[i]
  BY DEF Memmove
<1> HIDE DEF m
<1>3. /\ f \in [Index -> Entry]
      /\ \A i \in Index : f[i] = IF i = at THEN d ELSE m[i]
  BY <1>1
<1> HIDE DEF f
<1>4. ASSUME NEW i \in 0 .. num
      PROVE  f[i] = IF i < at THEN e[i] ELSE IF i = at THEN d ELSE e[i - 1]
  <2>1. i \in Index
    BY <1>0
  <2>2. CASE i <= at
    BY <1>2, <1>3, <2>1, <2>2
  <2>3. CASE at < i
    <3>1. /\ at + 1 <= i /\ i < at + 1 + (num - at)
          /\ at + (i - (at + 1)) = i - 1 /\ i - 1 \in Index
          /\ i # at /\ ~(i < at)
      BY <1>0, <2>3
    <3> QED
      BY <1>2, <1>3, <2>1, <3>1
  <2> QED
    BY <2>2, <2>3
<1> QED
  BY <1>3, <1>4 DEF f, m

LEMMA RemoveFacts ==
  ASSUME NEW e \in [Index -> Entry], NEW num \in Nat, num < MaxEntry,
         NEW at \in 0 .. num
  PROVE  LET f == Memmove(e, at, at + 1, num - at) IN
         /\ f \in [Index -> Entry]
         /\ \A i \in 0 .. num - 1 : f[i] = IF i < at THEN e[i] ELSE e[i + 1]
<1> DEFINE m == Memmove(e, at, at + 1, num - at)
<1>0. MaxEntry \in Nat /\ \A i \in Int : i \in Index <=> 0 <= i /\ i < MaxEntry
  BY SizeAssumption DEF Index
<1>1. m \in [Index -> Entry]
  BY DEF Memmove
<1>2. \A i \in Index :
        m[i] = IF at <= i /\ i < at + (num - at)
                  /\ at + 1 + (i - at) \in Index
               THEN e[at + 1 + (i - at)] ELSE e[i]
  BY DEF Memmove
<1> HIDE DEF m
<1>3. ASSUME NEW i \in 0 .. num - 1
      PROVE  m[i] = IF i < at THEN e[i] ELSE e[i + 1]
  <2>1. i \in Index
    BY <1>0
  <2>2. CASE i < at
    BY <1>2, <2>1, <2>2
  <2>3. CASE at <= i
    <3>1. /\ i < at + (num - at) /\ at + 1 + (i - at) = i + 1
          /\ i + 1 \in Index /\ ~(i < at)
      BY <1>0, <2>3
    <3> QED
      BY <1>2, <2>1, <2>3, <3>1
  <2> QED
    BY <2>2, <2>3
<1> QED
  BY <1>1, <1>3 DEF m

\* What a change of the master at a position does, as master and replica see
\* it: t becomes q, and the delta turns every table with the same entries into
\* one with the entries of q.
Follows(t, q, d) ==
  \A r \in NeighTable :
    Same(r, t) => /\ ~NegativeLength(r, d)
                  /\ Apply(r, d) \in NeighTable /\ Same(Apply(r, d), q)

LEMMA AddFollows ==
  ASSUME NEW t \in NeighTable, Sorted(t), NEW d \in Entry, d.key \in Nat,
         AddEntry(t, d).pos >= 0
  PROVE  LET res == AddEntry(t, d)
             delta == [op |-> "add", data |-> d, pos |-> res.pos, num |-> res.table.num]
         IN  /\ res.table \in NeighTable /\ Sorted(res.table)
             /\ delta \in Delta /\ Follows(t, res.table, delta)
<1> DEFINE at == Lookup(t, d.key)
           p == at.pos
<1>0. /\ MaxEntry \in Nat /\ t.num \in Nat /\ t.num <= MaxEntry
      /\ t.entries \in [Index -> Entry]
      /\ \A i \in 0 .. t.num - 1 : i \in Index /\ t.entries[i].key \in Nat
      /\ \A i \in Int : i \in Index <=> 0 <= i /\ i < MaxEntry
      /\ t = [entries |-> t.entries, num |-> t.num]
  BY TableFacts DEF NeighTable
<1>1. t.num < MaxEntry
  BY <1>0 DEF AddEntry
<1>2. /\ at.pos \in 0 .. t.num
      /\ at.found \in BOOLEAN
      /\ at.found => at.pos < t.num /\ t.entries[at.pos].key = d.key
      /\ ~at.found => \A i \in 0 .. t.num - 1 :
           /\ i < at.pos => t.entries[i].key < d.key
           /\ at.pos <= i => d.key < t.entries[i].key
  BY LookupFacts
<1>3. AddEntry(t, d) =
        IF at.found THEN [pos |-> p, table |-> [t EXCEPT !.entries[p] = d]]
        ELSE [pos |-> p, table |-> InsertEntry(t, p, d)]
  BY <1>0, <1>1 DEF AddEntry
<1> HIDE DEF at
<1>4. p \in Index
  BY <1>0, <1>1, <1>2
<1>5. CASE at.found
  <2> DEFINE f == [t.entries EXCEPT ![p] = d]
             q == [entries |-> f, num |-> t.num]
             delta == [op |-> "add", data |-> d, pos |-> p, num |-> t.num]
  <2>1. AddEntry(t, d) = [pos |-> p, table |-> q]
    BY <1>0, <1>3, <1>5
  <2>2. /\ f \in [Index -> Entry] /\ f[p] = d
        /\ \A i \in Index : i # p => f[i] = t.entries[i]
    BY <1>0, <1>4
  <2>3. q \in NeighTable /\ q.entries = f /\ q.num = t.num
    BY <1>0, <2>2 DEF NeighTable
  <2>4. Sorted(q)
    <3>1. \A i \in 0 .. t.num - 1 : f[i].key = t.entries[i].key
      BY <1>0, <1>2, <1>5, <2>2
    <3> QED
      BY <2>3, <3>1 DEF Sorted
  <2>5. delta \in Delta
    BY <1>0, <1>4 DEF Delta
  <2>6. Follows(t, q, delta)
    <3> SUFFICES ASSUME NEW r \in NeighTable, Same(r, t)
                 PROVE  /\ ~NegativeLength(r, delta)
                        /\ Apply(r, delta) \in NeighTable /\ Same(Apply(r, delta), q)
      BY DEF Follows
    <3>1. /\ r.num = t.num /\ r.entries \in [Index -> Entry]
          /\ \A i \in 0 .. t.num - 1 : r.entries[i] = t.entries[i]
      BY DEF Same, NeighTable
    <3> DEFINE g == [r.entries EXCEPT ![p] = d]
    <3>2. Apply(r, delta) = [entries |-> g, num |-> t.num]
      BY <1>0, <3>1 DEF Apply, ApplyAdd
    <3>3. /\ g \in [Index -> Entry] /\ g[p] = d
          /\ \A i \in Index : i # p => g[i] = r.entries[i]
      BY <1>4, <3>1
    <3>4. ~NegativeLength(r, delta)
      BY <1>0, <3>1 DEF NegativeLength
    <3> HIDE DEF g, f, q, delta
    <3>5. Apply(r, delta) \in NeighTable
      BY <1>0, <3>2, <3>3 DEF NeighTable
    <3>6. \A i \in 0 .. t.num - 1 : g[i] = f[i]
      BY <1>0, <2>2, <3>1, <3>3
    <3>7. Same(Apply(r, delta), q)
      BY <2>3, <3>2, <3>6 DEF Same
    <3> QED
      BY <3>4, <3>5, <3>7
  <2> QED
    BY <2>1, <2>3, <2>4, <2>5, <2>6
<1>6. CASE ~at.found
  <2> DEFINE f == [Memmove(t.entries, p + 1, p, t.num - p) EXCEPT ![p] = d]
             q == [entries |-> f, num |-> t.num + 1]
             delta == [op |-> "add", data |-> d, pos |-> p, num |-> t.num + 1]
  <2>1. AddEntry(t, d) = [pos |-> p, table |-> q]
    BY <1>3, <1>6 DEF InsertEntry
  <2>2. /\ f \in [Index -> Entry]
        /\ \A i \in 0 .. t.num :
             f[i] = IF i < p THEN t.entries[i] ELSE IF i = p THEN d ELSE t.entries[i - 1]
    BY <1>0, <1>1, <1>2, InsertFacts
  <2> HIDE DEF f
  <2>3. q \in NeighTable /\ q.entries = f /\ q.num = t.num + 1
    BY <1>0, <1>1, <2>2 DEF NeighTable
  <2>4. Sorted(q)
    <3> SUFFICES ASSUME NEW i \in 0 .. t.num, NEW j \in 0 .. t.num, i < j
                 PROVE  f[i].key < f[j].key
      BY <1>0, <2>3 DEF Sorted
    <3>1. \A x, y \in 0 .. t.num - 1 : x < y => t.entries[x].key < t.entries[y].key
      BY DEF Sorted
    <3>2. CASE j < p
      <4>1. i < p /\ i \in 0 .. t.num - 1 /\ j \in 0 .. t.num - 1
        BY <1>0, <1>2, <3>2
      <4> QED
        BY <2>2, <3>1, <3>2, <4>1
    <3>3. CASE j = p
      <4>1. i < p /\ i \in 0 .. t.num - 1 /\ ~(j < p)
        BY <1>0, <1>2, <3>3
      <4> QED
        BY <1>2, <1>6, <2>2, <3>3, <4>1
    <3>4. CASE p < j
      <4>1. j - 1 \in 0 .. t.num - 1 /\ p <= j - 1 /\ ~(j < p) /\ j # p
        BY <1>0, <1>2, <3>4
      <4>2. f[j] = t.entries[j - 1] /\ d.key < t.entries[j - 1].key
        BY <1>2, <1>6, <2>2, <4>1
      <4>3. CASE i < p
        <5>1. i \in 0 .. t.num - 1 /\ i < j - 1
          BY <1>0, <1>2, <4>1, <4>3
        <5> QED
          BY <2>2, <3>1, <4>1, <4>2, <4>3, <5>1
      <4>4. CASE i = p
        BY <2>2, <4>2, <4>4
      <4>5. CASE p < i
        <5>1. /\ i - 1 \in 0 .. t.num - 1 /\ i - 1 < j - 1
              /\ ~(i < p) /\ i # p
          BY <1>0, <1>2, <4>1, <4>5
        <5> QED
          BY <2>2, <3>1, <4>1, <4>2, <5>1
      <4> QED
        BY <1>2, <4>3, <4>4, <4>5
    <3> QED
      BY <1>2, <3>2, <3>3, <3>4
  <2>5. delta \in Delta
    BY <1>0, <1>1, <1>4 DEF Delta
  <2>6. Follows(t, q, delta)
    <3> SUFFICES ASSUME NEW r \in NeighTable, Same(r, t)
                 PROVE  /\ ~NegativeLength(r, delta)
                        /\ Apply(r, delta) \in NeighTable /\ Same(Apply(r, delta), q)
      BY DEF Follows
    <3>1. /\ r.num = t.num /\ r.entries \in [Index -> Entry]
          /\ \A i \in 0 .. t.num - 1 : r.entries[i] = t.entries[i]
      BY DEF Same, NeighTable
    <3> DEFINE g == [Memmove(r.entries, p + 1, p, t.num - p) EXCEPT ![p] = d]
    <3>2. Apply(r, delta) = [entries |-> g, num |-> t.num + 1]
      BY <1>0, <3>1 DEF Apply, ApplyAdd
    <3>3. /\ g \in [Index -> Entry]
          /\ \A i \in 0 .. t.num :
             g[i] = IF i < p THEN r.entries[i] ELSE IF i = p THEN d ELSE r.entries[i - 1]
      BY <1>0, <1>1, <1>2, <3>1, InsertFacts
    <3>4. ~NegativeLength(r, delta)
      BY <1>0, <1>2, <3>1 DEF NegativeLength
    <3> HIDE DEF g, q, delta
    <3>5. Apply(r, delta) \in NeighTable
      BY <1>0, <1>1, <3>2, <3>3 DEF NeighTable
    <3>6. \A i \in 0 .. t.num : g[i] = f[i]
      <4> SUFFICES ASSUME NEW i \in 0 .. t.num PROVE g[i] = f[i]
        OBVIOUS
      <4>1. /\ i < p => i \in 0 .. t.num - 1
            /\ ~(i < p) /\ i # p => i - 1 \in 0 .. t.num - 1
        BY <1>0, <1>2
      <4> QED
        BY <2>2, <3>1, <3>3, <4>1
    <3>7. Same(Apply(r, delta), q)
      BY <1>0, <2>3, <3>2, <3>6 DEF Same
    <3> QED
      BY <3>4, <3>5, <3>7
  <2> QED
    BY <2>1, <2>3, <2>4, <2>5, <2>6
<1> QED
  BY <1>2, <1>5, <1>6

LEMMA DeleteFollows ==
  ASSUME NEW t \in NeighTable, Sorted(t), NEW d \in Entry, d.key \in Nat,
         DeleteEntry(t, d).pos >= 0
  PROVE  LET res == DeleteEntry(t, d)
             delta == [op |-> "del", data |-> d, pos |-> res.pos, num |-> res.table.num]
         IN  /\ res.table \in NeighTable /\ Sorted(res.table)
             /\ delta \in Delta /\ Follows(t, res.table, delta)
<1> DEFINE at == Lookup(t, d.key)
           p == at.pos
           num == t.num - 1
           f == Memmove(t.entries, p, p + 1, num - p)
           q == [entries |-> f, num |-> num]
           delta == [op |-> "del", data |-> d, pos |-> p, num |-> num]
<1>0. /\ MaxEntry \in Nat /\ t.num \in Nat /\ t.num <= MaxEntry
      /\ t.entries \in [Index -> Entry]
      /\ \A i \in Int : i \in Index <=> 0 <= i /\ i < MaxEntry
  BY TableFacts
<1>1. /\ at.pos \in 0 .. t.num
      /\ at.found => at.pos < t.num
  BY LookupFacts
<1>2. at.found
  BY DEF DeleteEntry
<1>3. DeleteEntry(t, d) = [pos |-> p, table |-> q]
  BY <1>2 DEF DeleteEntry, RemoveEntry
<1> HIDE DEF at
<1>4. num \in Nat /\ num < MaxEntry /\ p \in 0 .. num /\ p \in Index /\ num \in 0 .. MaxEntry
  BY <1>0, <1>1, <1>2
<1>5. /\ f \in [Index -> Entry]
      /\ \A i \in 0 .. num - 1 : f[i] = IF i < p THEN t.entries[i] ELSE t.entries[i + 1]
  BY <1>0, <1>4, RemoveFacts, ZenonT(40)
<1> HIDE DEF f
<1>6. q \in NeighTable /\ q.entries = f /\ q.num = num
  BY <1>4, <1>5 DEF NeighTable
<1>7. Sorted(q)
  <2> SUFFICES ASSUME NEW i \in 0 .. num - 1, NEW j \in 0 .. num - 1, i < j
               PROVE  f[i].key < f[j].key
    BY <1>6 DEF Sorted
  <2>1. /\ i \in 0 .. t.num - 1 /\ j \in 0 .. t.num - 1
        /\ i + 1 \in 0 .. t.num - 1 /\ j + 1 \in 0 .. t.num - 1
        /\ i + 1 < j + 1 /\ i < j + 1 /\ (~(i < p) => ~(j < p))
    BY <1>0, <1>4
  <2>2. /\ t.entries[i].key < t.entries[j].key
        /\ t.entries[i].key < t.entries[j + 1].key
        /\ t.entries[i + 1].key < t.entries[j + 1].key
    BY <2>1 DEF Sorted
  <2> QED
    BY <1>5, <2>1, <2>2
<1>8. delta \in Delta
  BY <1>4 DEF Delta
<1>9. Follows(t, q, delta)
  <2> SUFFICES ASSUME NEW r \in NeighTable, Same(r, t)
               PROVE  /\ ~NegativeLength(r, delta)
                      /\ Apply(r, delta) \in NeighTable /\ Same(Apply(r, delta), q)
    BY DEF Follows
  <2>1. /\ r.num = t.num /\ r.entries \in [Index -> Entry]
        /\ \A i \in 0 .. t.num - 1 : r.entries[i] = t.entries[i]
    BY DEF Same, NeighTable
  <2> DEFINE g == Memmove(r.entries, p, p + 1, num - p)
  <2>2. Apply(r, delta) = [entries |-> g, num |-> num]
    BY DEF Apply, ApplyDel
  <2>3. /\ g \in [Index -> Entry]
        /\ \A i \in 0 .. num - 1 : g[i] = IF i < p THEN r.entries[i] ELSE r.entries[i + 1]
    BY <1>4, <2>1, RemoveFacts
  <2>4. ~NegativeLength(r, delta)
    BY DEF NegativeLength
  <2> HIDE DEF g, q, delta
  <2>5. Apply(r, delta) \in NeighTable
    BY <1>4, <2>2, <2>3 DEF NeighTable
  <2>6. \A i \in 0 .. num - 1 : g[i] = f[i]
    <3> SUFFICES ASSUME NEW i \in 0 .. num - 1 PROVE g[i] = f[i]
      OBVIOUS
    <3>1. i \in 0 .. t.num - 1 /\ i + 1 \in 0 .. t.num - 1
      BY <1>0, <1>4
    <3> QED
      BY <1>5, <2>1, <2>3, <3>1
  <2>7. Same(Apply(r, delta), q)
    BY <1>6, <2>2, <2>6 DEF Same
  <2> QED
    BY <2>4, <2>5, <2>7
<1> QED
  BY <1>3, <1>6, <1>7, <1>8, <1>9

-----------------------------------------------------------------------------
(* The tables the deltas under way lead through.                           *)

\* tr holds the table before and after each message of q, and no message
\* finds a table it does not fit.
Trace(tr, r, q) ==
  /\ tr \in [0 .. Len(q) -> NeighTable]
  /\ tr[0] = r
  /\ \A n \in 1 .. Len(q) :
       IF IsDelta(q[n])
       THEN ~NegativeLength(tr[n - 1], q[n]) /\ tr[n] = Apply(tr[n - 1], q[n])
       ELSE tr[n] = tr[n - 1]

LEMMA TraceIsTables ==
  ASSUME NEW S, NEW q \in Seq(S), NEW r, NEW tr, Trace(tr, r, q)
  PROVE  Tables(r, q) = tr
<1> DEFINE Body(f) == [n \in 0 .. Len(q) |->
                         IF n = 0 THEN r
                         ELSE IF IsDelta(q[n]) THEN Apply(f[n - 1], q[n]) ELSE f[n - 1]]
           after == CHOOSE f : f = Body(f)
<1>1. Len(q) \in Nat
  OBVIOUS
<1>2. \A n \in 0 .. Len(q) :
        tr[n] = IF n = 0 THEN r
                ELSE IF IsDelta(q[n]) THEN Apply(tr[n - 1], q[n]) ELSE tr[n - 1]
  <2> SUFFICES ASSUME NEW n \in 0 .. Len(q), n # 0
               PROVE  tr[n] = IF IsDelta(q[n]) THEN Apply(tr[n - 1], q[n]) ELSE tr[n - 1]
    BY DEF Trace
  <2>1. n \in 1 .. Len(q)
    BY <1>1
  <2> QED
    BY <2>1 DEF Trace
<1>3. tr = Body(tr)
  <2>1. tr = [n \in 0 .. Len(q) |-> tr[n]]
    BY DEF Trace
  <2> QED
    BY <1>2, <2>1
<1>4. after = Body(after)
  BY <1>3, Zenon
<1>5. Tables(r, q) = after
  BY Zenon DEF Tables
<1> HIDE DEF after
<1> DEFINE Good == {n \in 0 .. Len(q) : after[n] = tr[n]}
           id == [n \in 0 .. Len(q) |-> n]
<1>6. /\ after[0] = r
      /\ \A n \in 1 .. Len(q) :
           after[n] = IF IsDelta(q[n]) THEN Apply(after[n - 1], q[n]) ELSE after[n - 1]
  <2>1. \A n \in 0 .. Len(q) :
          after[n] = IF n = 0 THEN r
                     ELSE IF IsDelta(q[n]) THEN Apply(after[n - 1], q[n]) ELSE after[n - 1]
    BY <1>4
  <2>2. 0 \in 0 .. Len(q) /\ \A n \in 1 .. Len(q) : n \in 0 .. Len(q) /\ n # 0
    BY <1>1
  <2> QED
    BY <2>1, <2>2
<1>7. id[0] \in Good
  BY <1>1, <1>6 DEF Trace
<1>8. ASSUME NEW n \in 1 .. Len(q), id[n - 1] \in Good PROVE id[n] \in Good
  <2>1. n - 1 \in 0 .. Len(q) /\ n \in 0 .. Len(q) /\ n # 0
    BY <1>1
  <2>2. after[n - 1] = tr[n - 1]
    BY <1>8, <2>1
  <2> QED
    BY <1>2, <1>6, <2>1, <2>2
<1>9. \A n \in 0 .. Len(q) : id[n] \in Good
  <2> HIDE DEF id, Good
  <2> QED
    BY <1>1, <1>7, <1>8, RunInduction
<1>10. \A n \in 0 .. Len(q) : after[n] = tr[n]
  BY <1>9
<1>11. after = tr
  <2>1. after = [n \in 0 .. Len(q) |-> after[n]]
    BY <1>4
  <2>2. tr = [n \in 0 .. Len(q) |-> tr[n]]
    BY DEF Trace
  <2> QED
    BY <1>10, <2>1, <2>2
<1> QED
  BY <1>5, <1>11

\* The oldest message is applied.
LEMMA TraceTail ==
  ASSUME NEW S, NEW q \in Seq(S), q # <<>>, NEW r, NEW tr, Trace(tr, r, q)
  PROVE  /\ IsDelta(Head(q)) => ~NegativeLength(r, Head(q)) /\ tr[1] = Apply(r, Head(q))
         /\ ~IsDelta(Head(q)) => tr[1] = r
         /\ \E u : Trace(u, tr[1], Tail(q)) /\ u[Len(Tail(q))] = tr[Len(q)]
<1> DEFINE u == [n \in 0 .. Len(Tail(q)) |-> tr[n + 1]]
<1>1. /\ Len(q) \in Nat /\ Len(Tail(q)) = Len(q) - 1 /\ 1 \in 1 .. Len(q)
      /\ Head(q) = q[1] /\ Len(Tail(q)) \in Nat
      /\ \A n \in 1 .. Len(Tail(q)) : Tail(q)[n] = q[n + 1]
  OBVIOUS
<1>2. tr[0] = r /\ tr \in [0 .. Len(q) -> NeighTable]
  BY DEF Trace
<1>3. /\ IsDelta(Head(q)) => ~NegativeLength(r, Head(q)) /\ tr[1] = Apply(r, Head(q))
      /\ ~IsDelta(Head(q)) => tr[1] = r
  <2>1. IF IsDelta(q[1])
        THEN ~NegativeLength(tr[1 - 1], q[1]) /\ tr[1] = Apply(tr[1 - 1], q[1])
        ELSE tr[1] = tr[1 - 1]
    BY <1>1 DEF Trace
  <2>2. 1 - 1 = 0
    OBVIOUS
  <2> QED
    BY <1>1, <1>2, <2>1, <2>2
<1>4. /\ \A n \in 0 .. Len(Tail(q)) : u[n] = tr[n + 1] /\ tr[n + 1] \in NeighTable
      /\ u \in [0 .. Len(Tail(q)) -> NeighTable]
  <2>1. \A n \in 0 .. Len(Tail(q)) : n + 1 \in 0 .. Len(q)
    BY <1>1
  <2> QED
    BY <1>2, <2>1
<1>5. u[0] = tr[1] /\ u[Len(Tail(q))] = tr[Len(q)]
  <2>1. /\ 0 \in 0 .. Len(Tail(q)) /\ 0 + 1 = 1
        /\ Len(Tail(q)) \in 0 .. Len(Tail(q)) /\ Len(Tail(q)) + 1 = Len(q)
    BY <1>1
  <2> QED
    BY <1>4, <2>1
<1> HIDE DEF u
<1>6. ASSUME NEW n \in 1 .. Len(Tail(q))
      PROVE  IF IsDelta(Tail(q)[n])
             THEN ~NegativeLength(u[n - 1], Tail(q)[n]) /\ u[n] = Apply(u[n - 1], Tail(q)[n])
             ELSE u[n] = u[n - 1]
  <2>1. /\ n + 1 \in 1 .. Len(q) /\ n - 1 \in 0 .. Len(Tail(q)) /\ n \in 0 .. Len(Tail(q))
        /\ (n - 1) + 1 = (n + 1) - 1
    BY <1>1
  <2>2. u[n] = tr[n + 1] /\ u[n - 1] = tr[(n + 1) - 1] /\ Tail(q)[n] = q[n + 1]
    BY <1>1, <1>4, <2>1
  <2>3. IF IsDelta(q[n + 1])
        THEN ~NegativeLength(tr[(n + 1) - 1], q[n + 1]) /\ tr[n + 1] = Apply(tr[(n + 1) - 1], q[n + 1])
        ELSE tr[n + 1] = tr[(n + 1) - 1]
    BY <2>1 DEF Trace
  <2> QED
    BY <2>2, <2>3
<1>7. Trace(u, tr[1], Tail(q))
  BY <1>4, <1>5, <1>6 DEF Trace
<1> QED
  BY <1>3, <1>5, <1>7

\* A message is sent.
LEMMA TraceAppend ==
  ASSUME NEW S, NEW q \in Seq(S), NEW m \in S, NEW r, NEW tr, Trace(tr, r, q),
         NEW x \in NeighTable,
         IF IsDelta(m)
         THEN ~NegativeLength(tr[Len(q)], m) /\ x = Apply(tr[Len(q)], m)
         ELSE x = tr[Len(q)]
  PROVE  \E u : Trace(u, r, Append(q, m)) /\ u[Len(Append(q, m))] = x
<1> DEFINE p == Append(q, m)
           u == [n \in 0 .. Len(p) |-> IF n = Len(p) THEN x ELSE tr[n]]
<1>1. /\ Len(q) \in Nat /\ Len(p) = Len(q) + 1 /\ p[Len(p)] = m
      /\ \A n \in 1 .. Len(q) : p[n] = q[n]
  OBVIOUS
<1> HIDE DEF p
<1>2. tr[0] = r /\ tr \in [0 .. Len(q) -> NeighTable]
  BY DEF Trace
<1>3. \A n \in 0 .. Len(p) : n # Len(p) => n \in 0 .. Len(q)
  BY <1>1
<1>4. u \in [0 .. Len(p) -> NeighTable]
  BY <1>2, <1>3
<1>5. /\ u[Len(p)] = x /\ \A n \in 0 .. Len(q) : u[n] = tr[n]
  BY <1>1
<1> HIDE DEF u
<1>6. u[0] = r
  BY <1>1, <1>2, <1>5
<1>7. ASSUME NEW n \in 1 .. Len(p)
      PROVE  IF IsDelta(p[n])
             THEN ~NegativeLength(u[n - 1], p[n]) /\ u[n] = Apply(u[n - 1], p[n])
             ELSE u[n] = u[n - 1]
  <2>1. CASE n = Len(p)
    <3>1. n - 1 = Len(q) /\ Len(q) \in 0 .. Len(q)
      BY <1>1, <2>1
    <3> QED
      BY <1>1, <1>5, <2>1, <3>1
  <2>2. CASE n # Len(p)
    <3>1. n \in 1 .. Len(q) /\ n \in 0 .. Len(q) /\ n - 1 \in 0 .. Len(q)
      BY <1>1, <2>2
    <3>2. u[n] = tr[n] /\ u[n - 1] = tr[n - 1] /\ p[n] = q[n]
      BY <1>1, <1>5, <3>1
    <3> QED
      BY <3>1, <3>2 DEF Trace
  <2> QED
    BY <2>1, <2>2
<1>8. Trace(u, r, p)
  BY <1>4, <1>6, <1>7 DEF Trace
<1> QED
  BY <1>5, <1>8 DEF p

\* Messages that are not about neighbours are sent.
LEMMA TraceOthers ==
  ASSUME NEW S, NEW q \in Seq(S), NEW s \in Seq(S), NEW r, NEW tr, Trace(tr, r, q),
         \A i \in 1 .. Len(s) : ~IsDelta(s[i])
  PROVE  \E u : Trace(u, r, q \o s) /\ u[Len(q \o s)] = tr[Len(q)]
<1> DEFINE p == q \o s
           u == [n \in 0 .. Len(p) |-> IF n <= Len(q) THEN tr[n] ELSE tr[Len(q)]]
<1>1. /\ Len(q) \in Nat /\ Len(s) \in Nat /\ Len(p) = Len(q) + Len(s)
      /\ \A n \in 1 .. Len(q) : p[n] = q[n]
  OBVIOUS
<1>2. \A n \in 1 .. Len(p) : Len(q) < n => ~IsDelta(p[n])
  <2> SUFFICES ASSUME NEW n \in 1 .. Len(p), Len(q) < n PROVE ~IsDelta(p[n])
    OBVIOUS
  <2>1. p[n] = s[n - Len(q)] /\ n - Len(q) \in 1 .. Len(s)
    BY <1>1
  <2> QED
    BY <2>1
<1> HIDE DEF p
<1>3. tr[0] = r /\ tr \in [0 .. Len(q) -> NeighTable]
  BY DEF Trace
<1>4. \A n \in 0 .. Len(p) : n <= Len(q) => n \in 0 .. Len(q)
  BY <1>1
<1>5. u \in [0 .. Len(p) -> NeighTable]
  <2>1. Len(q) \in 0 .. Len(q)
    BY <1>1
  <2> QED
    BY <1>3, <1>4, <2>1
<1>6. /\ \A n \in 0 .. Len(q) : u[n] = tr[n]
      /\ \A n \in 0 .. Len(p) : Len(q) <= n => u[n] = tr[Len(q)]
  BY <1>1
<1> HIDE DEF u
<1>7. u[0] = r /\ u[Len(p)] = tr[Len(q)]
  <2>1. 0 \in 0 .. Len(q) /\ Len(p) \in 0 .. Len(p) /\ Len(q) <= Len(p)
    BY <1>1
  <2> QED
    BY <1>3, <1>6, <2>1
<1>8. ASSUME NEW n \in 1 .. Len(p)
      PROVE  IF IsDelta(p[n])
             THEN ~NegativeLength(u[n - 1], p[n]) /\ u[n] = Apply(u[n - 1], p[n])
             ELSE u[n] = u[n - 1]
  <2>1. CASE Len(q) < n
    <3>1. Len(q) <= n - 1 /\ Len(q) <= n /\ n - 1 \in 0 .. Len(p) /\ n \in 0 .. Len(p)
      BY <1>1, <2>1
    <3> QED
      BY <1>2, <1>6, <2>1, <3>1
  <2>2. CASE ~(Len(q) < n)
    <3>1. n \in 1 .. Len(q) /\ n \in 0 .. Len(q) /\ n - 1 \in 0 .. Len(q)
      BY <1>1, <2>2
    <3>2. u[n] = tr[n] /\ u[n - 1] = tr[n - 1] /\ p[n] = q[n]
      BY <1>1, <1>6, <3>1
    <3> QED
      BY <3>1, <3>2 DEF Trace
  <2> QED
    BY <2>1, <2>2
<1>9. Trace(u, r, p)
  BY <1>5, <1>7, <1>8 DEF Trace
<1> QED
  BY <1>7, <1>9 DEF p

-----------------------------------------------------------------------------
(* Sequences of messages.                                                  *)

LEMMA SendFacts ==
  ASSUME NEW S, NEW q \in Seq(S), NEW msgs \in Seq(S), NEW size \in Nat
  PROVE  \E s \in Seq(S) :
           /\ Send(q, size, msgs) = q \o s
           /\ \A i \in 1 .. Len(s) : i \in 1 .. Len(msgs) /\ s[i] = msgs[i]
<1> DEFINE M == {Len(msgs), size - Len(q)}
           n == Min(M)
           s == SubSeq(msgs, 1, n)
<1>1. Len(msgs) \in Nat /\ size - Len(q) \in Int
  OBVIOUS
<1>2. \E x \in M : \A y \in M : x <= y
  BY <1>1
<1>3. n \in M /\ \A y \in M : n <= y
  BY <1>2, Zenon DEF Min
<1>4. n \in Int /\ n <= Len(msgs)
  BY <1>1, <1>3
<1>5. Send(q, size, msgs) = q \o s
  BY Zenon DEF Send
<1> HIDE DEF n
<1>6. /\ s \in Seq(S)
      /\ \A i \in 1 .. Len(s) : i \in 1 .. Len(msgs) /\ s[i] = msgs[i]
  <2>1. CASE n < 1
    <3>1. s = <<>>
      BY <1>4, <2>1
    <3> HIDE DEF s
    <3> QED
      BY <3>1
  <2>2. CASE 1 <= n
    <3>1. n \in Nat /\ n <= Len(msgs)
      BY <1>4, <2>2
    <3>2. Len(s) = n /\ \A i \in 1 .. n : s[i] = msgs[i]
      BY <1>1, <3>1
    <3>3. \A i \in 1 .. n : i \in 1 .. Len(msgs)
      BY <1>1, <3>1
    <3>4. s \in Seq(S)
      BY <1>1, <3>1
    <3> QED
      BY <3>2, <3>3, <3>4
  <2> QED
    BY <1>4, <2>1, <2>2
<1> QED
  BY <1>5, <1>6

LEMMA SiteFacts ==
  ASSUME site \in Site
  PROVE  /\ site.key \subseteq Key /\ site.tap \subseteq Tap /\ site.addr \subseteq Addr
         /\ site.lladdr \in [site.key -> SUBSET (Mac \cup {None})]
         /\ site.field \subseteq Field
         /\ DOMAIN site.kernel \subseteq site.key
         /\ IsFiniteSet(site.key) /\ IsFiniteSet(site.tap)
         /\ \A k \in DOMAIN site.kernel : site.kernel[k] \in Mac \cup {None}
         /\ DOMAIN site.dev \subseteq site.tap
         /\ \A t \in DOMAIN site.dev :
              /\ site.dev[t] \in Device /\ site.dev[t].addr["mac"] # Zero
              /\ site.dev[t].idx <= Cardinality(DOMAIN site.dev)
         /\ \A t, u \in DOMAIN site.dev : site.dev[t].idx = site.dev[u].idx => t = u
         /\ site.wait \/ DOMAIN site.kernel = {}
BY SiteAssumption, Zenon

DItem ==
  [tap : site.tap, fields : {{"mac"}, {"v4"}, {"v6", "ll"}}] \cup [key : site.key, fields : {{}}]

LEMMA DumpParts ==
  ASSUME site \in Site
  PROVE  /\ DumpOf({"mac"}) \in Seq(DItem) /\ DumpOf({"v4"}) \in Seq(DItem)
         /\ DumpOf({"v6", "ll"}) \in Seq(DItem) /\ DumpNeigh \in Seq(DItem)
<1> DEFINE T == [tap : site.tap, fields : {{"mac"}, {"v4"}, {"v6", "ll"}}]
           K == [key : site.key, fields : {{}}]
           taps == SetToSeq(site.tap)
           keys == SetToSeq(site.key)
<1>1. taps \in Seq(site.tap) /\ keys \in Seq(site.key)
  BY SiteFacts, SetToSeqFacts
<1>2. ASSUME NEW fs \in {{"mac"}, {"v4"}, {"v6", "ll"}}
      PROVE  DumpOf(fs) \in Seq(DItem)
  <2>1. DumpOf(fs) = [i \in DOMAIN taps |-> [tap |-> taps[i], fields |-> fs]]
    BY DEF DumpOf
  <2> HIDE DEF taps
  <2>2. \A i \in DOMAIN taps : [tap |-> taps[i], fields |-> fs] \in DItem
    BY <1>1 DEF DItem
  <2>3. DOMAIN taps = 1 .. Len(taps) /\ Len(taps) \in Nat
    BY <1>1
  <2> QED
    BY <2>1, <2>2, <2>3
<1>3. DumpNeigh \in Seq(DItem)
  <2>1. DumpNeigh = [i \in DOMAIN keys |-> [key |-> keys[i], fields |-> {}]]
    BY DEF DumpNeigh
  <2> HIDE DEF keys
  <2>2. \A i \in DOMAIN keys : [key |-> keys[i], fields |-> {}] \in DItem
    BY <1>1 DEF DItem
  <2>3. DOMAIN keys = 1 .. Len(keys) /\ Len(keys) \in Nat
    BY <1>1
  <2> QED
    BY <2>1, <2>2, <2>3
<1> QED
  BY <1>2, <1>3

LEMMA DumpFacts ==
  ASSUME site \in Site
  PROVE  Dump \in Seq(DItem)
BY DumpParts DEF Dump

-----------------------------------------------------------------------------
(* The inductive invariant: types, and the order of the master table.      *)

Other == AddrMsg \cup IfMsg
Msg == Delta \cup Other
RouterIf == [tap : Tap \cup {NoName}, extent : 0 .. 15, addr : [Field -> Addr \cup {Zero}]]

KernelTyped ==
  /\ site \in Site
  /\ DOMAIN kernel \subseteq Key
  /\ \A k \in DOMAIN kernel : kernel[k] \in Mac \cup {None}
  /\ DOMAIN dev \subseteq Tap
  /\ \A t \in DOMAIN dev : dev[t] \in Device /\ dev[t].addr["mac"] # Zero
  /\ lastIdx \in Nat /\ gone \subseteq Tap
  /\ events \in Seq(NeighEvent \cup IfEvent)

RouterTyped ==
  /\ pos \in Blocked .. Len(Dump) + 1
  /\ rif \in [Slot -> RouterIf] /\ clean \subseteq Slot

TablesTyped ==
  /\ neighq \in Seq(Event) /\ ribq \in Seq(Msg)
  /\ master \in NeighTable /\ Sorted(master)
  /\ rib \in NeighTable /\ crashed \in BOOLEAN

NetlinkInv == KernelTyped /\ RouterTyped /\ TablesTyped

LEMMA OtherFacts ==
  ASSUME NEW m \in Other
  PROVE  ~IsDelta(m)
BY DEF Other, AddrMsg, IfMsg, IsDelta

LEMMA DeltaFacts ==
  ASSUME NEW m \in Msg
  PROVE  /\ IsDelta(m) => m \in Delta
         /\ ~IsDelta(m) => m \in Other
<1>1. m \in Delta => IsDelta(m)
  BY DEF Delta, IsDelta
<1> QED
  BY <1>1, OtherFacts DEF Msg

LEMMA DeviceFacts ==
  ASSUME KernelTyped, NEW t \in DOMAIN dev
  PROVE  /\ t \in Tap /\ dev[t].idx \in 1 .. MaxIdx
         /\ dev[t].addr \in [Field -> Addr \cup {Zero}]
         /\ dev[t] = [idx |-> dev[t].idx, addr |-> dev[t].addr]
         /\ dev[t].addr["mac"] # Zero
BY DEF KernelTyped, Device

LEMMA IfEvFacts ==
  ASSUME KernelTyped, NEW t \in DOMAIN dev, NEW f \in Field, NEW op \in {"new", "del"}
  PROVE  /\ dev[t].addr[f] # Zero => IfEv(op, t, f) \in IfEvent
         /\ \A a \in Addr : [IfEv(op, t, f) EXCEPT !.val = a] \in IfEvent
<1>1. dev[t].idx \in 1 .. MaxIdx /\ dev[t].addr[f] \in Addr \cup {Zero}
  BY DeviceFacts
<1> QED
  BY <1>1 DEF IfEv, IfEvent

-----------------------------------------------------------------------------
(* The kernel's steps.                                                     *)

\* The removal of a device is announced by the loss of its addresses.
LEMMA LinkGoneEvents ==
  ASSUME KernelTyped, NEW t, KernelLinkGone(t)
  PROVE  \E s \in Seq(IfEvent) : /\ events' = events \o s
                                 /\ \A i \in 1 .. Len(s) : s[i].idx = dev[t].idx
<1> DEFINE held == {f \in Kind : dev[t].addr[f] # Zero}
           addrs == SetToSeq(held)
           evs == [i \in DOMAIN addrs |-> IfEv("del", t, addrs[i])]
<1>1. t \in DOMAIN dev /\ IfEv("del", t, "mac") \in IfEvent
  <2>1. t \in DOMAIN dev
    BY DEF KernelLinkGone
  <2>2. "mac" \in Field
    BY DEF Field
  <2> QED
    BY <2>1, <2>2, DeviceFacts, IfEvFacts
<1>2. addrs \in Seq(held)
  <2>1. IsFiniteSet(Kind)
    <3>1. Kind = {"v4", "v6"} \cup {"ll"}
      BY DEF Kind
    <3>2. IsFiniteSet({"v4", "v6"} \cup {"ll"})
      BY PairIsFinite, FS_AddElement, Zenon
    <3> QED
      BY <3>1, <3>2
  <2>2. IsFiniteSet(held)
    BY <2>1, FS_Subset
  <2> QED
    BY <2>2, SetToSeqFacts
<1>3. \A f \in held : IfEv("del", t, f) \in IfEvent
  BY <1>1, IfEvFacts DEF Field
<1>4. evs \in Seq(IfEvent)
  <2> HIDE DEF addrs, held
  <2>1. DOMAIN addrs = 1 .. Len(addrs) /\ Len(addrs) \in Nat
    BY <1>2
  <2>2. \A i \in DOMAIN addrs : IfEv("del", t, addrs[i]) \in IfEvent
    BY <1>2, <1>3
  <2> QED
    BY <2>1, <2>2
<1>5. events' = events \o (evs \o <<IfEv("del", t, "mac")>>)
  BY DEF KernelLinkGone, Notify
<1>6. \A i \in 1 .. Len(evs) : evs[i].idx = dev[t].idx
  <2> HIDE DEF addrs
  <2> QED
    BY <1>4 DEF IfEv
<1> HIDE DEF evs
<1>7. PICK e \in IfEvent : e = IfEv("del", t, "mac") /\ e.idx = dev[t].idx
  BY <1>1 DEF IfEv
<1>8. /\ evs \o <<e>> \in Seq(IfEvent)
      /\ \A i \in 1 .. Len(evs \o <<e>>) : (evs \o <<e>>)[i].idx = dev[t].idx
  BY <1>4, <1>6, <1>7
<1> QED
  BY <1>5, <1>7, <1>8

LEMMA KernelSteps ==
  ASSUME KernelTyped, Kernel
  PROVE  KernelTyped'
<1>0. site' = site /\ site \in Site
  BY DEF Kernel, KernelTyped
<1>1. /\ site.key \subseteq Key /\ site.tap \subseteq Tap /\ site.addr \subseteq Addr
      /\ site.lladdr \in [site.key -> SUBSET (Mac \cup {None})]
      /\ site.field \subseteq Field
  BY <1>0, SiteFacts
<1>2. /\ DOMAIN kernel \subseteq Key
      /\ \A k \in DOMAIN kernel : kernel[k] \in Mac \cup {None}
      /\ DOMAIN dev \subseteq Tap
      /\ \A t \in DOMAIN dev : dev[t] \in Device /\ dev[t].addr["mac"] # Zero
      /\ lastIdx \in Nat /\ gone \subseteq Tap
      /\ events \in Seq(NeighEvent \cup IfEvent)
  BY DEF KernelTyped
<1>3. \A e \in NeighEvent \cup IfEvent : events \o <<e>> \in Seq(NeighEvent \cup IfEvent)
  BY <1>2
<1>4. ASSUME NEW k \in site.key, KernelNeighGone(k) PROVE KernelTyped'
  <2> DEFINE e == [of |-> "neigh", op |-> "del", key |-> k, mac |-> None]
  <2>1. e \in NeighEvent
    BY <1>1 DEF NeighEvent
  <2>2. events' \in Seq(NeighEvent \cup IfEvent)
    BY <1>3, <1>4, <2>1 DEF KernelNeighGone, Notify
  <2>3. /\ DOMAIN kernel' \subseteq Key
        /\ \A j \in DOMAIN kernel' : kernel'[j] \in Mac \cup {None}
    BY <1>2, <1>4 DEF KernelNeighGone
  <2> QED
    BY <1>0, <1>2, <1>4, <2>2, <2>3 DEF KernelTyped, KernelNeighGone
<1>5. ASSUME NEW k \in site.key, NEW m \in site.lladdr[k], KernelNeigh(k, m)
      PROVE  KernelTyped'
  <2> DEFINE e == [of |-> "neigh", op |-> "new", key |-> k, mac |-> m]
  <2>1. e \in NeighEvent
    BY <1>1 DEF NeighEvent
  <2>2. events' \in Seq(NeighEvent \cup IfEvent)
    BY <1>3, <1>5, <2>1 DEF KernelNeigh, Notify
  <2>3. /\ DOMAIN kernel' \subseteq Key
        /\ \A j \in DOMAIN kernel' : kernel'[j] \in Mac \cup {None}
    BY <1>1, <1>2, <1>5 DEF KernelNeigh
  <2> QED
    BY <1>0, <1>2, <1>5, <2>2, <2>3 DEF KernelTyped, KernelNeigh
<1>6. ASSUME NEW t \in site.tap, KernelUnbridge(t) PROVE KernelTyped'
  <2>1. t \in DOMAIN dev /\ IfEv("del", t, "mac") \in IfEvent
    <3>1. t \in DOMAIN dev
      BY <1>6 DEF KernelUnbridge
    <3>2. "mac" \in Field
      BY DEF Field
    <3> QED
      BY <3>1, <3>2, DeviceFacts, IfEvFacts
  <2>2. events' \in Seq(NeighEvent \cup IfEvent)
    BY <1>3, <1>6, <2>1 DEF KernelUnbridge, Notify
  <2> QED
    BY <1>0, <1>2, <1>6, <2>2 DEF KernelTyped, KernelUnbridge, kernelVars
<1>7. ASSUME NEW t \in site.tap, KernelLinkGone(t) PROVE KernelTyped'
  <2>5. PICK evs \in Seq(IfEvent) : events' = events \o evs
    BY <1>7, LinkGoneEvents
  <2>6. events' \in Seq(NeighEvent \cup IfEvent)
    <3>1. evs \in Seq(NeighEvent \cup IfEvent)
      OBVIOUS
    <3> QED
      BY <1>2, <2>5, <3>1
  <2>7. /\ DOMAIN dev' \subseteq Tap
        /\ \A u \in DOMAIN dev' : dev'[u] \in Device /\ dev'[u].addr["mac"] # Zero
        /\ gone' \subseteq Tap
    BY <1>1, <1>2, <1>7 DEF KernelLinkGone
  <2> QED
    BY <1>0, <1>2, <1>7, <2>6, <2>7 DEF KernelTyped, KernelLinkGone
<1>8. ASSUME NEW t \in DOMAIN dev, NEW f \in Field, NEW a \in Addr \cup {Zero},
             f = "mac" => a # Zero, dev' = [dev EXCEPT ![t].addr[f] = a]
      PROVE  /\ DOMAIN dev' \subseteq Tap
             /\ \A u \in DOMAIN dev' : dev'[u] \in Device /\ dev'[u].addr["mac"] # Zero
  <2> DEFINE ad == [dev[t].addr EXCEPT ![f] = a]
  <2>1. /\ dev[t].idx \in 1 .. MaxIdx
        /\ dev[t].addr \in [Field -> Addr \cup {Zero}]
        /\ dev[t] = [idx |-> dev[t].idx, addr |-> dev[t].addr]
        /\ dev[t].addr["mac"] # Zero
    BY DeviceFacts
  <2>2. ad \in [Field -> Addr \cup {Zero}] /\ ad["mac"] # Zero
    <3>1. "mac" \in Field
      BY DEF Field
    <3> QED
      BY <1>8, <2>1, <3>1
  <2>3. DOMAIN dev' = DOMAIN dev /\ \A u \in DOMAIN dev : u # t => dev'[u] = dev[u]
    BY <1>8
  <2>4. dev'[t] = [idx |-> dev[t].idx, addr |-> ad]
    BY <1>8, <2>1
  <2> HIDE DEF ad
  <2>5. dev'[t] \in Device /\ dev'[t].addr["mac"] # Zero
    BY <2>1, <2>2, <2>4 DEF Device
  <2> QED
    BY <1>2, <2>3, <2>5
<1>9. ASSUME NEW t \in site.tap, NEW f \in site.field, KernelAddrGone(t, f)
      PROVE  KernelTyped'
  <2>1. /\ t \in DOMAIN dev /\ f \in Field /\ f # "mac" /\ dev[t].addr[f] # Zero
        /\ dev' = [dev EXCEPT ![t].addr[f] = Zero]
        /\ events' = events \o <<IfEv("del", t, f)>>
        /\ UNCHANGED <<kernel, lastIdx, gone>>
    BY <1>1, <1>9 DEF KernelAddrGone, Notify
  <2>2. events' \in Seq(NeighEvent \cup IfEvent)
    BY <1>3, <2>1, IfEvFacts
  <2>3. /\ DOMAIN dev' \subseteq Tap
        /\ \A u \in DOMAIN dev' : dev'[u] \in Device /\ dev'[u].addr["mac"] # Zero
    BY <1>8, <2>1
  <2> QED
    BY <1>0, <1>2, <2>1, <2>2, <2>3 DEF KernelTyped
<1>10. ASSUME NEW t \in site.tap, NEW f \in site.field, NEW a \in site.addr, KernelAddr(t, f, a)
      PROVE  KernelTyped'
  <2>1. /\ t \in DOMAIN dev /\ f \in Field /\ a \in Addr /\ a # Zero
        /\ dev' = [dev EXCEPT ![t].addr[f] = a]
        /\ events' = events \o <<[IfEv("new", t, f) EXCEPT !.val = a]>>
        /\ UNCHANGED <<kernel, lastIdx, gone>>
    BY <1>1, <1>10, AddrAssumption DEF KernelAddr, Notify
  <2>2. [IfEv("new", t, f) EXCEPT !.val = a] \in IfEvent
    BY <2>1, IfEvFacts
  <2>3. events' \in Seq(NeighEvent \cup IfEvent)
    BY <1>3, <2>1, <2>2
  <2>4. /\ DOMAIN dev' \subseteq Tap
        /\ \A u \in DOMAIN dev' : dev'[u] \in Device /\ dev'[u].addr["mac"] # Zero
    BY <1>8, <2>1
  <2> QED
    BY <1>0, <1>2, <2>1, <2>3, <2>4 DEF KernelTyped
<1> QED
  BY <1>4, <1>5, <1>6, <1>7, <1>9, <1>10 DEF Kernel

-----------------------------------------------------------------------------
(* The steps of netlink_thread and of the commands: nothing about          *)
(* neighbours is sent to rib_manager.                                      *)

LEMMA IfMsgOfFacts ==
  ASSUME KernelTyped, NEW op \in {"new", "del"}, NEW idx, NEW f \in Field, NEW a \in Addr
  PROVE  IfMsgOf(op, idx, f, a) \in Other
<1>1. NameOf(idx) \in Tap \cup {NoName}
  <2>1. CASE \E t \in DOMAIN dev : dev[t].idx = idx
    <3>1. NameOf(idx) = CHOOSE t \in DOMAIN dev : dev[t].idx = idx
      BY <2>1, Zenon DEF NameOf
    <3>2. NameOf(idx) \in DOMAIN dev
      BY <2>1, <3>1, Zenon
    <3> QED
      BY <3>2 DEF KernelTyped
  <2>2. CASE ~\E t \in DOMAIN dev : dev[t].idx = idx
    BY <2>2, Zenon DEF NameOf
  <2> QED
    BY <2>1, <2>2
<1>2. AddrOp(op) \in {"addr_add", "addr_del"}
  BY DEF AddrOp
<1>3. "mac" \in Field
  BY DEF Field
<1> QED
  BY <1>1, <1>2, <1>3 DEF IfMsgOf, LinkMsg, IpMsg, Other, AddrMsg

LEMMA NeighMsgsFacts ==
  ASSUME NEW op \in {"new", "del"}, NEW k \in Key, NEW m \in Mac \cup {None}
  PROVE  NeighMsgs(op, k, m) \in Seq(Event)
<1> DEFINE d == [op |-> "del", data |-> [key |-> k, mac |-> None]]
           a == [op |-> "add", data |-> [key |-> k, mac |-> m]]
<1>1. d \in Event /\ a \in Event
  BY DEF Event, Entry
<1>2. NeighMsgs(op, k, m) \in {<<d>>, <<>>, <<a>>}
  BY DEF NeighMsgs
<1> HIDE DEF d, a
<1>3. <<d>> \in Seq(Event) /\ <<>> \in Seq(Event) /\ <<a>> \in Seq(Event)
  BY <1>1
<1> QED
  BY <1>2, <1>3

LEMMA NeighSent ==
  ASSUME TablesTyped, NEW op \in {"new", "del"}, NEW k \in Key, NEW m \in Mac \cup {None}
  PROVE  Send(neighq, NeighRing, NeighMsgs(op, k, m)) \in Seq(Event)
<1> DEFINE msgs == NeighMsgs(op, k, m)
<1>1. neighq \in Seq(Event) /\ NeighRing \in Nat
  BY RingAssumption DEF TablesTyped
<1>2. msgs \in Seq(Event)
  BY NeighMsgsFacts
<1> HIDE DEF msgs
<1>3. PICK s \in Seq(Event) :
        /\ Send(neighq, NeighRing, msgs) = neighq \o s
        /\ \A i \in 1 .. Len(s) : i \in 1 .. Len(msgs) /\ s[i] = msgs[i]
  BY <1>1, <1>2, SendFacts, ZenonT(40)
<1>4. Send(neighq, NeighRing, msgs) \in Seq(Event)
  BY <1>1, <1>3
<1> QED
  BY <1>4 DEF msgs

LEMMA OtherSent ==
  ASSUME TablesTyped, NEW msgs \in Seq(Other)
  PROVE  \E s \in Seq(Other) : Send(ribq, RibRing, msgs) = ribq \o s
<1>1. ribq \in Seq(Msg) /\ RibRing \in Nat /\ msgs \in Seq(Msg)
  BY RingAssumption DEF TablesTyped, Msg
<1>2. PICK s \in Seq(Msg) :
        /\ Send(ribq, RibRing, msgs) = ribq \o s
        /\ \A i \in 1 .. Len(s) : i \in 1 .. Len(msgs) /\ s[i] = msgs[i]
  BY <1>1, SendFacts, ZenonT(40)
<1>3. \A i \in 1 .. Len(s) : s[i] \in Other
  <2>1. \A i \in 1 .. Len(msgs) : msgs[i] \in Other
    OBVIOUS
  <2> QED
    BY <1>2, <2>1, Zenon
<1>4. s \in Seq(Other)
  BY <1>2, <1>3
<1> QED
  BY <1>2, <1>4

LEMMA OtherEnqueued ==
  ASSUME TablesTyped, NEW m \in Other
  PROVE  \E s \in Seq(Other) : Enqueue(ribq, RibRing, m) = ribq \o s
<1>1. ribq \in Seq(Msg)
  BY DEF TablesTyped
<1>2. Append(ribq, m) = ribq \o <<m>> /\ ribq = ribq \o <<>>
  BY <1>1 DEF Msg
<1>3. <<m>> \in Seq(Other) /\ <<>> \in Seq(Other)
  OBVIOUS
<1> QED
  BY <1>2, <1>3 DEF Enqueue

LEMMA ThreadSteps ==
  ASSUME NetlinkInv, NetlinkThread
  PROVE  /\ events' \in Seq(NeighEvent \cup IfEvent)
         /\ pos' \in Blocked .. Len(Dump) + 1
         /\ neighq' \in Seq(Event)
         /\ \E s \in Seq(Other) : ribq' = ribq \o s
         /\ UNCHANGED <<site, kernelVars, rif, clean, master, rib, crashed>>
<1>0. KernelTyped /\ RouterTyped /\ TablesTyped
  BY DEF NetlinkInv
<1>1. /\ site \in Site /\ events \in Seq(NeighEvent \cup IfEvent)
      /\ DOMAIN kernel \subseteq Key
      /\ \A k \in DOMAIN kernel : kernel[k] \in Mac \cup {None}
      /\ neighq \in Seq(Event) /\ ribq \in Seq(Msg)
  BY <1>0 DEF KernelTyped, TablesTyped
<1>2. Dump \in Seq(DItem) /\ Len(Dump) \in Nat /\ pos \in Int /\ pos \in Blocked .. Len(Dump) + 1
  <2>1. Dump \in Seq(DItem)
    BY <1>1, DumpFacts
  <2> HIDE DEF Dump
  <2> QED
    BY <1>0, <2>1 DEF RouterTyped, Blocked
<1>3. \E s \in Seq(Other) : ribq = ribq \o s
  <2>1. <<>> \in Seq(Other) /\ ribq = ribq \o <<>>
    BY <1>1
  <2> QED
    BY <2>1
<1>4. UNCHANGED <<site, kernelVars, rif, clean, master, rib, crashed>>
  BY DEF NetlinkThread
<1>5. CASE DumpItem
  <2> DEFINE item == Dump[pos]
  <2>1. pos \in 1 .. Len(Dump) /\ pos' = pos + 1 /\ events' = events
    BY <1>5 DEF DumpItem, Dumping
  <2>2. pos' \in Blocked .. Len(Dump) + 1
    <3> HIDE DEF Dump
    <3> QED
      BY <1>2, <2>1 DEF Blocked
  <2>3. item \in DItem
    <3> HIDE DEF Dump
    <3> QED
      BY <1>2, <2>1
  <2>4. /\ item.fields = {} =>
             /\ neighq' = IF item.key \in DOMAIN kernel
                          THEN Send(neighq, NeighRing, NeighMsgs("new", item.key, kernel[item.key]))
                          ELSE neighq
             /\ UNCHANGED ribq
        /\ item.fields # {} =>
             /\ ribq' = IF item.tap \in DOMAIN dev
                        THEN LET d == dev[item.tap]
                                 fs == SetToSeq({f \in item.fields : d.addr[f] # Zero})
                             IN  Send(ribq, RibRing,
                                      [i \in DOMAIN fs |->
                                         IfMsgOf("new", d.idx, fs[i], d.addr[fs[i]])])
                        ELSE ribq
             /\ UNCHANGED neighq
    BY <1>5, Zenon DEF DumpItem
  <2> HIDE DEF item
  <2>5. CASE item.fields = {}
    <3>1. item.key \in DOMAIN kernel =>
            Send(neighq, NeighRing, NeighMsgs("new", item.key, kernel[item.key])) \in Seq(Event)
      BY <1>0, <1>1, NeighSent
    <3>2. neighq' \in Seq(Event) /\ ribq' = ribq
      BY <1>1, <2>4, <2>5, <3>1
    <3> QED
      BY <1>1, <1>3, <1>4, <2>1, <2>2, <3>2
  <2>6. CASE item.fields # {}
    <3>1. neighq' = neighq
      BY <2>4, <2>6
    <3>2. CASE item.tap \notin DOMAIN dev
      <4>1. ribq' = ribq
        BY <2>4, <2>6, <3>2
      <4> QED
        BY <1>1, <1>3, <1>4, <2>1, <2>2, <3>1, <4>1
    <3>3. CASE item.tap \in DOMAIN dev
      <4> DEFINE d == dev[item.tap]
                 F == {f \in item.fields : d.addr[f] # Zero}
                 fs == SetToSeq(F)
                 msgs == [i \in DOMAIN fs |-> IfMsgOf("new", d.idx, fs[i], d.addr[fs[i]])]
      <4>1. ribq' = Send(ribq, RibRing, msgs)
        BY <2>4, <2>6, <3>3
      <4>2. item.fields \in {{"mac"}, {"v4"}, {"v6", "ll"}}
        BY <2>3, <2>6 DEF DItem
      <4>3. IsFiniteSet(item.fields) /\ item.fields \subseteq Field
        <5>2. IsFiniteSet({"mac"}) /\ IsFiniteSet({"v4"})
          BY FS_Singleton, Zenon
        <5>3. IsFiniteSet({"v6", "ll"})
          BY PairIsFinite, Zenon
        <5> QED
          BY <4>2, <5>2, <5>3 DEF Field, Kind
      <4>4. fs \in Seq(F)
        <5>1. IsFiniteSet(F)
          BY <4>3, FS_Subset
        <5> QED
          BY <5>1, SetToSeqFacts
      <4>5. \A f \in F : IfMsgOf("new", d.idx, f, d.addr[f]) \in Other
        <5> SUFFICES ASSUME NEW f \in F PROVE IfMsgOf("new", d.idx, f, d.addr[f]) \in Other
          OBVIOUS
        <5>1. f \in Field /\ d.addr[f] \in Addr
          BY <1>0, <3>3, <4>3, DeviceFacts
        <5> QED
          BY <1>0, <5>1, IfMsgOfFacts
      <4>6. msgs \in Seq(Other)
        <5> HIDE DEF fs, F, d
        <5>1. DOMAIN fs = 1 .. Len(fs) /\ Len(fs) \in Nat
          BY <4>4
        <5>2. \A i \in DOMAIN fs : IfMsgOf("new", d.idx, fs[i], d.addr[fs[i]]) \in Other
          BY <4>4, <4>5
        <5> QED
          BY <5>1, <5>2
      <4> HIDE DEF msgs
      <4>7. \E s \in Seq(Other) : ribq' = ribq \o s
        BY <1>0, <4>1, <4>6, OtherSent
      <4> QED
        BY <1>1, <1>4, <2>1, <2>2, <3>1, <4>7
    <3> QED
      BY <3>2, <3>3
  <2> QED
    BY <2>5, <2>6
<1>6. CASE DumpRefused
  <2>1. pos' = Blocked /\ UNCHANGED <<events, neighq, ribq>>
    BY <1>6 DEF DumpRefused
  <2>2. pos' \in Blocked .. Len(Dump) + 1
    <3> HIDE DEF Dump
    <3> QED
      BY <1>2, <2>1 DEF Blocked
  <2> QED
    BY <1>1, <1>3, <1>4, <2>1, <2>2
<1>7. CASE ReadEvent
  <2> DEFINE ev == Head(events)
  <2>1. /\ events # <<>> /\ events' = Tail(events) /\ pos' = pos
        /\ IF ev.of = "neigh"
           THEN neighq' = Send(neighq, NeighRing, NeighMsgs(ev.op, ev.key, ev.mac))
                /\ UNCHANGED ribq
           ELSE ribq' = Enqueue(ribq, RibRing, IfMsgOf(ev.op, ev.idx, ev.field, ev.val))
                /\ UNCHANGED neighq
    BY <1>7 DEF ReadEvent
  <2>2. ev \in NeighEvent \cup IfEvent /\ events' \in Seq(NeighEvent \cup IfEvent)
    BY <1>1, <2>1
  <2> HIDE DEF ev
  <2>3. CASE ev \in NeighEvent
    <3>1. /\ ev.of = "neigh" /\ ev.op \in {"new", "del"} /\ ev.key \in Key
          /\ ev.mac \in Mac \cup {None}
      BY <2>3 DEF NeighEvent
    <3>2. neighq' \in Seq(Event) /\ ribq' = ribq
      BY <1>0, <2>1, <3>1, NeighSent
    <3> QED
      BY <1>2, <1>3, <1>4, <2>1, <2>2, <3>2
  <2>4. CASE ev \in IfEvent
    <3>1. /\ ev.of # "neigh" /\ ev.op \in {"new", "del"} /\ ev.field \in Field
          /\ ev.val \in Addr
      BY <2>4 DEF IfEvent
    <3>2. IfMsgOf(ev.op, ev.idx, ev.field, ev.val) \in Other
      BY <1>0, <3>1, IfMsgOfFacts
    <3>3. neighq' = neighq /\ \E s \in Seq(Other) : ribq' = ribq \o s
      BY <1>0, <2>1, <3>1, <3>2, OtherEnqueued
    <3> QED
      BY <1>1, <1>2, <1>4, <2>1, <2>2, <3>3
  <2> QED
    BY <2>2, <2>3, <2>4
<1> QED
  BY <1>5, <1>6, <1>7 DEF NetlinkThread

LEMMA CommandSteps ==
  ASSUME NetlinkInv, Command
  PROVE  /\ events' = events
         /\ pos' \in Blocked .. Len(Dump) + 1
         /\ neighq' \in Seq(Event)
         /\ \E s \in Seq(Other) : ribq' = ribq \o s
         /\ UNCHANGED <<site, kernelVars, rif, clean, master, rib, crashed>>
<1>0. KernelTyped /\ RouterTyped /\ TablesTyped
  BY DEF NetlinkInv
<1>1. site \in Site /\ neighq \in Seq(Event) /\ ribq \in Seq(Msg) /\ site.tap \subseteq Tap
  BY <1>0, SiteFacts DEF KernelTyped, TablesTyped
<1>2. Len(Dump) \in Nat /\ pos \in Blocked .. Len(Dump) + 1
  <2>1. Dump \in Seq(DItem)
    BY <1>1, DumpFacts
  <2> HIDE DEF Dump
  <2> QED
    BY <1>0, <2>1 DEF RouterTyped
<1>3. UNCHANGED <<site, kernelVars, rif, clean, master, rib, crashed>>
  BY DEF Command
<1>4. ASSUME NEW m \in Other, Given(m)
      PROVE  /\ events' = events /\ pos' = pos /\ neighq' = neighq
             /\ \E s \in Seq(Other) : ribq' = ribq \o s
  BY <1>0, <1>4, OtherEnqueued DEF Given
<1>5. ASSUME NEW s \in Slot, NEW t \in site.tap
      PROVE  /\ [op |-> "if_set", slot |-> s, tap |-> t] \in Other
             /\ [op |-> "if_no_set", tap |-> t] \in Other
  BY <1>1 DEF Other, IfMsg
<1>6. ASSUME NEW t \in site.tap
      PROVE  [op |-> "if_no_set", tap |-> t] \in Other
  BY <1>1 DEF Other, IfMsg
<1>7. CASE StartupDone
  <2>1. pos' = 1 /\ UNCHANGED <<events, neighq, ribq>>
    BY <1>7 DEF StartupDone
  <2>2. pos' \in Blocked .. Len(Dump) + 1
    <3> HIDE DEF Dump
    <3> QED
      BY <1>2, <2>1 DEF Blocked
  <2>3. <<>> \in Seq(Other) /\ ribq = ribq \o <<>>
    BY <1>1
  <2> QED
    BY <1>1, <1>3, <2>1, <2>2, <2>3
<1>8. CASE \E m \in Other : Given(m)
  BY <1>1, <1>2, <1>3, <1>4, <1>8
<1>9. StartupDone \/ \E m \in Other : Given(m)
  <2>1. \/ \E s \in Slot, t \in site.tap : Given([op |-> "if_set", slot |-> s, tap |-> t])
        \/ \E t \in site.tap : Given([op |-> "if_no_set", tap |-> t])
        \/ StartupDone
    BY DEF Command
  <2> QED
    BY <1>5, <1>6, <2>1
<1> QED
  BY <1>7, <1>8, <1>9

-----------------------------------------------------------------------------
(* rib_manager: router interfaces.                                         *)

LEMMA RouterIfFacts ==
  ASSUME NEW r \in RouterIf
  PROVE  /\ \A f \in Field, a \in Addr \cup {Zero} : [r EXCEPT !.addr[f] = a] \in RouterIf
         /\ \A t \in Tap : Renamed(r, t) \in RouterIf
<1>1. /\ r.tap \in Tap \cup {NoName} /\ r.extent \in 0 .. 15
      /\ r.addr \in [Field -> Addr \cup {Zero}]
      /\ r = [tap |-> r.tap, extent |-> r.extent, addr |-> r.addr]
  BY DEF RouterIf
<1>2. ASSUME NEW f \in Field, NEW a \in Addr \cup {Zero}
      PROVE  [r EXCEPT !.addr[f] = a] \in RouterIf
  <2> DEFINE ad == [r.addr EXCEPT ![f] = a]
  <2>1. ad \in [Field -> Addr \cup {Zero}]
    BY <1>1
  <2>2. [r EXCEPT !.addr[f] = a] = [tap |-> r.tap, extent |-> r.extent, addr |-> ad]
    BY <1>1
  <2> HIDE DEF ad
  <2> QED
    BY <1>1, <2>1, <2>2 DEF RouterIf
<1>3. ASSUME NEW t \in Tap
      PROVE  Renamed(r, t) \in RouterIf
  <2> DEFINE x == IF r.extent > NameLen[t] + 1 THEN r.extent ELSE NameLen[t]
  <2>1. NameLen[t] \in 1 .. 15
    BY NameAssumption
  <2>2. x \in 0 .. 15
    BY <1>1, <2>1
  <2>3. Renamed(r, t) = [tap |-> t, extent |-> x, addr |-> r.addr]
    BY <1>1 DEF Renamed
  <2> HIDE DEF x
  <2> QED
    BY <1>1, <2>2, <2>3 DEF RouterIf
<1> QED
  BY <1>2, <1>3

LEMMA TapOpenFacts ==
  ASSUME KernelTyped, NEW t \in Tap, NEW a \in site.addr, TapOpen(t, a), UNCHANGED site
  PROVE  KernelTyped'
<1> DEFINE ad == [f \in Field |-> IF f = "mac" THEN a ELSE Zero]
           d == [idx |-> lastIdx + 1, addr |-> ad]
           e == [of |-> "if", op |-> "new", idx |-> lastIdx + 1, field |-> "mac", val |-> a]
<1>1. /\ site \in Site /\ site.addr \subseteq Addr
      /\ DOMAIN kernel \subseteq Key
      /\ \A k \in DOMAIN kernel : kernel[k] \in Mac \cup {None}
      /\ DOMAIN dev \subseteq Tap
      /\ \A u \in DOMAIN dev : dev[u] \in Device /\ dev[u].addr["mac"] # Zero
      /\ lastIdx \in Nat /\ gone \subseteq Tap
      /\ events \in Seq(NeighEvent \cup IfEvent)
  BY SiteFacts DEF KernelTyped
<1>2. a \in Addr /\ a # Zero /\ "mac" \in Field
  BY <1>1, AddrAssumption DEF Field
<1>3. lastIdx + 1 \in 1 .. MaxIdx /\ lastIdx' = lastIdx + 1 /\ lastIdx + 1 \in Nat
  BY <1>1, BoundAssumption DEF TapOpen
<1>4. ad \in [Field -> Addr \cup {Zero}] /\ ad["mac"] # Zero
  BY <1>2
<1>5. /\ dev' = [u \in DOMAIN dev \cup {t} |-> IF u = t THEN d ELSE dev[u]]
      /\ events' = events \o <<e>> /\ UNCHANGED <<kernel, gone>>
  BY <1>3 DEF TapOpen, Notify
<1> HIDE DEF ad
<1>6. d \in Device /\ d.addr["mac"] # Zero /\ e \in IfEvent
  BY <1>2, <1>3, <1>4 DEF Device, IfEvent
<1> HIDE DEF d, e
<1>7. /\ DOMAIN dev' \subseteq Tap
      /\ \A u \in DOMAIN dev' : dev'[u] \in Device /\ dev'[u].addr["mac"] # Zero
  BY <1>1, <1>5, <1>6
<1>8. events' \in Seq(NeighEvent \cup IfEvent)
  BY <1>1, <1>5, <1>6
<1> QED
  BY <1>1, <1>3, <1>5, <1>7, <1>8 DEF KernelTyped

LEMMA IfMessageSteps ==
  ASSUME NetlinkInv, IfMessage
  PROVE  /\ KernelTyped'
         /\ rif' \in [Slot -> RouterIf] /\ clean' \subseteq Slot
         /\ ribq # <<>> /\ ~IsDelta(Head(ribq)) /\ ribq' = Tail(ribq)
         /\ UNCHANGED <<site, pos, neighq, master, rib, crashed>>
<1> DEFINE m == Head(ribq)
<1>0. /\ KernelTyped /\ site \in Site /\ rif \in [Slot -> RouterIf] /\ clean \subseteq Slot
      /\ ribq \in Seq(Msg)
  BY DEF NetlinkInv, KernelTyped, RouterTyped, TablesTyped
<1>1. /\ ribq # <<>> /\ ~IsDelta(m) /\ ribq' = Tail(ribq)
      /\ UNCHANGED <<site, pos, neighq, master, rib, crashed>>
  BY DEF IfMessage
<1>2. m \in Other
  <2>1. m \in Msg
    BY <1>0, <1>1
  <2> HIDE DEF m
  <2> QED
    BY <1>1, <2>1, DeltaFacts
<1>3. CASE m.op \in {"addr_add", "addr_del"}
  <2>1. m.field \in Field /\ m.val \in Addr
    BY <1>2, <1>3 DEF Other, AddrMsg, IfMsg
  <2>2. /\ rif' \in {AddrAdd(m), AddrDel(m)}
        /\ UNCHANGED <<clean, kernelVars, events>>
    BY <1>3 DEF IfMessage
  <2> HIDE DEF m
  <2>3. \A s \in Slot :
          /\ [rif[s] EXCEPT !.addr[m.field] = m.val] \in RouterIf
          /\ [rif[s] EXCEPT !.addr[m.field] = Zero] \in RouterIf
          /\ rif[s] \in RouterIf
    <3> SUFFICES ASSUME NEW s \in Slot
                 PROVE  /\ [rif[s] EXCEPT !.addr[m.field] = m.val] \in RouterIf
                        /\ [rif[s] EXCEPT !.addr[m.field] = Zero] \in RouterIf
                        /\ rif[s] \in RouterIf
      OBVIOUS
    <3>1. rif[s] \in RouterIf
      BY <1>0
    <3>2. \A f \in Field, a \in Addr \cup {Zero} : [rif[s] EXCEPT !.addr[f] = a] \in RouterIf
      BY <3>1, RouterIfFacts, Zenon
    <3> QED
      BY <2>1, <3>1, <3>2
  <2>4. AddrAdd(m) \in [Slot -> RouterIf]
    BY <2>3 DEF AddrAdd
  <2>5. AddrDel(m) \in [Slot -> RouterIf]
    BY <2>3 DEF AddrDel
  <2>6. KernelTyped'
    BY <1>0, <1>1, <2>2 DEF KernelTyped, kernelVars
  <2> QED
    BY <1>0, <1>1, <2>2, <2>4, <2>5, <2>6 DEF m
<1>4. CASE m.op = "if_no_set"
  <2>1. IfNoSet(m.tap)
    BY <1>4 DEF IfMessage
  <2>2. ZeroIf \in RouterIf
    BY DEF ZeroIf, RouterIf
  <2> HIDE DEF m
  <2>3. rif' \in [Slot -> RouterIf] /\ clean' \subseteq Slot
    BY <1>0, <2>1, <2>2 DEF IfNoSet
  <2>4. KernelTyped'
    BY <1>0, <1>1, <2>1 DEF IfNoSet, KernelTyped, kernelVars
  <2> QED
    BY <1>1, <2>3, <2>4 DEF m
<1>5. CASE m.op = "if_set"
  <2>1. m.slot \in Slot /\ m.tap \in Tap
    BY <1>2, <1>5 DEF Other, AddrMsg, IfMsg
  <2>2. PICK pass \in BOOLEAN : IfSet(m.slot, m.tap, pass)
    BY <1>5 DEF IfMessage
  <2> HIDE DEF m
  <2>3. Renamed(rif[m.slot], m.tap) \in RouterIf
    BY <1>0, <2>1, RouterIfFacts
  <2>4. rif' \in [Slot -> RouterIf]
    BY <1>0, <2>1, <2>2, <2>3 DEF IfSet
  <2>5. clean' \subseteq Slot
    BY <1>0, <2>1, <2>2 DEF IfSet
  <2>6. KernelTyped'
    <3>1. CASE m.tap \in DOMAIN dev
      <4>1. UNCHANGED <<kernelVars, events>>
        BY <2>2, <3>1 DEF IfSet
      <4> QED
        BY <1>0, <1>1, <4>1 DEF KernelTyped, kernelVars
    <3>2. CASE m.tap \notin DOMAIN dev
      <4>1. PICK a \in site.addr : TapOpen(m.tap, a)
        BY <2>2, <3>2 DEF IfSet
      <4> QED
        BY <1>0, <1>1, <2>1, <4>1, TapOpenFacts
    <3> QED
      BY <3>1, <3>2
  <2> QED
    BY <1>1, <2>4, <2>5, <2>6 DEF m
<1> QED
  BY <1>2, <1>3, <1>4, <1>5 DEF Other, AddrMsg, IfMsg

-----------------------------------------------------------------------------
(* The neighbour tables' own steps.                                        *)

LEMMA ManagerSteps ==
  ASSUME TablesTyped, NeighManager
  PROVE  /\ neighq' \in Seq(Event) /\ master' \in NeighTable /\ Sorted(master')
         /\ UNCHANGED <<rib, crashed>>
         /\ \/ master' = master /\ ribq' = ribq
            \/ \E m \in Delta : /\ ribq' = Enqueue(ribq, RibRing, m)
                                /\ Follows(master, master', m)
<1> DEFINE ev == Head(neighq)
           res == IF ev.op = "add" THEN AddEntry(master, ev.data)
                                   ELSE DeleteEntry(master, ev.data)
           m == [op |-> ev.op, data |-> ev.data, pos |-> res.pos, num |-> res.table.num]
<1>0. /\ neighq \in Seq(Event) /\ master \in NeighTable /\ Sorted(master)
  BY DEF TablesTyped
<1>1. /\ neighq # <<>> /\ master' = res.table /\ neighq' = Tail(neighq)
      /\ ribq' = IF res.pos < 0 THEN ribq ELSE Enqueue(ribq, RibRing, m)
      /\ UNCHANGED <<rib, crashed>>
  BY DEF NeighManager
<1>2. ev \in Event /\ neighq' \in Seq(Event)
  BY <1>0, <1>1
<1> HIDE DEF ev
<1>3. ev.op \in {"add", "del"} /\ ev.data \in Entry /\ ev.data.key \in Nat
  <2>1. ev.op \in {"add", "del"} /\ ev.data \in Entry
    BY <1>2 DEF Event
  <2>2. ev.data.key \in Key \cup {0}
    BY <2>1 DEF Entry
  <2>3. Key \cup {0} \subseteq Nat
    BY KeyAssumption
  <2> QED
    BY <2>1, <2>2, <2>3
<1>4. LET at == Lookup(master, ev.data.key) IN at.pos \in 0 .. master.num /\ at.found \in BOOLEAN
  BY <1>0, <1>3, LookupFacts
<1>5. master.num \in Nat
  BY <1>0, TableFacts
<1>6. CASE ev.op = "add" /\ AddEntry(master, ev.data).pos >= 0
  <2> DEFINE r == AddEntry(master, ev.data)
             d == [op |-> "add", data |-> ev.data, pos |-> r.pos, num |-> r.table.num]
  <2>1. /\ r.table \in NeighTable /\ Sorted(r.table)
        /\ d \in Delta /\ Follows(master, r.table, d)
    BY <1>0, <1>3, <1>6, AddFollows
  <2>2. res = r /\ m = d
    BY <1>6
  <2>3. r.pos \in Int /\ r.pos >= 0
    BY <1>6, <2>1 DEF Delta, Index
  <2>4. ribq' = Enqueue(ribq, RibRing, d) /\ master' = r.table
    BY <1>1, <2>2, <2>3
  <2> HIDE DEF r, d
  <2> QED
    BY <1>1, <1>2, <2>1, <2>4
<1>7. CASE ev.op = "del" /\ DeleteEntry(master, ev.data).pos >= 0
  <2> DEFINE r == DeleteEntry(master, ev.data)
             d == [op |-> "del", data |-> ev.data, pos |-> r.pos, num |-> r.table.num]
  <2>1. /\ r.table \in NeighTable /\ Sorted(r.table)
        /\ d \in Delta /\ Follows(master, r.table, d)
    BY <1>0, <1>3, <1>7, DeleteFollows
  <2>2. res = r /\ m = d
    BY <1>7
  <2>3. r.pos \in Int /\ r.pos >= 0
    BY <1>7, <2>1 DEF Delta, Index
  <2>4. ribq' = Enqueue(ribq, RibRing, d) /\ master' = r.table
    BY <1>1, <2>2, <2>3
  <2> HIDE DEF r, d
  <2> QED
    BY <1>1, <1>2, <2>1, <2>4
<1>8. CASE ev.op = "add" /\ ~(AddEntry(master, ev.data).pos >= 0)
  <2>1. AddEntry(master, ev.data) = [pos |-> -1, table |-> master]
    BY <1>4, <1>5, <1>8 DEF AddEntry
  <2>2. res.table = master /\ res.pos < 0
    BY <1>8, <2>1
  <2> HIDE DEF res
  <2> QED
    BY <1>0, <1>1, <1>2, <2>2
<1>9. CASE ev.op = "del" /\ ~(DeleteEntry(master, ev.data).pos >= 0)
  <2>1. DeleteEntry(master, ev.data) = [pos |-> -1, table |-> master]
    BY <1>4, <1>5, <1>9 DEF DeleteEntry
  <2>2. res.table = master /\ res.pos < 0
    BY <1>9, <2>1
  <2> HIDE DEF res
  <2> QED
    BY <1>0, <1>1, <1>2, <2>2
<1> QED
  BY <1>3, <1>6, <1>7, <1>8, <1>9

LEMMA ApplyFacts ==
  ASSUME NEW r \in NeighTable, NEW d \in Delta
  PROVE  Apply(r, d) \in NeighTable
<1>1. /\ r.entries \in [Index -> Entry] /\ d.data \in Entry /\ d.pos \in Index
      /\ d.num \in 0 .. MaxEntry
  BY DEF NeighTable, Delta
<1>2. \A to, from, n : Memmove(r.entries, to, from, n) \in [Index -> Entry]
  BY <1>1 DEF Memmove
<1> QED
  BY <1>1, <1>2 DEF Apply, ApplyAdd, ApplyDel, NeighTable

LEMMA MessageSteps ==
  ASSUME TablesTyped, NeighMessage
  PROVE  TablesTyped'
<1>1. /\ ribq \in Seq(Msg) /\ rib \in NeighTable /\ ribq # <<>> /\ IsDelta(Head(ribq))
      /\ ribq' = Tail(ribq) /\ UNCHANGED <<neighq, master>>
      /\ crashed' \in BOOLEAN /\ rib' \in {rib, Apply(rib, Head(ribq))}
  BY DEF TablesTyped, NeighMessage
<1>2. Head(ribq) \in Msg /\ ribq' \in Seq(Msg)
  BY <1>1
<1>3. Head(ribq) \in Delta
  BY <1>1, <1>2, DeltaFacts
<1>4. rib' \in NeighTable
  BY <1>1, <1>3, ApplyFacts
<1> QED
  BY <1>1, <1>2, <1>4 DEF TablesTyped

-----------------------------------------------------------------------------
(* The invariant holds.                                                    *)

LEMMA InitInv == Init => NetlinkInv
<1> SUFFICES ASSUME Init PROVE NetlinkInv
  OBVIOUS
<1>1. /\ site \in Site /\ kernel = site.kernel /\ dev = site.dev
      /\ lastIdx = Cardinality(DOMAIN dev) /\ events = <<>> /\ gone = {} /\ clean = {}
      /\ pos = IF site.wait THEN 0 ELSE Len(Dump) + 1
      /\ rif = [s \in Slot |-> ZeroIf] /\ NeighInit
  BY DEF Init
<1>2. KernelTyped
  <2>1. /\ DOMAIN site.kernel \subseteq Key /\ DOMAIN site.dev \subseteq Tap
        /\ IsFiniteSet(DOMAIN site.dev)
    <3>1. /\ site.key \subseteq Key /\ site.tap \subseteq Tap
          /\ DOMAIN site.kernel \subseteq site.key
          /\ IsFiniteSet(site.tap) /\ DOMAIN site.dev \subseteq site.tap
      BY <1>1, SiteFacts
    <3> QED
      BY <3>1, FS_Subset
  <2>2. Cardinality(DOMAIN site.dev) \in Nat
    BY <2>1, FS_CardinalityType
  <2>3. <<>> \in Seq(NeighEvent \cup IfEvent)
    OBVIOUS
  <2> QED
    BY <1>1, <2>1, <2>2, <2>3, SiteFacts DEF KernelTyped
<1>3. RouterTyped
  <2>1. Dump \in Seq(DItem)
    BY <1>1, DumpFacts
  <2>2. pos \in Blocked .. Len(Dump) + 1
    <3> HIDE DEF Dump
    <3> QED
      BY <1>1, <2>1 DEF Blocked
  <2>3. ZeroIf \in RouterIf
    BY DEF ZeroIf, RouterIf
  <2> QED
    BY <1>1, <2>2, <2>3 DEF RouterTyped
<1>4. TablesTyped
  <2>1. EmptyTable \in NeighTable /\ EmptyTable.num = 0
    BY SizeAssumption DEF EmptyTable, NeighTable, Entry, ZeroEntry
  <2>2. Sorted(EmptyTable)
    BY <2>1 DEF Sorted
  <2>3. /\ neighq = <<>> /\ ribq = <<>> /\ master = EmptyTable /\ rib = EmptyTable
        /\ crashed = FALSE
    BY <1>1 DEF NeighInit
  <2>4. neighq \in Seq(Event) /\ ribq \in Seq(Msg)
    BY <2>3
  <2> QED
    BY <2>1, <2>2, <2>3, <2>4 DEF TablesTyped
<1> QED
  BY <1>2, <1>3, <1>4 DEF NetlinkInv

LEMMA NextInv == NetlinkInv /\ [Next]_vars => NetlinkInv'
<1> SUFFICES ASSUME NetlinkInv, [Next]_vars PROVE NetlinkInv'
  OBVIOUS
<1>0. KernelTyped /\ RouterTyped /\ TablesTyped
  BY DEF NetlinkInv
<1>1. site' = site => Dump' = Dump
  BY DEF Dump, DumpOf, DumpNeigh
<1>2. ASSUME NEW s \in Seq(Other), ribq' = ribq \o s,
             neighq' \in Seq(Event), UNCHANGED <<master, rib, crashed>>
      PROVE  TablesTyped'
  <2>1. ribq \in Seq(Msg) /\ s \in Seq(Msg)
    BY <1>0 DEF TablesTyped, Msg
  <2>2. ribq' \in Seq(Msg)
    BY <1>2, <2>1
  <2> QED
    BY <1>0, <1>2, <2>2 DEF TablesTyped
<1>3. CASE Kernel
  <2>1. KernelTyped'
    BY <1>0, <1>3, KernelSteps
  <2>2. UNCHANGED <<site, pos, rif, clean, neighVars>>
    BY <1>3 DEF Kernel
  <2> QED
    BY <1>0, <1>1, <2>1, <2>2 DEF NetlinkInv, RouterTyped, TablesTyped, neighVars
<1>4. CASE NetlinkThread
  <2>1. /\ events' \in Seq(NeighEvent \cup IfEvent)
        /\ pos' \in Blocked .. Len(Dump) + 1
        /\ neighq' \in Seq(Event)
        /\ \E s \in Seq(Other) : ribq' = ribq \o s
        /\ UNCHANGED <<site, kernelVars, rif, clean, master, rib, crashed>>
    BY <1>4, ThreadSteps
  <2>2. KernelTyped' /\ RouterTyped'
    BY <1>0, <1>1, <2>1 DEF KernelTyped, RouterTyped, kernelVars
  <2> QED
    BY <1>2, <2>1, <2>2 DEF NetlinkInv
<1>5. CASE Command
  <2>1. /\ events' = events
        /\ pos' \in Blocked .. Len(Dump) + 1
        /\ neighq' \in Seq(Event)
        /\ \E s \in Seq(Other) : ribq' = ribq \o s
        /\ UNCHANGED <<site, kernelVars, rif, clean, master, rib, crashed>>
    BY <1>5, CommandSteps
  <2>2. KernelTyped' /\ RouterTyped'
    BY <1>0, <1>1, <2>1 DEF KernelTyped, RouterTyped, kernelVars
  <2> QED
    BY <1>2, <2>1, <2>2 DEF NetlinkInv
<1>6. CASE IfMessage
  <2>1. /\ KernelTyped'
        /\ rif' \in [Slot -> RouterIf] /\ clean' \subseteq Slot
        /\ ribq # <<>> /\ ribq' = Tail(ribq)
        /\ UNCHANGED <<site, pos, neighq, master, rib, crashed>>
    BY <1>6, IfMessageSteps
  <2>2. RouterTyped'
    BY <1>0, <1>1, <2>1 DEF RouterTyped
  <2>3. ribq' \in Seq(Msg)
    BY <1>0, <2>1 DEF TablesTyped
  <2> QED
    BY <1>0, <2>1, <2>2, <2>3 DEF NetlinkInv, TablesTyped
<1>7. CASE NeighStep
  <2>1. UNCHANGED <<site, kernelVars, events, pos, rif, clean>>
    BY <1>7 DEF NeighStep
  <2>2. KernelTyped' /\ RouterTyped'
    BY <1>0, <1>1, <2>1 DEF KernelTyped, RouterTyped, kernelVars
  <2>3. CASE NeighMessage
    BY <1>0, <2>2, <2>3, MessageSteps DEF NetlinkInv
  <2>4. CASE NeighManager
    <3>1. /\ neighq' \in Seq(Event) /\ master' \in NeighTable /\ Sorted(master')
          /\ UNCHANGED <<rib, crashed>>
          /\ ribq' = ribq \/ \E m \in Delta : ribq' = Enqueue(ribq, RibRing, m)
      BY <1>0, <2>4, ManagerSteps
    <3>2. ribq' \in Seq(Msg)
      BY <1>0, <3>1, SMTT(30) DEF TablesTyped, Enqueue, Msg
    <3> QED
      BY <1>0, <2>2, <3>1, <3>2 DEF NetlinkInv, TablesTyped
  <2> QED
    BY <1>7, <2>3, <2>4 DEF NeighStep
<1>8. CASE UNCHANGED vars
  BY <1>0, <1>1, <1>8 DEF NetlinkInv, KernelTyped, RouterTyped, TablesTyped,
                         vars, kernelVars, neighVars
<1> QED
  BY <1>3, <1>4, <1>5, <1>6, <1>7, <1>8 DEF Next

\* The inductive invariant of the netlink thread, the two managers and their
\* rings: the types of everything they exchange, and the sorted master table.
THEOREM InvHolds == Spec => []NetlinkInv
<1>1. Init => NetlinkInv
  BY InitInv
<1>2. NetlinkInv /\ [Next]_vars => NetlinkInv'
  BY NextInv
<1> QED
  BY <1>1, <1>2, PTL DEF Spec

\* neigh_manager's table is strictly ascending by address after any sequence
\* of neighbour events, which is what neigh_manager_lookup's binary search
\* relies on, for tables of any size and however messages are lost.
THEOREM MasterStaysSorted == Spec => []MasterSorted
<1>1. NetlinkInv => MasterSorted
  BY DEF NetlinkInv, TablesTyped, MasterSorted, Sorted
<1> QED
  BY <1>1, InvHolds, PTL

-----------------------------------------------------------------------------
(* The rib's table.                                                        *)

\* The deltas under way lead from the rib's table to the master's.
Replica ==
  /\ ~crashed
  /\ \E tr : Trace(tr, rib, ribq) /\ Same(tr[Len(ribq)], master)

LEMMA InitReplica == Init => Replica
<1> SUFFICES ASSUME Init PROVE Replica
  OBVIOUS
<1>1. ribq = <<>> /\ rib = master /\ rib \in NeighTable /\ ~crashed
  BY InitInv DEF Init, NeighInit, NetlinkInv, TablesTyped
<1> DEFINE tr == [n \in 0 .. 0 |-> rib]
<1>2. Len(ribq) = 0 /\ tr \in [0 .. 0 -> NeighTable] /\ tr[0] = rib
  BY <1>1
<1> HIDE DEF tr
<1>3. Trace(tr, rib, ribq)
  BY <1>2 DEF Trace
<1>4. Same(tr[Len(ribq)], master)
  BY <1>1, <1>2 DEF Same
<1> QED
  BY <1>1, <1>3, <1>4 DEF Replica

LEMMA NextReplica ==
  ASSUME NetlinkInv, Replica, [Next]_vars,
         [NeighManager => Len(ribq) < RibRing]_neighVars
  PROVE  Replica'
<1>0. TablesTyped /\ ribq \in Seq(Msg) /\ Len(ribq) \in Nat /\ ~crashed
  BY DEF NetlinkInv, TablesTyped, Replica
<1>1. PICK tr : Trace(tr, rib, ribq) /\ Same(tr[Len(ribq)], master)
  BY DEF Replica
<1>2. tr[Len(ribq)] \in NeighTable
  BY <1>0, <1>1 DEF Trace
<1>3. ASSUME UNCHANGED neighVars PROVE Replica'
  <2>1. ribq' = ribq /\ rib' = rib /\ master' = master /\ crashed' = crashed
    BY <1>3 DEF neighVars
  <2> QED
    BY <1>0, <1>1, <2>1 DEF Replica
<1>4. ASSUME NEW s \in Seq(Other), ribq' = ribq \o s, UNCHANGED <<master, rib, crashed>>
      PROVE  Replica'
  <2>1. s \in Seq(Msg) /\ \A i \in 1 .. Len(s) : s[i] \in Other
    BY DEF Msg
  <2>2. \A i \in 1 .. Len(s) : ~IsDelta(s[i])
    BY <2>1, OtherFacts
  <2>3. PICK u : Trace(u, rib, ribq \o s) /\ u[Len(ribq \o s)] = tr[Len(ribq)]
    BY <1>0, <1>1, <2>1, <2>2, TraceOthers
  <2>4. Trace(u, rib', ribq') /\ Same(u[Len(ribq')], master')
    BY <1>1, <1>4, <2>3
  <2> QED
    BY <1>0, <1>4, <2>4 DEF Replica
<1>5. ASSUME ribq # <<>>, ribq' = Tail(ribq), UNCHANGED <<master, crashed>>, rib' = tr[1]
      PROVE  Replica'
  <2>1. PICK u : Trace(u, tr[1], Tail(ribq)) /\ u[Len(Tail(ribq))] = tr[Len(ribq)]
    BY <1>0, <1>1, <1>5, TraceTail
  <2>2. Trace(u, rib', ribq') /\ Same(u[Len(ribq')], master')
    BY <1>1, <1>5, <2>1
  <2> QED
    BY <1>0, <1>5, <2>2 DEF Replica
<1>6. CASE Kernel
  BY <1>3, <1>6 DEF Kernel
<1>7. CASE NetlinkThread
  <2>1. /\ \E s \in Seq(Other) : ribq' = ribq \o s
        /\ UNCHANGED <<master, rib, crashed>>
    BY <1>7, ThreadSteps
  <2> QED
    BY <1>4, <2>1
<1>8. CASE Command
  <2>1. /\ \E s \in Seq(Other) : ribq' = ribq \o s
        /\ UNCHANGED <<master, rib, crashed>>
    BY <1>8, CommandSteps
  <2> QED
    BY <1>4, <2>1
<1>9. CASE IfMessage
  <2>1. /\ ribq # <<>> /\ ~IsDelta(Head(ribq)) /\ ribq' = Tail(ribq)
        /\ UNCHANGED <<master, rib, crashed>>
    BY <1>9, IfMessageSteps
  <2>2. tr[1] = rib
    BY <1>0, <1>1, <2>1, TraceTail
  <2> QED
    BY <1>5, <2>1, <2>2
<1>10. CASE NeighMessage
  <2>1. ribq # <<>> /\ IsDelta(Head(ribq)) /\ ribq' = Tail(ribq) /\ UNCHANGED master
    BY <1>10 DEF NeighMessage
  <2>2. ~NegativeLength(rib, Head(ribq)) /\ tr[1] = Apply(rib, Head(ribq))
    BY <1>0, <1>1, <2>1, TraceTail
  <2>3. rib' = tr[1] /\ crashed' = FALSE
    BY <1>10, <2>2 DEF NeighMessage
  <2>4. crashed' = crashed
    BY <1>0, <2>3 DEF TablesTyped
  <2> QED
    BY <1>5, <2>1, <2>3, <2>4
<1>11. CASE NeighManager /\ ~UNCHANGED neighVars
  <2>1. /\ UNCHANGED <<rib, crashed>>
        /\ \/ master' = master /\ ribq' = ribq
           \/ \E m \in Delta : /\ ribq' = Enqueue(ribq, RibRing, m)
                               /\ Follows(master, master', m)
    BY <1>0, <1>11, ManagerSteps
  <2>2. Len(ribq) < RibRing
    BY <1>11
  <2>3. CASE master' = master /\ ribq' = ribq
    BY <1>0, <1>1, <2>1, <2>3 DEF Replica
  <2>4. CASE \E m \in Delta : /\ ribq' = Enqueue(ribq, RibRing, m)
                              /\ Follows(master, master', m)
    <3>1. PICK m \in Delta : ribq' = Append(ribq, m) /\ Follows(master, master', m)
      BY <2>2, <2>4 DEF Enqueue
    <3> DEFINE x == Apply(tr[Len(ribq)], m)
    <3>2. /\ ~NegativeLength(tr[Len(ribq)], m)
          /\ x \in NeighTable /\ Same(x, master')
      BY <1>1, <1>2, <3>1 DEF Follows
    <3>3. m \in Msg /\ IsDelta(m)
      BY DEF Msg, Delta, IsDelta
    <3>4. PICK u : Trace(u, rib, Append(ribq, m)) /\ u[Len(Append(ribq, m))] = x
      BY <1>0, <1>1, <3>2, <3>3, TraceAppend
    <3>5. Trace(u, rib', ribq') /\ Same(u[Len(ribq')], master')
      BY <2>1, <3>1, <3>2, <3>4
    <3> QED
      BY <1>0, <2>1, <3>5 DEF Replica
  <2> QED
    BY <2>1, <2>3, <2>4
<1>12. CASE UNCHANGED vars
  BY <1>3, <1>12 DEF vars
<1> QED
  BY <1>3, <1>6, <1>7, <1>8, <1>9, <1>10, <1>11, <1>12 DEF Next, NeighStep

\* While msg_queue_rib has room whenever neigh_manager sends, the deltas under
\* way turn the rib's table into the master's, entry by entry and in spite of
\* the link, address and interface messages between them, and the memmove of
\* NEIGH_ENTRY_ADD never gets a negative length.
THEOREM ReplicaFollowsMaster == Spec /\ DeltasSent => []ReplicaFollows
<1>1. Init => Replica
  BY InitReplica
<1>2. /\ NetlinkInv /\ Replica /\ [Next]_vars
      /\ [NeighManager => Len(ribq) < RibRing]_neighVars
      => Replica'
  BY NextReplica
<1>3. NetlinkInv /\ Replica => ReplicaFollows
  <2> SUFFICES ASSUME NetlinkInv, Replica PROVE ReplicaFollows
    OBVIOUS
  <2>1. PICK tr : Trace(tr, rib, ribq) /\ Same(tr[Len(ribq)], master)
    BY DEF Replica
  <2>2. Tables(rib, ribq) = tr
    BY <2>1, TraceIsTables DEF NetlinkInv, TablesTyped
  <2> QED
    BY <2>1, <2>2 DEF ReplicaFollows, Pending, Replica
<1> QED
  BY <1>1, <1>2, <1>3, InvHolds, PTL DEF Spec, DeltasSent

\* Everything the netlink thread, neigh_manager and rib_manager keep and send
\* each other has its type, whatever the kernel announces and in which order.
THEOREM TypesHold == Spec => []TypeOK
<1>1. NetlinkInv => TypeOK
  <2> SUFFICES ASSUME NetlinkInv PROVE TypeOK
    OBVIOUS
  <2>1. /\ DOMAIN kernel \subseteq Key
        /\ \A k \in DOMAIN kernel : kernel[k] \in Mac \cup {None}
        /\ DOMAIN dev \subseteq Tap /\ \A t \in DOMAIN dev : dev[t] \in Device
        /\ events \in Seq(NeighEvent \cup IfEvent)
        /\ pos \in Blocked .. Len(Dump) + 1
        /\ clean \subseteq Slot /\ gone \subseteq Tap
    BY DEF NetlinkInv, KernelTyped, RouterTyped
  <2>2. \A s \in Slot : /\ rif[s].tap \in Tap \cup {NoName} /\ rif[s].extent \in 0 .. 15
                        /\ rif[s].addr \in [Field -> Addr \cup {Zero}]
    BY DEF NetlinkInv, RouterTyped, RouterIf
  <2>3. \A i \in DOMAIN ribq : ribq[i] \in Msg
    BY DEF NetlinkInv, TablesTyped
  <2>4. \A i \in DOMAIN ribq : /\ IsDelta(ribq[i]) => ribq[i] \in Delta
                               /\ IsDelta(ribq[i]) \/ ribq[i] \in AddrMsg \cup IfMsg
    BY <2>3, DeltaFacts DEF Other
  <2>5. NeighTypeOK
    BY <2>4 DEF NeighTypeOK, NetlinkInv, TablesTyped
  <2> QED
    BY <2>1, <2>2, <2>4, <2>5 DEF TypeOK
<1> QED
  BY <1>1, InvHolds, PTL

-----------------------------------------------------------------------------
(* What the kernel knows reaches the rib.                                  *)

\* No element of q is in A.
NoneIn(q, A) == \A i \in 1 .. Len(q) : q[i] \notin A

\* Of the elements of q that are in A the last one is in G.
EndsIn(q, A, G) ==
  \E i \in 1 .. Len(q) : q[i] \in G /\ \A j \in 1 .. Len(q) : i < j => q[j] \notin A

Holds(t, k, m) == \E i \in 0 .. t.num - 1 : t.entries[i].key = k /\ t.entries[i].mac = m
Lacks(t, k) == \A i \in 0 .. t.num - 1 : t.entries[i].key # k

\* The events and the messages about k, and those that say what is so now.
EventsOf(k) == {e \in NeighEvent : e.key = k}
EventsNow(k) ==
  {e \in EventsOf(k) : IF k \in DOMAIN kernel THEN e.op = "new" /\ e.mac = kernel[k]
                       ELSE e.op = "del"}
MsgsOf(k) == {m \in Event : m.data.key = k}
MsgsNow(k) ==
  {m \in MsgsOf(k) : IF k \in DOMAIN kernel THEN m.op = "add" /\ m.data.mac = kernel[k]
                     ELSE m.op = "del"}
TableNow(k) == IF k \in DOMAIN kernel THEN Holds(master, k, kernel[k]) ELSE Lacks(master, k)

\* The dump has not come to k yet.
Ahead(k) ==
  \E i \in DOMAIN Dump : pos <= i /\ Dump[i].fields = {} /\ Dump[i].key = k

Unresolved(k) == k \in DOMAIN kernel /\ kernel[k] = None

\* With no event about k queued, its state is in the dump, in a message under
\* way, or in the master table.
Passed(k) ==
  \/ Ahead(k) /\ NoneIn(neighq, MsgsOf(k)) /\ Lacks(master, k)
  \/ Unresolved(k)
  \/ EndsIn(neighq, MsgsOf(k), MsgsNow(k))
  \/ NoneIn(neighq, MsgsOf(k)) /\ TableNow(k)

Told(k) ==
  \/ EndsIn(events, EventsOf(k), EventsNow(k))
  \/ NoneIn(events, EventsOf(k)) /\ Passed(k)

AllTold == \A k \in Key : Told(k)

LEMMA NoneInConcat ==
  ASSUME NEW S, NEW q \in Seq(S), NEW s \in Seq(S), NEW A, NoneIn(q, A), NoneIn(s, A)
  PROVE  NoneIn(q \o s, A)
<1>1. Len(q) \in Nat /\ Len(s) \in Nat /\ Len(q \o s) = Len(q) + Len(s)
  OBVIOUS
<1> SUFFICES ASSUME NEW i \in 1 .. Len(q) + Len(s) PROVE (q \o s)[i] \notin A
  BY <1>1 DEF NoneIn
<1>2. CASE i <= Len(q)
  <2>1. (q \o s)[i] = q[i] /\ i \in 1 .. Len(q)
    BY <1>1, <1>2
  <2> QED
    BY <2>1 DEF NoneIn
<1>3. CASE Len(q) < i
  <2>1. (q \o s)[i] = s[i - Len(q)] /\ i - Len(q) \in 1 .. Len(s)
    BY <1>1, <1>3
  <2> QED
    BY <2>1 DEF NoneIn
<1> QED
  BY <1>1, <1>2, <1>3

LEMMA EndsInConcat ==
  ASSUME NEW S, NEW q \in Seq(S), NEW s \in Seq(S), NEW A, NEW G,
         EndsIn(q, A, G), NoneIn(s, A)
  PROVE  EndsIn(q \o s, A, G)
<1>1. Len(q) \in Nat /\ Len(s) \in Nat /\ Len(q \o s) = Len(q) + Len(s)
  OBVIOUS
<1>2. PICK i \in 1 .. Len(q) : q[i] \in G /\ \A j \in 1 .. Len(q) : i < j => q[j] \notin A
  BY DEF EndsIn
<1>3. i \in 1 .. Len(q) + Len(s) /\ (q \o s)[i] = q[i]
  BY <1>1
<1>4. ASSUME NEW j \in 1 .. Len(q) + Len(s), i < j PROVE (q \o s)[j] \notin A
  <2>1. CASE j <= Len(q)
    <3>1. (q \o s)[j] = q[j] /\ j \in 1 .. Len(q)
      BY <1>1, <2>1
    <3> QED
      BY <1>2, <1>4, <3>1
  <2>2. CASE Len(q) < j
    <3>1. (q \o s)[j] = s[j - Len(q)] /\ j - Len(q) \in 1 .. Len(s)
      BY <1>1, <2>2
    <3> QED
      BY <3>1 DEF NoneIn
  <2> QED
    BY <1>1, <2>1, <2>2
<1> QED
  BY <1>1, <1>2, <1>3, <1>4 DEF EndsIn

LEMMA EndsInAppend ==
  ASSUME NEW S, NEW q \in Seq(S), NEW e \in S, NEW A, NEW G, e \in G
  PROVE  EndsIn(q \o <<e>>, A, G)
<1>1. /\ Len(q) \in Nat /\ Len(q \o <<e>>) = Len(q) + 1
      /\ (q \o <<e>>)[Len(q) + 1] = e /\ Len(q) + 1 \in 1 .. Len(q) + 1
  OBVIOUS
<1>2. \A j \in 1 .. Len(q) + 1 : ~(Len(q) + 1 < j)
  BY <1>1
<1> QED
  BY <1>1, <1>2 DEF EndsIn

LEMMA TailElements ==
  ASSUME NEW S, NEW q \in Seq(S), q # <<>>
  PROVE  /\ Len(q) \in Nat /\ Len(q) >= 1 /\ Len(Tail(q)) = Len(q) - 1
         /\ Head(q) = q[1]
         /\ \A i \in 1 .. Len(q) - 1 : Tail(q)[i] = q[i + 1]
OBVIOUS

LEMMA NoneInTail ==
  ASSUME NEW S, NEW q \in Seq(S), q # <<>>, NEW A, NoneIn(q, A)
  PROVE  NoneIn(Tail(q), A) /\ Head(q) \notin A
<1>1. /\ Len(q) \in Nat /\ Len(q) >= 1 /\ Len(Tail(q)) = Len(q) - 1
      /\ Head(q) = q[1]
      /\ \A i \in 1 .. Len(q) - 1 : Tail(q)[i] = q[i + 1]
  BY TailElements
<1>2. \A i \in 1 .. Len(q) - 1 : i + 1 \in 1 .. Len(q)
  BY <1>1
<1>3. 1 \in 1 .. Len(q)
  BY <1>1
<1> QED
  BY <1>1, <1>2, <1>3 DEF NoneIn

LEMMA EndsInTail ==
  ASSUME NEW S, NEW q \in Seq(S), q # <<>>, NEW A, NEW G, EndsIn(q, A, G)
  PROVE  EndsIn(Tail(q), A, G) \/ (Head(q) \in G /\ NoneIn(Tail(q), A))
<1>1. /\ Len(q) \in Nat /\ Len(q) >= 1 /\ Len(Tail(q)) = Len(q) - 1
      /\ Head(q) = q[1]
      /\ \A i \in 1 .. Len(q) - 1 : Tail(q)[i] = q[i + 1]
  BY TailElements
<1>2. PICK i \in 1 .. Len(q) : q[i] \in G /\ \A j \in 1 .. Len(q) : i < j => q[j] \notin A
  BY DEF EndsIn
<1>3. CASE i = 1
  <2>1. \A j \in 1 .. Len(q) - 1 : j + 1 \in 1 .. Len(q) /\ i < j + 1
    BY <1>1, <1>3
  <2>2. NoneIn(Tail(q), A)
    BY <1>1, <1>2, <2>1 DEF NoneIn
  <2> QED
    BY <1>1, <1>2, <1>3, <2>2
<1>4. CASE i # 1
  <2>1. i - 1 \in 1 .. Len(q) - 1 /\ Tail(q)[i - 1] = q[i]
    BY <1>1, <1>4
  <2>2. ASSUME NEW j \in 1 .. Len(q) - 1, i - 1 < j PROVE Tail(q)[j] \notin A
    <3>1. j + 1 \in 1 .. Len(q) /\ i < j + 1
      BY <1>1, <2>2
    <3> QED
      BY <1>1, <1>2, <3>1
  <2> QED
    BY <1>1, <1>2, <2>1, <2>2 DEF EndsIn
<1> QED
  BY <1>3, <1>4

LEMMA EmptySays == \A A, G : NoneIn(<<>>, A) /\ ~EndsIn(<<>>, A, G)
<1>1. Len(<<>>) = 0 /\ 1 .. 0 = {}
  OBVIOUS
<1> QED
  BY <1>1 DEF NoneIn, EndsIn

LEMMA NoneInOne == ASSUME NEW S, NEW e \in S, NEW A, e \notin A PROVE NoneIn(<<e>>, A)
<1>1. Len(<<e>>) = 1 /\ <<e>>[1] = e
  OBVIOUS
<1> QED
  BY <1>1 DEF NoneIn

\* A sequence does not both end in A and have nothing in A.
LEMMA EndsInSome ==
  ASSUME NEW q, NEW A, NEW G, G \subseteq A, EndsIn(q, A, G)
  PROVE  ~NoneIn(q, A)
BY DEF EndsIn, NoneIn

\* What the table has for the other keys.
KeepsOthers(t, q, key) ==
  \A k : k # key => /\ Lacks(t, k) => Lacks(q, k)
                    /\ \A m : Holds(t, k, m) => Holds(q, k, m)

LEMMA AddEffect ==
  ASSUME NEW t \in NeighTable, Sorted(t), NEW d \in Entry, d.key \in Nat, t.num < MaxEntry
  PROVE  LET q == AddEntry(t, d).table
         IN  Holds(q, d.key, d.mac) /\ KeepsOthers(t, q, d.key)
<1> DEFINE at == Lookup(t, d.key)
           p == at.pos
<1>0. /\ MaxEntry \in Nat /\ t.num \in Nat /\ t.num <= MaxEntry
      /\ t.entries \in [Index -> Entry]
      /\ \A i \in Int : i \in Index <=> 0 <= i /\ i < MaxEntry
      /\ t = [entries |-> t.entries, num |-> t.num]
  BY TableFacts DEF NeighTable
<1>2. /\ at.pos \in 0 .. t.num
      /\ at.found \in BOOLEAN
      /\ at.found => at.pos < t.num /\ t.entries[at.pos].key = d.key
  BY LookupFacts
<1>3. AddEntry(t, d) =
        IF at.found THEN [pos |-> p, table |-> [t EXCEPT !.entries[p] = d]]
        ELSE [pos |-> p, table |-> InsertEntry(t, p, d)]
  BY <1>0 DEF AddEntry
<1> HIDE DEF at
<1>4. p \in Index
  BY <1>0, <1>2
<1>5. CASE at.found
  <2> DEFINE f == [t.entries EXCEPT ![p] = d]
             q == [entries |-> f, num |-> t.num]
  <2>1. AddEntry(t, d) = [pos |-> p, table |-> q]
    BY <1>0, <1>3, <1>5
  <2>2. f[p] = d /\ \A i \in Index : i # p => f[i] = t.entries[i]
    BY <1>0, <1>4
  <2>3. q.entries = f /\ q.num = t.num
    OBVIOUS
  <2> HIDE DEF f, q
  <2>4. p \in 0 .. t.num - 1 /\ t.entries[p].key = d.key
        /\ \A i \in 0 .. t.num - 1 : i \in Index
    BY <1>0, <1>2, <1>5
  <2>5. Holds(q, d.key, d.mac)
    BY <2>2, <2>3, <2>4 DEF Holds
  <2>6. ASSUME NEW k, k # d.key, Lacks(t, k) PROVE Lacks(q, k)
    BY <2>2, <2>3, <2>4, <2>6 DEF Lacks
  <2>7. ASSUME NEW k, k # d.key, NEW m, Holds(t, k, m) PROVE Holds(q, k, m)
    <3>1. PICK i \in 0 .. t.num - 1 : t.entries[i].key = k /\ t.entries[i].mac = m
      BY <2>7 DEF Holds
    <3>2. i # p
      BY <2>4, <2>7, <3>1
    <3> QED
      BY <2>2, <2>3, <2>4, <3>1, <3>2 DEF Holds
  <2> QED
    BY <2>1, <2>5, <2>6, <2>7 DEF KeepsOthers
<1>6. CASE ~at.found
  <2> DEFINE f == [Memmove(t.entries, p + 1, p, t.num - p) EXCEPT ![p] = d]
             q == [entries |-> f, num |-> t.num + 1]
  <2>1. AddEntry(t, d) = [pos |-> p, table |-> q]
    BY <1>3, <1>6 DEF InsertEntry
  <2>2. \A i \in 0 .. t.num :
          f[i] = IF i < p THEN t.entries[i] ELSE IF i = p THEN d ELSE t.entries[i - 1]
    BY <1>0, <1>2, InsertFacts
  <2>3. q.entries = f /\ q.num - 1 = t.num
    BY <1>0
  <2> HIDE DEF f, q
  <2>4. p \in 0 .. t.num /\ ~(p < p) /\ p \in Int
    BY <1>0, <1>2
  <2>5. Holds(q, d.key, d.mac)
    <3>1. f[p] = d
      BY <2>2, <2>4
    <3> QED
      BY <2>3, <2>4, <3>1 DEF Holds
  <2>6. ASSUME NEW k, k # d.key, Lacks(t, k) PROVE Lacks(q, k)
    <3> SUFFICES ASSUME NEW i \in 0 .. t.num PROVE f[i].key # k
      BY <2>3 DEF Lacks
    <3>1. CASE i < p
      <4>1. i \in 0 .. t.num - 1
        BY <1>0, <2>4, <3>1
      <4> QED
        BY <2>2, <2>6, <3>1, <4>1 DEF Lacks
    <3>2. CASE i = p
      BY <2>2, <2>4, <2>6, <3>2
    <3>3. CASE p < i
      <4>1. i - 1 \in 0 .. t.num - 1 /\ ~(i < p) /\ i # p
        BY <1>0, <2>4, <3>3
      <4> QED
        BY <2>2, <2>6, <4>1 DEF Lacks
    <3> QED
      BY <2>4, <3>1, <3>2, <3>3
  <2>7. ASSUME NEW k, k # d.key, NEW m, Holds(t, k, m) PROVE Holds(q, k, m)
    <3>1. PICK i \in 0 .. t.num - 1 : t.entries[i].key = k /\ t.entries[i].mac = m
      BY <2>7 DEF Holds
    <3>2. CASE i < p
      <4>1. i \in 0 .. t.num /\ f[i] = t.entries[i]
        BY <1>0, <2>2, <3>2
      <4> QED
        BY <2>3, <3>1, <4>1 DEF Holds
    <3>3. CASE ~(i < p)
      <4>1. i + 1 \in 0 .. t.num /\ ~(i + 1 < p) /\ i + 1 # p /\ (i + 1) - 1 = i
        BY <1>0, <2>4, <3>3
      <4>2. f[i + 1] = t.entries[i]
        BY <2>2, <4>1
      <4> QED
        BY <2>3, <3>1, <4>1, <4>2 DEF Holds
    <3> QED
      BY <3>2, <3>3
  <2> QED
    BY <2>1, <2>5, <2>6, <2>7 DEF KeepsOthers
<1> QED
  BY <1>2, <1>5, <1>6

LEMMA DeleteEffect ==
  ASSUME NEW t \in NeighTable, Sorted(t), NEW d \in Entry, d.key \in Nat
  PROVE  LET q == DeleteEntry(t, d).table
         IN  Lacks(q, d.key) /\ KeepsOthers(t, q, d.key)
<1> DEFINE at == Lookup(t, d.key)
           p == at.pos
           num == t.num - 1
           f == Memmove(t.entries, p, p + 1, num - p)
           q == [entries |-> f, num |-> num]
<1>0. /\ MaxEntry \in Nat /\ t.num \in Nat /\ t.num <= MaxEntry
      /\ t.entries \in [Index -> Entry]
      /\ \A i \in 0 .. t.num - 1 : t.entries[i].key \in Nat
  BY TableFacts
<1>1. /\ at.pos \in 0 .. t.num
      /\ at.found \in BOOLEAN
      /\ at.found => at.pos < t.num /\ t.entries[at.pos].key = d.key
      /\ ~at.found => \A i \in 0 .. t.num - 1 :
           /\ i < at.pos => t.entries[i].key < d.key
           /\ at.pos <= i => d.key < t.entries[i].key
  BY LookupFacts
<1>2. DeleteEntry(t, d) = IF at.found THEN [pos |-> p, table |-> q] ELSE [pos |-> -1, table |-> t]
  BY DEF DeleteEntry, RemoveEntry
<1> HIDE DEF at
<1>3. CASE ~at.found
  <2>1. ASSUME NEW i \in 0 .. t.num - 1 PROVE t.entries[i].key # d.key
    <3>1. i < at.pos \/ at.pos <= i
      BY <1>1
    <3>2. t.entries[i].key \in Nat
      BY <1>0
    <3>3. t.entries[i].key < d.key \/ d.key < t.entries[i].key
      BY <1>1, <1>3, <3>1
    <3> QED
      BY <3>2, <3>3
  <2>2. Lacks(t, d.key)
    BY <2>1 DEF Lacks
  <2>3. KeepsOthers(t, t, d.key)
    BY DEF KeepsOthers
  <2>4. DeleteEntry(t, d).table = t
    BY <1>2, <1>3
  <2> QED
    BY <2>2, <2>3, <2>4
<1>4. CASE at.found
  <2>1. num \in Nat /\ num < MaxEntry /\ p \in 0 .. num
    BY <1>0, <1>1, <1>4
  <2>2. \A i \in 0 .. num - 1 : f[i] = IF i < p THEN t.entries[i] ELSE t.entries[i + 1]
    BY <1>0, <2>1, RemoveFacts, ZenonT(40)
  <2>3. DeleteEntry(t, d).table = q /\ q.entries = f /\ q.num = num
    BY <1>2, <1>4
  <2> HIDE DEF f, q
  <2>4. p \in 0 .. t.num - 1 /\ t.entries[p].key = d.key /\ num + 1 = t.num
    BY <1>0, <1>1, <1>4, <2>1
  <2>5. ASSUME NEW i \in 0 .. num - 1
        PROVE  \E j \in 0 .. t.num - 1 : j # p /\ f[i] = t.entries[j]
    <3>1. CASE i < p
      <4>1. i \in 0 .. t.num - 1 /\ i # p /\ f[i] = t.entries[i]
        BY <1>0, <2>1, <2>2, <3>1
      <4> QED
        BY <4>1
    <3>2. CASE ~(i < p)
      <4>1. i + 1 \in 0 .. t.num - 1 /\ i + 1 # p
        BY <1>0, <2>1, <3>2
      <4>2. f[i] = t.entries[i + 1]
        BY <2>2, <3>2
      <4> QED
        BY <4>1, <4>2
    <3> QED
      BY <3>1, <3>2
  <2>6. ASSUME NEW j \in 0 .. t.num - 1, j # p
        PROVE  \E i \in 0 .. num - 1 : f[i] = t.entries[j]
    <3>1. CASE j < p
      <4>1. j \in 0 .. num - 1 /\ f[j] = t.entries[j]
        BY <1>0, <2>1, <2>2, <3>1
      <4> QED
        BY <4>1
    <3>2. CASE p < j
      <4>1. j - 1 \in 0 .. num - 1 /\ ~(j - 1 < p) /\ (j - 1) + 1 = j
        BY <1>0, <2>1, <3>2
      <4>2. f[j - 1] = t.entries[j]
        BY <2>2, <4>1
      <4> QED
        BY <4>1, <4>2
    <3> QED
      BY <2>1, <2>6, <3>1, <3>2
  <2> HIDE DEF num
  <2>7. Lacks(q, d.key)
    <3> SUFFICES ASSUME NEW i \in 0 .. num - 1 PROVE f[i].key # d.key
      BY <2>3 DEF Lacks
    <3>1. PICK j \in 0 .. t.num - 1 : j # p /\ f[i] = t.entries[j]
      BY <2>5
    <3>2. j < p \/ p < j
      BY <2>1, <3>1
    <3>3. t.entries[j].key < t.entries[p].key \/ t.entries[p].key < t.entries[j].key
      BY <2>4, <3>2 DEF Sorted
    <3>4. t.entries[j].key \in Nat /\ t.entries[p].key \in Nat
      BY <1>0, <2>4
    <3> QED
      BY <2>4, <3>1, <3>3, <3>4
  <2>8. ASSUME NEW k, k # d.key, Lacks(t, k) PROVE Lacks(q, k)
    BY <2>3, <2>5, <2>8 DEF Lacks
  <2>9. ASSUME NEW k, k # d.key, NEW m, Holds(t, k, m) PROVE Holds(q, k, m)
    <3>1. PICK j \in 0 .. t.num - 1 : t.entries[j].key = k /\ t.entries[j].mac = m
      BY <2>9 DEF Holds
    <3>2. j # p
      BY <2>4, <2>9, <3>1
    <3>3. PICK i \in 0 .. num - 1 : f[i] = t.entries[j]
      BY <2>6, <3>2
    <3> QED
      BY <2>3, <3>1, <3>3 DEF Holds
  <2> QED
    BY <2>3, <2>7, <2>8, <2>9 DEF KeepsOthers
<1> QED
  BY <1>1, <1>3, <1>4

-----------------------------------------------------------------------------
(* The events the kernel queues.                                           *)

\* The kernel's neighbour k changes, and e says so.
Reported(k, e) ==
  /\ events' = events \o <<e>> /\ e \in NeighEvent /\ e.key = k
  /\ IF k \in DOMAIN kernel' THEN e.op = "new" /\ e.mac = kernel'[k] ELSE e.op = "del"
  /\ \A j : j # k => /\ j \in DOMAIN kernel' <=> j \in DOMAIN kernel
                     /\ j \in DOMAIN kernel => kernel'[j] = kernel[j]

LEMMA KernelNews ==
  ASSUME KernelTyped, Kernel
  PROVE  \/ kernel' = kernel /\ \E s \in Seq(IfEvent) : events' = events \o s
         \/ \E k \in Key, e \in NeighEvent : Reported(k, e)
<1>1. /\ site.key \subseteq Key /\ site.addr \subseteq Addr
      /\ site.lladdr \in [site.key -> SUBSET (Mac \cup {None})]
      /\ site.field \subseteq Field
  BY SiteFacts DEF KernelTyped
<1>2. ASSUME NEW k \in site.key, KernelNeighGone(k)
      PROVE  \E e \in NeighEvent : Reported(k, e)
  <2> DEFINE e == [of |-> "neigh", op |-> "del", key |-> k, mac |-> None]
  <2>1. e \in NeighEvent /\ e.key = k /\ e.op = "del"
    BY <1>1 DEF NeighEvent
  <2>2. events' = events \o <<e>> /\ kernel' = [j \in DOMAIN kernel \ {k} |-> kernel[j]]
    BY <1>2 DEF KernelNeighGone, Notify
  <2> HIDE DEF e
  <2>3. Reported(k, e)
    BY <2>1, <2>2 DEF Reported
  <2> QED
    BY <2>1, <2>3
<1>3. ASSUME NEW k \in site.key, NEW m \in site.lladdr[k], KernelNeigh(k, m)
      PROVE  \E e \in NeighEvent : Reported(k, e)
  <2> DEFINE e == [of |-> "neigh", op |-> "new", key |-> k, mac |-> m]
  <2>1. e \in NeighEvent /\ e.key = k /\ e.op = "new" /\ e.mac = m
    BY <1>1 DEF NeighEvent
  <2>2. /\ events' = events \o <<e>>
        /\ kernel' = [j \in DOMAIN kernel \cup {k} |-> IF j = k THEN m ELSE kernel[j]]
    BY <1>3 DEF KernelNeigh, Notify
  <2> HIDE DEF e
  <2>3. Reported(k, e)
    BY <2>1, <2>2 DEF Reported
  <2> QED
    BY <2>1, <2>3
<1>4. ASSUME NEW e \in IfEvent, events' = events \o <<e>>
      PROVE  \E s \in Seq(IfEvent) : events' = events \o s
  <2>1. <<e>> \in Seq(IfEvent)
    OBVIOUS
  <2> QED
    BY <1>4, <2>1
<1>5. ASSUME NEW t \in site.tap, KernelUnbridge(t)
      PROVE  kernel' = kernel /\ \E s \in Seq(IfEvent) : events' = events \o s
  <2>1. t \in DOMAIN dev /\ "mac" \in Field
    BY <1>5 DEF KernelUnbridge, Field
  <2>2. IfEv("del", t, "mac") \in IfEvent
    BY <2>1, DeviceFacts, IfEvFacts
  <2>3. kernel' = kernel /\ events' = events \o <<IfEv("del", t, "mac")>>
    BY <1>5 DEF KernelUnbridge, Notify, kernelVars
  <2> QED
    BY <1>4, <2>2, <2>3
<1>6. ASSUME NEW t \in site.tap, KernelLinkGone(t)
      PROVE  kernel' = kernel /\ \E s \in Seq(IfEvent) : events' = events \o s
  BY <1>6, LinkGoneEvents DEF KernelLinkGone
<1>7. ASSUME NEW t \in site.tap, NEW f \in site.field, KernelAddrGone(t, f)
      PROVE  kernel' = kernel /\ \E s \in Seq(IfEvent) : events' = events \o s
  <2>1. /\ t \in DOMAIN dev /\ f \in Field /\ dev[t].addr[f] # Zero
        /\ events' = events \o <<IfEv("del", t, f)>> /\ kernel' = kernel
    BY <1>1, <1>7 DEF KernelAddrGone, Notify
  <2>2. IfEv("del", t, f) \in IfEvent
    BY <2>1, IfEvFacts
  <2> QED
    BY <1>4, <2>1, <2>2
<1>8. ASSUME NEW t \in site.tap, NEW f \in site.field, NEW a \in site.addr, KernelAddr(t, f, a)
      PROVE  kernel' = kernel /\ \E s \in Seq(IfEvent) : events' = events \o s
  <2>1. /\ t \in DOMAIN dev /\ f \in Field /\ a \in Addr
        /\ events' = events \o <<[IfEv("new", t, f) EXCEPT !.val = a]>> /\ kernel' = kernel
    BY <1>1, <1>8 DEF KernelAddr, Notify
  <2>2. [IfEv("new", t, f) EXCEPT !.val = a] \in IfEvent
    BY <2>1, IfEvFacts
  <2> QED
    BY <1>4, <2>1, <2>2
<1>9. site.key \subseteq Key
  BY <1>1
<1> QED
  BY <1>2, <1>3, <1>5, <1>6, <1>7, <1>8, <1>9 DEF Kernel

LEMMA IfMessageNews ==
  ASSUME NetlinkInv, IfMessage
  PROVE  kernel' = kernel /\ \E s \in Seq(IfEvent) : events' = events \o s
<1> DEFINE m == Head(ribq)
<1>0. /\ KernelTyped /\ site \in Site /\ ribq \in Seq(Msg) /\ site.addr \subseteq Addr
      /\ events \in Seq(NeighEvent \cup IfEvent) /\ lastIdx \in Nat
  BY SiteFacts DEF NetlinkInv, KernelTyped, TablesTyped
<1>1. ribq # <<>> /\ ~IsDelta(m)
  BY DEF IfMessage
<1>2. m \in Other
  <2>1. m \in Msg
    BY <1>0, <1>1
  <2> HIDE DEF m
  <2> QED
    BY <1>1, <2>1, DeltaFacts
<1>3. ASSUME UNCHANGED <<kernelVars, events>>
      PROVE  kernel' = kernel /\ \E s \in Seq(IfEvent) : events' = events \o s
  <2>1. <<>> \in Seq(IfEvent) /\ events = events \o <<>>
    BY <1>0
  <2> QED
    BY <1>3, <2>1 DEF kernelVars
<1>4. CASE m.op \in {"addr_add", "addr_del"}
  <2>1. UNCHANGED <<kernelVars, events>>
    BY <1>4 DEF IfMessage
  <2> QED
    BY <1>3, <2>1
<1>5. CASE m.op = "if_no_set"
  <2>1. IfNoSet(m.tap)
    BY <1>5 DEF IfMessage
  <2> QED
    BY <1>3, <2>1 DEF IfNoSet
<1>6. CASE m.op = "if_set"
  <2>1. PICK pass \in BOOLEAN : IfSet(m.slot, m.tap, pass)
    BY <1>6 DEF IfMessage
  <2> HIDE DEF m
  <2>2. CASE m.tap \in DOMAIN dev
    <3>1. UNCHANGED <<kernelVars, events>>
      BY <2>1, <2>2 DEF IfSet
    <3> QED
      BY <1>3, <3>1
  <2>3. CASE m.tap \notin DOMAIN dev
    <3>1. PICK a \in site.addr : TapOpen(m.tap, a)
      BY <2>1, <2>3 DEF IfSet
    <3> DEFINE e == [of |-> "if", op |-> "new", idx |-> lastIdx', field |-> "mac", val |-> a]
    <3>2. events' = events \o <<e>> /\ kernel' = kernel /\ lastIdx' \in 1 .. MaxIdx
      BY <1>0, <3>1, BoundAssumption DEF TapOpen, Notify
    <3>3. e \in IfEvent
      BY <1>0, <3>2 DEF IfEvent, Field
    <3> HIDE DEF e
    <3>4. <<e>> \in Seq(IfEvent)
      BY <3>3
    <3> QED
      BY <3>2, <3>4
  <2> QED
    BY <2>2, <2>3
<1> QED
  BY <1>2, <1>4, <1>5, <1>6 DEF Other, AddrMsg, IfMsg

-----------------------------------------------------------------------------
(* Every step keeps the account of a key.                                  *)

SameNeigh(k) ==
  /\ k \in DOMAIN kernel' <=> k \in DOMAIN kernel
  /\ k \in DOMAIN kernel => kernel'[k] = kernel[k]

LEMMA SameNeighFacts ==
  ASSUME NEW k, SameNeigh(k)
  PROVE  /\ EventsNow(k)' = EventsNow(k) /\ MsgsNow(k)' = MsgsNow(k)
         /\ EventsOf(k)' = EventsOf(k) /\ MsgsOf(k)' = MsgsOf(k)
         /\ Unresolved(k)' <=> Unresolved(k)
         /\ master' = master => (TableNow(k)' <=> TableNow(k))
<1>1. EventsOf(k)' = EventsOf(k) /\ MsgsOf(k)' = MsgsOf(k)
  BY DEF EventsOf, MsgsOf
<1>2. CASE k \in DOMAIN kernel
  <2>1. k \in DOMAIN kernel' /\ kernel'[k] = kernel[k]
    BY <1>2 DEF SameNeigh
  <2>2. EventsNow(k)' = EventsNow(k)
    BY <1>1, <1>2, <2>1 DEF EventsNow
  <2>3. MsgsNow(k)' = MsgsNow(k)
    BY <1>1, <1>2, <2>1 DEF MsgsNow
  <2> QED
    BY <1>1, <1>2, <2>1, <2>2, <2>3 DEF Unresolved, TableNow
<1>3. CASE k \notin DOMAIN kernel
  <2>1. k \notin DOMAIN kernel'
    BY <1>3 DEF SameNeigh
  <2>2. EventsNow(k)' = EventsNow(k)
    BY <1>1, <1>3, <2>1 DEF EventsNow
  <2>3. MsgsNow(k)' = MsgsNow(k)
    BY <1>1, <1>3, <2>1 DEF MsgsNow
  <2> QED
    BY <1>1, <1>3, <2>1, <2>2, <2>3 DEF Unresolved, TableNow
<1> QED
  BY <1>2, <1>3

\* Messages about other keys are sent.
LEMMA PassedOthers ==
  ASSUME NEW k, SameNeigh(k), master' = master, Ahead(k) => Ahead(k)',
         neighq \in Seq(Event), NEW s \in Seq(Event), NoneIn(s, MsgsOf(k)),
         neighq' = neighq \o s, Passed(k)
  PROVE  Passed(k)'
<1>1. /\ MsgsNow(k)' = MsgsNow(k) /\ MsgsOf(k)' = MsgsOf(k)
      /\ Unresolved(k)' <=> Unresolved(k)
      /\ TableNow(k)' <=> TableNow(k)
  BY SameNeighFacts
<1>2. NoneIn(neighq, MsgsOf(k)) => NoneIn(neighq', MsgsOf(k))
  BY NoneInConcat
<1>3. EndsIn(neighq, MsgsOf(k), MsgsNow(k)) => EndsIn(neighq', MsgsOf(k), MsgsNow(k))
  BY EndsInConcat
<1>4. NoneIn(neighq, MsgsOf(k))' <=> NoneIn(neighq', MsgsOf(k))
  BY <1>1
<1>5. EndsIn(neighq, MsgsOf(k), MsgsNow(k))' <=> EndsIn(neighq', MsgsOf(k), MsgsNow(k))
  BY <1>1
<1>6. Lacks(master, k)' <=> Lacks(master, k)
  OBVIOUS
<1> QED
  BY <1>1, <1>2, <1>3, <1>4, <1>5, <1>6 DEF Passed

\* Events about other keys, or about devices, are queued.
LEMMA ToldOthers ==
  ASSUME NEW k, SameNeigh(k), UNCHANGED <<site, pos, neighq, master>>,
         NEW S, events \in Seq(S), NEW s \in Seq(S), NoneIn(s, EventsOf(k)),
         events' = events \o s, neighq \in Seq(Event), Told(k)
  PROVE  Told(k)'
<1>1. EventsNow(k)' = EventsNow(k) /\ EventsOf(k)' = EventsOf(k)
  BY SameNeighFacts
<1>2. NoneIn(events, EventsOf(k)) => NoneIn(events', EventsOf(k))
  BY NoneInConcat
<1>3. EndsIn(events, EventsOf(k), EventsNow(k)) => EndsIn(events', EventsOf(k), EventsNow(k))
  BY EndsInConcat
<1>4. Ahead(k) => Ahead(k)'
  BY DEF Ahead, Dump, DumpOf, DumpNeigh
<1>5. <<>> \in Seq(Event) /\ neighq' = neighq \o <<>> /\ NoneIn(<<>>, MsgsOf(k))
  <2>1. NoneIn(<<>>, MsgsOf(k))
    BY EmptySays
  <2> QED
    BY <2>1
<1>6. Passed(k) => Passed(k)'
  BY <1>4, <1>5, PassedOthers
<1> QED
  BY <1>1, <1>2, <1>3, <1>6 DEF Told

LEMMA DeviceEvents ==
  ASSUME NEW s \in Seq(IfEvent), NEW k
  PROVE  s \in Seq(NeighEvent \cup IfEvent) /\ NoneIn(s, EventsOf(k))
<1>1. \A e \in IfEvent : e \notin NeighEvent
  BY DEF IfEvent, NeighEvent
<1>2. \A i \in 1 .. Len(s) : s[i] \in IfEvent
  OBVIOUS
<1> QED
  BY <1>1, <1>2 DEF NoneIn, EventsOf

LEMMA ToldByKernel ==
  ASSUME NetlinkInv, Kernel, NEW k \in Key, Told(k)
  PROVE  Told(k)'
<1>0. /\ KernelTyped /\ events \in Seq(NeighEvent \cup IfEvent) /\ neighq \in Seq(Event)
      /\ UNCHANGED <<site, pos, neighq, master>>
  BY DEF NetlinkInv, KernelTyped, TablesTyped, Kernel, neighVars
<1>1. CASE kernel' = kernel /\ \E s \in Seq(IfEvent) : events' = events \o s
  <2>1. PICK s \in Seq(IfEvent) : events' = events \o s
    BY <1>1
  <2>2. s \in Seq(NeighEvent \cup IfEvent) /\ NoneIn(s, EventsOf(k))
    BY DeviceEvents
  <2>3. SameNeigh(k)
    BY <1>1 DEF SameNeigh
  <2> QED
    BY <1>0, <2>1, <2>2, <2>3, ToldOthers
<1>2. CASE \E j \in Key, e \in NeighEvent : Reported(j, e)
  <2>1. PICK j \in Key, e \in NeighEvent : Reported(j, e)
    BY <1>2
  <2>2. CASE j = k
    <3>1. e \in EventsNow(k)'
      BY <2>1, <2>2 DEF Reported, EventsNow, EventsOf
    <3>2. e \in NeighEvent \cup IfEvent
      OBVIOUS
    <3>3. EndsIn(events \o <<e>>, EventsOf(k)', EventsNow(k)')
      BY <1>0, <3>1, <3>2, EndsInAppend
    <3>4. events' = events \o <<e>>
      BY <2>1 DEF Reported
    <3> QED
      BY <3>3, <3>4 DEF Told
  <2>3. CASE j # k
    <3>1. SameNeigh(k) /\ events' = events \o <<e>> /\ e \notin EventsOf(k)
      BY <2>1, <2>3 DEF Reported, SameNeigh, EventsOf
    <3>2. <<e>> \in Seq(NeighEvent \cup IfEvent) /\ NoneIn(<<e>>, EventsOf(k))
      BY <3>1, NoneInOne
    <3> QED
      BY <1>0, <3>1, <3>2, ToldOthers
  <2> QED
    BY <2>2, <2>3
<1> QED
  BY <1>0, <1>1, <1>2, KernelNews

LEMMA ToldByIfMessage ==
  ASSUME NetlinkInv, IfMessage, NEW k \in Key, Told(k)
  PROVE  Told(k)'
<1>0. /\ events \in Seq(NeighEvent \cup IfEvent) /\ neighq \in Seq(Event)
      /\ UNCHANGED <<site, pos, neighq, master>>
  BY DEF NetlinkInv, KernelTyped, TablesTyped, IfMessage
<1>1. PICK s \in Seq(IfEvent) : kernel' = kernel /\ events' = events \o s
  BY IfMessageNews
<1>2. s \in Seq(NeighEvent \cup IfEvent) /\ NoneIn(s, EventsOf(k))
  BY DeviceEvents
<1>3. SameNeigh(k)
  BY <1>1 DEF SameNeigh
<1> QED
  BY <1>0, <1>1, <1>2, <1>3, ToldOthers

LEMMA SendsAll ==
  ASSUME NEW S, NEW q \in Seq(S), NEW msgs \in Seq(S), NEW size \in Nat,
         Len(q) + Len(msgs) <= size
  PROVE  Send(q, size, msgs) = q \o msgs
<1> DEFINE M == {Len(msgs), size - Len(q)}
           n == Min(M)
<1>1. Len(msgs) \in Nat /\ size - Len(q) \in Int /\ Len(msgs) <= size - Len(q)
  OBVIOUS
<1>2. \E x \in M : \A y \in M : x <= y
  BY <1>1
<1>3. n \in M /\ \A y \in M : n <= y
  BY <1>2, Zenon DEF Min
<1>4. n = Len(msgs)
  BY <1>1, <1>3
<1>5. Send(q, size, msgs) = q \o SubSeq(msgs, 1, n)
  BY Zenon DEF Send
<1> HIDE DEF n
<1>6. SubSeq(msgs, 1, Len(msgs)) = msgs
  OBVIOUS
<1> QED
  BY <1>4, <1>5, <1>6

\* A message about j is sent in full, and is about no other key.
LEMMA NeighSends ==
  ASSUME TablesTyped, Len(neighq) < NeighRing,
         NEW op \in {"new", "del"}, NEW j \in Key, NEW m \in Mac \cup {None}
  PROVE  /\ NeighMsgs(op, j, m) \in Seq(Event)
         /\ Send(neighq, NeighRing, NeighMsgs(op, j, m)) = neighq \o NeighMsgs(op, j, m)
         /\ \A k : k # j => NoneIn(NeighMsgs(op, j, m), MsgsOf(k))
<1> DEFINE d == [op |-> "del", data |-> [key |-> j, mac |-> None]]
           a == [op |-> "add", data |-> [key |-> j, mac |-> m]]
           msgs == NeighMsgs(op, j, m)
<1>1. neighq \in Seq(Event) /\ NeighRing \in Nat
  BY RingAssumption DEF TablesTyped
<1>2. d \in Event /\ a \in Event /\ d.data.key = j /\ a.data.key = j
  BY DEF Event, Entry
<1>3. msgs \in {<<d>>, <<>>, <<a>>}
  BY DEF NeighMsgs
<1> HIDE DEF d, a, msgs
<1>4. msgs \in Seq(Event) /\ Len(msgs) <= 1
  <2>1. /\ <<d>> \in Seq(Event) /\ <<>> \in Seq(Event) /\ <<a>> \in Seq(Event)
        /\ Len(<<d>>) = 1 /\ Len(<<>>) = 0 /\ Len(<<a>>) = 1
    BY <1>2
  <2>2. 1 <= 1 /\ 0 <= 1
    OBVIOUS
  <2> QED
    BY <1>3, <2>1, <2>2, Zenon
<1>5. Send(neighq, NeighRing, msgs) = neighq \o msgs
  BY <1>1, <1>4, SendsAll
<1>6. ASSUME NEW k, k # j PROVE NoneIn(msgs, MsgsOf(k))
  <2>1. d \notin MsgsOf(k) /\ a \notin MsgsOf(k)
    BY <1>2, <1>6 DEF MsgsOf
  <2>2. NoneIn(<<d>>, MsgsOf(k)) /\ NoneIn(<<a>>, MsgsOf(k))
    BY <1>2, <2>1, NoneInOne
  <2>3. NoneIn(<<>>, MsgsOf(k))
    BY EmptySays
  <2> QED
    BY <1>3, <2>2, <2>3
<1> QED
  BY <1>4, <1>5, <1>6 DEF msgs

\* What the kernel has for k now is sent.
LEMMA PassedNow ==
  ASSUME NEW k \in Key, UNCHANGED kernel, neighq \in Seq(Event),
         NEW op, NEW m,
         IF k \in DOMAIN kernel THEN op = "new" /\ m = kernel[k] /\ m \in Mac \cup {None}
         ELSE op = "del",
         neighq' = neighq \o NeighMsgs(op, k, m)
  PROVE  Passed(k)'
<1>1. MsgsNow(k)' = MsgsNow(k) /\ MsgsOf(k)' = MsgsOf(k)
  BY DEF MsgsNow, MsgsOf
<1>2. CASE k \notin DOMAIN kernel
  <2> DEFINE d == [op |-> "del", data |-> [key |-> k, mac |-> None]]
  <2>1. NeighMsgs(op, k, m) = <<d>>
    BY <1>2 DEF NeighMsgs
  <2>2. d \in Event /\ d \in MsgsNow(k)
    BY <1>2 DEF MsgsNow, MsgsOf, Event, Entry
  <2> HIDE DEF d
  <2>3. EndsIn(neighq', MsgsOf(k), MsgsNow(k))
    BY <2>1, <2>2, EndsInAppend
  <2> QED
    BY <1>1, <2>3 DEF Passed
<1>3. CASE k \in DOMAIN kernel /\ m = None
  BY <1>3 DEF Passed, Unresolved
<1>4. CASE k \in DOMAIN kernel /\ m # None
  <2> DEFINE a == [op |-> "add", data |-> [key |-> k, mac |-> m]]
  <2>1. NeighMsgs(op, k, m) = <<a>>
    BY <1>4 DEF NeighMsgs
  <2>2. a \in Event /\ a \in MsgsNow(k)
    BY <1>4 DEF MsgsNow, MsgsOf, Event, Entry
  <2> HIDE DEF a
  <2>3. EndsIn(neighq', MsgsOf(k), MsgsNow(k))
    BY <2>1, <2>2, EndsInAppend
  <2> QED
    BY <1>1, <2>3 DEF Passed
<1> QED
  BY <1>2, <1>3, <1>4

\* The dump goes on past the item of another key.
LEMMA AheadKept ==
  ASSUME NetlinkInv, NEW k, site' = site, pos' = pos + 1,
         pos \in 1 .. Len(Dump), Dump[pos].fields # {} \/ Dump[pos].key # k, Ahead(k)
  PROVE  Ahead(k)'
<1>1. Dump' = Dump
  BY DEF Dump, DumpOf, DumpNeigh
<1>2. Dump \in Seq(DItem)
  BY DumpFacts DEF NetlinkInv, KernelTyped
<1> HIDE DEF Dump
<1>3. PICK i \in DOMAIN Dump : pos <= i /\ Dump[i].fields = {} /\ Dump[i].key = k
  BY DEF Ahead
<1>4. pos \in Int /\ i \in Int /\ i # pos
  BY <1>2, <1>3
<1>5. pos + 1 <= i
  BY <1>3, <1>4
<1> QED
  BY <1>1, <1>3, <1>5 DEF Ahead

LEMMA ToldByDumpItem ==
  ASSUME NetlinkInv, DumpItem, UNCHANGED <<site, kernel, master>>,
         Len(neighq) < NeighRing, NEW k \in Key, Told(k)
  PROVE  Told(k)'
<1> DEFINE item == Dump[pos]
           j == item.key
<1>0. /\ TablesTyped /\ neighq \in Seq(Event) /\ site \in Site
      /\ DOMAIN kernel \subseteq Key
      /\ \A i \in DOMAIN kernel : kernel[i] \in Mac \cup {None}
  BY DEF NetlinkInv, KernelTyped, TablesTyped
<1>1. pos \in 1 .. Len(Dump) /\ pos' = pos + 1 /\ events' = events
  BY DEF DumpItem, Dumping
<1>2. /\ item.fields = {} =>
           neighq' = IF j \in DOMAIN kernel
                     THEN Send(neighq, NeighRing, NeighMsgs("new", j, kernel[j]))
                     ELSE neighq
      /\ item.fields # {} => neighq' = neighq
  BY Zenon DEF DumpItem
<1>3. SameNeigh(k)
  BY DEF SameNeigh
<1>4. EventsNow(k)' = EventsNow(k) /\ EventsOf(k)' = EventsOf(k)
  BY <1>3, SameNeighFacts
<1>5. Passed(k) => Passed(k)'
  <2> SUFFICES ASSUME Passed(k) PROVE Passed(k)'
    OBVIOUS
  <2>1. item.fields # {} \/ item.key # k => (Ahead(k) => Ahead(k)')
    BY <1>1, AheadKept
  <2>2. <<>> \in Seq(Event) /\ neighq = neighq \o <<>> /\ NoneIn(<<>>, MsgsOf(k))
    <3>1. NoneIn(<<>>, MsgsOf(k))
      BY EmptySays
    <3> QED
      BY <1>0, <3>1
  <2> HIDE DEF item
  <2>3. CASE item.fields # {}
    BY <1>0, <1>2, <1>3, <2>1, <2>2, <2>3, PassedOthers
  <2>4. CASE item.fields = {} /\ j \in DOMAIN kernel
    <3> DEFINE s == NeighMsgs("new", j, kernel[j])
    <3>1. j \in Key /\ kernel[j] \in Mac \cup {None}
      BY <1>0, <2>4
    <3>2. /\ s \in Seq(Event) /\ Send(neighq, NeighRing, s) = neighq \o s
          /\ \A i : i # j => NoneIn(s, MsgsOf(i))
      BY <1>0, <3>1, NeighSends
    <3>3. neighq' = neighq \o s
      BY <1>2, <2>4, <3>2
    <3>4. CASE j = k
      BY <1>0, <2>4, <3>1, <3>3, <3>4, PassedNow
    <3>5. CASE j # k
      <4>1. NoneIn(s, MsgsOf(k))
        BY <3>2, <3>5
      <4> HIDE DEF s
      <4> QED
        BY <1>0, <1>3, <2>1, <3>2, <3>3, <3>5, <4>1, PassedOthers
    <3> QED
      BY <3>4, <3>5
  <2>5. CASE item.fields = {} /\ j \notin DOMAIN kernel
    <3>1. neighq' = neighq
      BY <1>2, <2>5
    <3>2. CASE j # k
      BY <1>0, <1>3, <2>1, <2>2, <3>1, <3>2, PassedOthers
    <3>3. CASE j = k
      <4>1. /\ MsgsNow(k)' = MsgsNow(k) /\ MsgsOf(k)' = MsgsOf(k)
            /\ Unresolved(k)' <=> Unresolved(k)
            /\ TableNow(k)' <=> TableNow(k)
        BY <1>3, SameNeighFacts
      <4>2. NoneIn(neighq, MsgsOf(k))' <=> NoneIn(neighq, MsgsOf(k))
        BY <3>1, <4>1
      <4>3. EndsIn(neighq, MsgsOf(k), MsgsNow(k))' <=> EndsIn(neighq, MsgsOf(k), MsgsNow(k))
        BY <3>1, <4>1
      <4>4. Lacks(master, k) => TableNow(k)
        BY <2>5, <3>3 DEF TableNow
      <4> QED
        BY <4>1, <4>2, <4>3, <4>4 DEF Passed
    <3> QED
      BY <3>2, <3>3
  <2> QED
    BY <2>3, <2>4, <2>5
<1> QED
  BY <1>1, <1>4, <1>5 DEF Told

LEMMA ToldByReadEvent ==
  ASSUME NetlinkInv, ReadEvent, UNCHANGED <<site, kernel, master>>,
         Len(neighq) < NeighRing, NEW k \in Key, Told(k)
  PROVE  Told(k)'
<1> DEFINE ev == Head(events)
           S == NeighEvent \cup IfEvent
<1>0. /\ TablesTyped /\ neighq \in Seq(Event) /\ events \in Seq(S)
      /\ DOMAIN kernel \subseteq Key
      /\ \A i \in DOMAIN kernel : kernel[i] \in Mac \cup {None}
  BY DEF NetlinkInv, KernelTyped, TablesTyped
<1>1. /\ events # <<>> /\ events' = Tail(events) /\ pos' = pos
      /\ ev.of = "neigh" => neighq' = Send(neighq, NeighRing, NeighMsgs(ev.op, ev.key, ev.mac))
      /\ ev.of # "neigh" => neighq' = neighq
  BY DEF ReadEvent
<1>2. ev \in S
  BY <1>0, <1>1
<1> HIDE DEF ev
<1>3. SameNeigh(k)
  BY DEF SameNeigh
<1>4. EventsNow(k)' = EventsNow(k) /\ EventsOf(k)' = EventsOf(k)
  BY <1>3, SameNeighFacts
<1>5. Ahead(k) => Ahead(k)'
  BY <1>1 DEF Ahead, Dump, DumpOf, DumpNeigh
<1>6. NoneIn(events, EventsOf(k)) => NoneIn(events', EventsOf(k)) /\ ev \notin EventsOf(k)
  BY <1>0, <1>1, NoneInTail DEF ev
<1>7. EndsIn(events, EventsOf(k), EventsNow(k)) =>
        \/ EndsIn(events', EventsOf(k), EventsNow(k))
        \/ ev \in EventsNow(k) /\ NoneIn(events', EventsOf(k))
  BY <1>0, <1>1, EndsInTail DEF ev
<1>8. ASSUME ev \notin EventsOf(k), Passed(k) PROVE Passed(k)'
  <2>1. CASE ev \in IfEvent
    <3>1. neighq' = neighq
      BY <1>1, <2>1 DEF IfEvent
    <3>2. NoneIn(<<>>, MsgsOf(k))
      BY EmptySays
    <3>3. <<>> \in Seq(Event) /\ neighq' = neighq \o <<>>
      BY <1>0, <3>1
    <3> QED
      BY <1>0, <1>3, <1>5, <1>8, <3>2, <3>3, PassedOthers
  <2>2. CASE ev \in NeighEvent
    <3> DEFINE s == NeighMsgs(ev.op, ev.key, ev.mac)
    <3>1. /\ ev.of = "neigh" /\ ev.op \in {"new", "del"} /\ ev.key \in Key
          /\ ev.mac \in Mac \cup {None}
      BY <2>2 DEF NeighEvent
    <3>2. ev.key # k
      BY <1>8, <2>2 DEF EventsOf
    <3>3. s \in Seq(Event) /\ neighq' = neighq \o s /\ NoneIn(s, MsgsOf(k))
      BY <1>0, <1>1, <3>1, <3>2, NeighSends
    <3> HIDE DEF s
    <3> QED
      BY <1>0, <1>3, <1>5, <1>8, <3>3, PassedOthers
  <2> QED
    BY <1>2, <2>1, <2>2
<1>9. ASSUME ev \in EventsNow(k) PROVE Passed(k)'
  <2>1. /\ ev.of = "neigh" /\ ev.op \in {"new", "del"} /\ ev.key = k
        /\ ev.mac \in Mac \cup {None}
    BY <1>9 DEF EventsNow, EventsOf, NeighEvent
  <2>2. IF k \in DOMAIN kernel
        THEN ev.op = "new" /\ ev.mac = kernel[k] /\ ev.mac \in Mac \cup {None}
        ELSE ev.op = "del"
    BY <1>9, <2>1 DEF EventsNow
  <2>3. neighq' = neighq \o NeighMsgs(ev.op, k, ev.mac)
    BY <1>0, <1>1, <2>1, NeighSends
  <2> QED
    BY <1>0, <2>2, <2>3, PassedNow
<1> QED
  BY <1>4, <1>6, <1>7, <1>8, <1>9 DEF Told

\* Nothing about k is sent, and at most the dump begins or is given up.
LEMMA ToldUnmoved ==
  ASSUME NEW k, UNCHANGED <<site, kernel, events, neighq, master>>,
         neighq \in Seq(Event), Ahead(k) => Ahead(k)', Told(k)
  PROVE  Told(k)'
<1>1. SameNeigh(k)
  BY DEF SameNeigh
<1>2. EventsNow(k)' = EventsNow(k) /\ EventsOf(k)' = EventsOf(k)
  BY <1>1, SameNeighFacts
<1>3. NoneIn(<<>>, MsgsOf(k))
  BY EmptySays
<1>4. <<>> \in Seq(Event) /\ neighq' = neighq \o <<>>
  OBVIOUS
<1>5. Passed(k) => Passed(k)'
  BY <1>1, <1>3, <1>4, PassedOthers
<1> QED
  BY <1>2, <1>5 DEF Told

LEMMA ToldByThread ==
  ASSUME NetlinkInv, NetlinkThread, Len(neighq) < NeighRing, NEW k \in Key, Told(k)
  PROVE  Told(k)'
<1>0. UNCHANGED <<site, kernel, master>> /\ neighq \in Seq(Event)
  BY DEF NetlinkThread, kernelVars, NetlinkInv, TablesTyped
<1>1. CASE DumpItem
  BY <1>0, <1>1, ToldByDumpItem
<1>2. CASE ReadEvent
  BY <1>0, <1>2, ToldByReadEvent
<1>3. CASE DumpRefused
  <2>1. pos' = Blocked /\ UNCHANGED <<events, neighq>>
    BY <1>3 DEF DumpRefused
  <2>2. Ahead(k) => Ahead(k)'
    <3>1. Dump' = Dump
      BY <1>0 DEF Dump, DumpOf, DumpNeigh
    <3>2. Dump \in Seq(DItem)
      BY DumpFacts DEF NetlinkInv, KernelTyped
    <3> HIDE DEF Dump
    <3>3. \A i \in DOMAIN Dump : -1 <= i
      BY <3>2
    <3> QED
      BY <2>1, <3>1, <3>3 DEF Ahead, Blocked
  <2> QED
    BY <1>0, <2>1, <2>2, ToldUnmoved
<1> QED
  BY <1>1, <1>2, <1>3 DEF NetlinkThread

LEMMA ToldByCommand ==
  ASSUME NetlinkInv, Command, NEW k \in Key, Told(k)
  PROVE  Told(k)'
<1>0. UNCHANGED <<site, kernel, master>> /\ neighq \in Seq(Event)
  BY DEF Command, kernelVars, NetlinkInv, TablesTyped
<1>1. UNCHANGED <<events, neighq>> /\ (pos' = pos \/ (pos = 0 /\ pos' = 1))
  BY DEF Command, Given, StartupDone, Waiting
<1>2. Ahead(k) => Ahead(k)'
  <2>1. Dump' = Dump
    BY <1>0 DEF Dump, DumpOf, DumpNeigh
  <2>2. Dump \in Seq(DItem)
    BY DumpFacts DEF NetlinkInv, KernelTyped
  <2> HIDE DEF Dump
  <2>3. \A i \in DOMAIN Dump : 1 <= i
    BY <2>2
  <2> QED
    BY <1>1, <2>1, <2>3 DEF Ahead
<1> QED
  BY <1>0, <1>1, <1>2, ToldUnmoved

LEMMA ToldByManager ==
  ASSUME NetlinkInv, NeighManager, UNCHANGED <<site, kernel, events, pos>>,
         Head(neighq).op = "add" => master.num < MaxEntry, NEW k \in Key, Told(k)
  PROVE  Told(k)'
<1> DEFINE ev == Head(neighq)
<1>0. /\ neighq \in Seq(Event) /\ master \in NeighTable /\ Sorted(master)
      /\ \A i \in DOMAIN kernel : kernel[i] \in Mac \cup {None}
  BY DEF NetlinkInv, KernelTyped, TablesTyped
<1>1. /\ neighq # <<>> /\ neighq' = Tail(neighq)
      /\ ev.op = "add" => master' = AddEntry(master, ev.data).table
      /\ ev.op # "add" => master' = DeleteEntry(master, ev.data).table
  BY DEF NeighManager
<1>2. ev \in Event
  BY <1>0, <1>1
<1> HIDE DEF ev
<1>3. /\ ev.op \in {"add", "del"} /\ ev.data \in Entry /\ ev.data.key \in Nat
  <2>1. ev.op \in {"add", "del"} /\ ev.data \in Entry
    BY <1>2 DEF Event
  <2>2. ev.data.key \in Key \cup {0}
    BY <2>1 DEF Entry
  <2>3. Key \cup {0} \subseteq Nat
    BY KeyAssumption
  <2> QED
    BY <2>1, <2>2, <2>3
<1>4. /\ KeepsOthers(master, master', ev.data.key)
      /\ ev.op = "add" => Holds(master', ev.data.key, ev.data.mac)
      /\ ev.op = "del" => Lacks(master', ev.data.key)
  <2>1. CASE ev.op = "add"
    <3>1. master.num < MaxEntry
      BY <2>1 DEF ev
    <3>2. /\ Holds(AddEntry(master, ev.data).table, ev.data.key, ev.data.mac)
          /\ KeepsOthers(master, AddEntry(master, ev.data).table, ev.data.key)
      BY <1>0, <1>3, <3>1, AddEffect
    <3> QED
      BY <1>1, <2>1, <3>2
  <2>2. CASE ev.op = "del"
    <3>1. /\ Lacks(DeleteEntry(master, ev.data).table, ev.data.key)
          /\ KeepsOthers(master, DeleteEntry(master, ev.data).table, ev.data.key)
      BY <1>0, <1>3, DeleteEffect
    <3> QED
      BY <1>1, <2>2, <3>1
  <2> QED
    BY <1>3, <2>1, <2>2
<1>5. SameNeigh(k)
  BY DEF SameNeigh
<1>6. /\ EventsNow(k)' = EventsNow(k) /\ EventsOf(k)' = EventsOf(k)
      /\ MsgsNow(k)' = MsgsNow(k) /\ MsgsOf(k)' = MsgsOf(k)
      /\ Unresolved(k)' <=> Unresolved(k)
  BY <1>5, SameNeighFacts
<1>7. Ahead(k) => Ahead(k)'
  BY DEF Ahead, Dump, DumpOf, DumpNeigh
<1>8. NoneIn(neighq, MsgsOf(k)) => NoneIn(neighq', MsgsOf(k)) /\ ev \notin MsgsOf(k)
  BY <1>0, <1>1, NoneInTail DEF ev
<1>9. EndsIn(neighq, MsgsOf(k), MsgsNow(k)) =>
        \/ EndsIn(neighq', MsgsOf(k), MsgsNow(k))
        \/ ev \in MsgsNow(k) /\ NoneIn(neighq', MsgsOf(k))
  BY <1>0, <1>1, EndsInTail DEF ev
<1>10. ev \notin MsgsOf(k) => /\ Lacks(master, k) => Lacks(master', k)
                              /\ TableNow(k) => TableNow(k)'
  <2> SUFFICES ASSUME ev \notin MsgsOf(k)
               PROVE  /\ Lacks(master, k) => Lacks(master', k)
                      /\ TableNow(k) => TableNow(k)'
    OBVIOUS
  <2>1. ev.data.key # k
    BY <1>2 DEF MsgsOf
  <2>2. /\ Lacks(master, k) => Lacks(master', k)
        /\ \A m : Holds(master, k, m) => Holds(master', k, m)
    BY <1>4, <2>1 DEF KeepsOthers
  <2> QED
    BY <2>2 DEF TableNow
<1>11. ev \in MsgsNow(k) => TableNow(k)'
  <2> SUFFICES ASSUME ev \in MsgsNow(k) PROVE TableNow(k)'
    OBVIOUS
  <2>1. ev.data.key = k
    BY DEF MsgsNow, MsgsOf
  <2>2. CASE k \in DOMAIN kernel
    <3>1. ev.op = "add" /\ ev.data.mac = kernel[k]
      BY <2>2 DEF MsgsNow
    <3> QED
      BY <1>4, <2>1, <2>2, <3>1 DEF TableNow
  <2>3. CASE k \notin DOMAIN kernel
    <3>1. ev.op = "del"
      BY <2>3 DEF MsgsNow
    <3> QED
      BY <1>4, <2>1, <2>3, <3>1 DEF TableNow
  <2> QED
    BY <2>2, <2>3
<1>12. Passed(k) => Passed(k)'
  <2>1. NoneIn(neighq, MsgsOf(k))' <=> NoneIn(neighq', MsgsOf(k))
    BY <1>6
  <2>2. EndsIn(neighq, MsgsOf(k), MsgsNow(k))' <=> EndsIn(neighq', MsgsOf(k), MsgsNow(k))
    BY <1>6
  <2>3. Lacks(master, k)' <=> Lacks(master', k)
    OBVIOUS
  <2> QED
    BY <1>6, <1>7, <1>8, <1>9, <1>10, <1>11, <2>1, <2>2, <2>3 DEF Passed
<1> QED
  BY <1>6, <1>12 DEF Told

-----------------------------------------------------------------------------
(* The start, and the rib's table in the end.                              *)

\* Every neighbour of the site has its place in the dump.
LEMMA DumpHas ==
  ASSUME site \in Site, NEW k \in site.key
  PROVE  \E i \in DOMAIN Dump : Dump[i].fields = {} /\ Dump[i].key = k
<1> DEFINE keys == SetToSeq(site.key)
           P == DumpOf({"mac"}) \o DumpOf({"v4"}) \o DumpOf({"v6", "ll"})
<1>1. IsFiniteSet(site.key) /\ IsFiniteSet(site.tap)
  BY SiteFacts
<1>2. PICK i \in DOMAIN keys : keys[i] = k
  BY <1>1, SetToSeqFacts
<1>3. keys \in Seq(site.key)
  BY <1>1, SetToSeqFacts
<1>4. DumpNeigh = [n \in DOMAIN keys |-> [key |-> keys[n], fields |-> {}]]
  BY DEF DumpNeigh
<1> HIDE DEF keys
<1>5. DOMAIN keys = 1 .. Len(keys) /\ Len(keys) \in Nat
  BY <1>3
<1>6. /\ DumpNeigh \in Seq([key : site.key, fields : {{}}]) /\ Len(DumpNeigh) = Len(keys)
      /\ DumpNeigh[i].fields = {} /\ DumpNeigh[i].key = k
  BY <1>2, <1>3, <1>4, <1>5
<1>7. P \in Seq([tap : site.tap, fields : SUBSET Field])
  <2> DEFINE taps == SetToSeq(site.tap)
             T == [tap : site.tap, fields : SUBSET Field]
  <2>1. taps \in Seq(site.tap)
    BY <1>1, SetToSeqFacts
  <2>2. ASSUME NEW fs \in SUBSET Field PROVE DumpOf(fs) \in Seq(T)
    <3>1. DumpOf(fs) = [n \in DOMAIN taps |-> [tap |-> taps[n], fields |-> fs]]
      BY DEF DumpOf
    <3> HIDE DEF taps
    <3>2. \A n \in DOMAIN taps : [tap |-> taps[n], fields |-> fs] \in T
      BY <2>1
    <3>3. DOMAIN taps = 1 .. Len(taps) /\ Len(taps) \in Nat
      BY <2>1
    <3> QED
      BY <3>1, <3>2, <3>3
  <2>3. {"mac"} \subseteq Field /\ {"v4"} \subseteq Field /\ {"v6", "ll"} \subseteq Field
    BY DEF Field, Kind
  <2>4. DumpOf({"mac"}) \in Seq(T) /\ DumpOf({"v4"}) \in Seq(T) /\ DumpOf({"v6", "ll"}) \in Seq(T)
    BY <2>2, <2>3
  <2> HIDE DEF T
  <2>5. P \in Seq(T)
    BY <2>4
  <2> QED
    BY <2>5 DEF T
<1>8. Dump = P \o DumpNeigh
  BY DEF Dump
<1> HIDE DEF P
<1>9. PICK N : N = DumpNeigh
  OBVIOUS
<1>10. PICK D : D = Dump
  OBVIOUS
<1>11. PICK S : P \in Seq(S) /\ N \in Seq(S)
  <2> DEFINE T == [tap : site.tap, fields : SUBSET Field]
             K == [key : site.key, fields : {{}}]
  <2>1. P \in Seq(T) /\ N \in Seq(K)
    BY <1>6, <1>7, <1>9
  <2> HIDE DEF T, K
  <2>2. P \in Seq(T \cup K) /\ N \in Seq(T \cup K)
    BY <2>1
  <2> QED
    BY <2>2
<1>12. /\ i \in 1 .. Len(N) /\ Len(P) \in Nat /\ D = P \o N
  BY <1>2, <1>5, <1>6, <1>7, <1>8, <1>9, <1>10
<1>13. Len(P) + i \in DOMAIN D /\ D[Len(P) + i] = N[i]
  BY <1>11, <1>12
<1> QED
  BY <1>6, <1>9, <1>10, <1>13

LEMMA InitTold == Init => AllTold
<1> SUFFICES ASSUME Init, NEW k \in Key PROVE Told(k)
  BY DEF AllTold
<1>1. /\ site \in Site /\ kernel = site.kernel /\ events = <<>> /\ neighq = <<>>
      /\ master = EmptyTable /\ (site.wait => pos = 0)
  BY DEF Init, NeighInit
<1>2. NoneIn(events, EventsOf(k)) /\ NoneIn(neighq, MsgsOf(k))
  BY <1>1, EmptySays
<1>3. Lacks(master, k)
  <2>1. master.num = 0
    BY <1>1 DEF EmptyTable
  <2> QED
    BY <2>1 DEF Lacks
<1>4. CASE k \notin DOMAIN kernel
  BY <1>2, <1>3, <1>4 DEF Told, Passed, TableNow
<1>5. CASE k \in DOMAIN kernel
  <2>1. k \in site.key /\ pos = 0
    BY <1>1, <1>5, SiteFacts
  <2>2. PICK i \in DOMAIN Dump : Dump[i].fields = {} /\ Dump[i].key = k
    BY <1>1, <2>1, DumpHas
  <2>3. 0 <= i
    <3>1. Dump \in Seq(DItem)
      BY <1>1, DumpFacts
    <3> HIDE DEF Dump
    <3> QED
      BY <3>1
  <2>4. Ahead(k)
    BY <2>1, <2>2, <2>3 DEF Ahead
  <2> QED
    BY <1>2, <1>3, <2>4 DEF Told, Passed
<1> QED
  BY <1>4, <1>5

RoomNow ==
  /\ NetlinkThread => Len(neighq) < NeighRing
  /\ NeighManager /\ Head(neighq).op = "add" => master.num < MaxEntry

LEMMA NextTold ==
  ASSUME NetlinkInv, AllTold, [Next]_vars, [RoomNow]_vars
  PROVE  AllTold'
<1> SUFFICES ASSUME NEW k \in Key PROVE Told(k)'
  BY DEF AllTold
<1>0. Told(k) /\ neighq \in Seq(Event)
  BY DEF AllTold, NetlinkInv, TablesTyped
<1>1. ASSUME UNCHANGED <<site, kernel, events, pos, neighq, master>> PROVE Told(k)'
  <2>1. Ahead(k) => Ahead(k)'
    BY <1>1 DEF Ahead, Dump, DumpOf, DumpNeigh
  <2> QED
    BY <1>0, <1>1, <2>1, ToldUnmoved
<1>2. CASE UNCHANGED vars
  BY <1>1, <1>2 DEF vars, kernelVars, neighVars
<1>3. CASE RoomNow /\ Next
  <2>1. CASE Kernel
    BY <1>0, <2>1, ToldByKernel
  <2>2. CASE NetlinkThread
    BY <1>0, <1>3, <2>2, ToldByThread DEF RoomNow
  <2>3. CASE Command
    BY <1>0, <2>3, ToldByCommand
  <2>4. CASE IfMessage
    BY <1>0, <2>4, ToldByIfMessage
  <2>5. CASE NeighStep
    <3>1. UNCHANGED <<site, kernel, events, pos>>
      BY <2>5 DEF NeighStep, kernelVars
    <3>2. CASE NeighManager
      BY <1>0, <1>3, <3>1, <3>2, ToldByManager DEF RoomNow
    <3>3. CASE NeighMessage
      BY <1>1, <3>1, <3>3 DEF NeighMessage
    <3> QED
      BY <2>5, <3>2, <3>3 DEF NeighStep
  <2> QED
    BY <1>3, <2>1, <2>2, <2>3, <2>4, <2>5 DEF Next
<1> QED
  BY <1>2, <1>3

LEMMA ResolveFacts ==
  ASSUME rib \in NeighTable, Sorted(rib), NEW k \in Nat
  PROVE  /\ Lacks(rib, k) => Resolve(k) = None
         /\ \A m : Holds(rib, k, m) => Resolve(k) = m
<1> DEFINE at == Lookup(rib, k)
<1>0. rib.num \in Nat /\ \A i \in 0 .. rib.num - 1 : rib.entries[i].key \in Nat
  BY TableFacts
<1>1. /\ at.pos \in 0 .. rib.num
      /\ at.found \in BOOLEAN
      /\ at.found => at.pos < rib.num /\ rib.entries[at.pos].key = k
      /\ ~at.found => \A i \in 0 .. rib.num - 1 :
           /\ i < at.pos => rib.entries[i].key < k
           /\ at.pos <= i => k < rib.entries[i].key
  BY LookupFacts
<1>2. Resolve(k) = IF at.found THEN rib.entries[at.pos].mac ELSE None
  BY DEF Resolve
<1> HIDE DEF at
<1>3. at.found => at.pos \in 0 .. rib.num - 1
  BY <1>0, <1>1
<1>4. ASSUME Lacks(rib, k) PROVE Resolve(k) = None
  BY <1>1, <1>2, <1>3, <1>4 DEF Lacks
<1>5. ASSUME NEW m, Holds(rib, k, m) PROVE Resolve(k) = m
  <2>1. PICK i \in 0 .. rib.num - 1 : rib.entries[i].key = k /\ rib.entries[i].mac = m
    BY <1>5 DEF Holds
  <2>2. at.found
    <3> SUFFICES ASSUME ~at.found PROVE FALSE
      BY <1>1
    <3>1. i < at.pos \/ at.pos <= i
      BY <1>1
    <3>2. k < k
      BY <1>1, <2>1, <3>1
    <3> QED
      BY <3>2
  <2>3. at.pos \in 0 .. rib.num - 1 /\ rib.entries[at.pos].key = k
    BY <1>1, <1>3, <2>2
  <2>4. i = at.pos
    <3>1. i < at.pos \/ at.pos < i \/ i = at.pos
      BY <1>1
    <3>2. ~(i < at.pos) /\ ~(at.pos < i)
      <4>1. i < at.pos => k < k
        BY <2>1, <2>3 DEF Sorted
      <4>2. at.pos < i => k < k
        BY <2>1, <2>3 DEF Sorted
      <4> QED
        BY <4>1, <4>2
    <3> QED
      BY <3>1, <3>2
  <2> QED
    BY <1>2, <2>1, <2>2, <2>4
<1> QED
  BY <1>4, <1>5

LEMMA SettledResolved ==
  ASSUME NetlinkInv, Replica, AllTold, Settled, NEW k \in Key
  PROVE  /\ k \notin DOMAIN kernel => Resolve(k) = None
         /\ k \in DOMAIN kernel /\ kernel[k] # None => Resolve(k) = kernel[k]
<1>0. /\ rib \in NeighTable /\ master \in NeighTable /\ Sorted(master) /\ k \in Nat
      /\ Told(k)
  BY KeyAssumption DEF NetlinkInv, TablesTyped, AllTold
<1>1. events = <<>> /\ neighq = <<>> /\ ribq = <<>> /\ pos = Len(Dump) + 1
  BY DEF Settled, InLoop
<1>2. Same(rib, master)
  <2>1. PICK tr : Trace(tr, rib, ribq) /\ Same(tr[Len(ribq)], master)
    BY DEF Replica
  <2>2. Len(ribq) = 0
    BY <1>1
  <2> QED
    BY <2>1, <2>2 DEF Trace
<1>3. Sorted(rib)
  BY <1>0, <1>2 DEF Same, Sorted
<1>4. /\ Lacks(master, k) => Lacks(rib, k)
      /\ \A m : Holds(master, k, m) => Holds(rib, k, m)
  BY <1>2 DEF Same, Lacks, Holds
<1>5. ~Ahead(k)
  <2>1. Dump \in Seq(DItem)
    BY DumpFacts DEF NetlinkInv, KernelTyped
  <2> HIDE DEF Dump
  <2>2. \A i \in DOMAIN Dump : ~(pos <= i)
    BY <1>1, <2>1
  <2> QED
    BY <2>2 DEF Ahead
<1>6. Unresolved(k) \/ TableNow(k)
  <2>1. ~EndsIn(events, EventsOf(k), EventsNow(k)) /\ ~EndsIn(neighq, MsgsOf(k), MsgsNow(k))
    BY <1>1, EmptySays
  <2> QED
    BY <1>0, <1>5, <2>1 DEF Told, Passed
<1>7. /\ Lacks(rib, k) => Resolve(k) = None
      /\ \A m : Holds(rib, k, m) => Resolve(k) = m
  BY <1>0, <1>3, ResolveFacts
<1> QED
  BY <1>4, <1>6, <1>7 DEF Unresolved, TableNow

\* While the two rings and the master table have room, the workers resolve
\* exactly the kernel's neighbours whenever nothing is under way: those of
\* before the start, those that changed while the tables were dumped, and
\* however often they changed since; no event is overtaken by the dump.
THEOREM KernelIsResolved == Spec /\ DeltasSent /\ NeighRoom => []KernelResolved
<1>1. Init => AllTold /\ Replica
  BY InitTold, InitReplica
<1>2. /\ NetlinkInv /\ Replica /\ [Next]_vars
      /\ [NeighManager => Len(ribq) < RibRing]_neighVars
      => Replica'
  BY NextReplica
<1>3. NetlinkInv /\ AllTold /\ [Next]_vars /\ [RoomNow]_vars => AllTold'
  BY NextTold
<1>4. NeighRoom <=> [][RoomNow]_vars
  BY DEF NeighRoom, RoomNow
<1>5. NetlinkInv /\ TypeOK /\ Replica /\ AllTold => KernelResolved
  BY SettledResolved DEF KernelResolved
<1> QED
  BY <1>1, <1>2, <1>3, <1>4, <1>5, InvHolds, TypesHold, PTL DEF Spec, DeltasSent

-----------------------------------------------------------------------------
(* The addresses of a router interface.                                    *)

\* What a message does to an address v of kind f, for the interface that A
\* (new addresses) and D (lost ones) are about.
Change(m, v, A, D, f) ==
  IF m \in A THEN m.val
  ELSE IF m \in D /\ (m.val = v <=> f # "mac") THEN Zero ELSE v

\* The messages of q lead from the address x to y.
Leads(q, x, y, A, D, f) ==
  \E w : /\ w[0] = x /\ w[Len(q)] = y
         /\ \A n \in 1 .. Len(q) : w[n] = Change(q[n], w[n - 1], A, D, f)

LEMMA LeadsEmpty ==
  \A x, y, A, D, f : Leads(<<>>, x, y, A, D, f) <=> x = y
<1> SUFFICES ASSUME NEW x, NEW y, NEW A, NEW D, NEW f
             PROVE  Leads(<<>>, x, y, A, D, f) <=> x = y
  OBVIOUS
<1>1. Len(<<>>) = 0 /\ \A n : n \notin 1 .. 0
  OBVIOUS
<1>2. Leads(<<>>, x, y, A, D, f) => x = y
  BY <1>1 DEF Leads
<1>3. ASSUME x = y PROVE Leads(<<>>, x, y, A, D, f)
  <2> DEFINE w == [n \in 0 .. 0 |-> x]
  <2>1. w[0] = x
    OBVIOUS
  <2> HIDE DEF w
  <2> QED
    BY <1>1, <1>3, <2>1 DEF Leads
<1> QED
  BY <1>2, <1>3

LEMMA LeadsConcat ==
  ASSUME NEW S, NEW q \in Seq(S), NEW s \in Seq(S), NEW x, NEW y, NEW z, NEW A, NEW D, NEW f,
         Leads(q, x, y, A, D, f), Leads(s, y, z, A, D, f)
  PROVE  Leads(q \o s, x, z, A, D, f)
<1>1. /\ Len(q) \in Nat /\ Len(s) \in Nat /\ Len(q \o s) = Len(q) + Len(s)
      /\ \A n \in 1 .. Len(q) : (q \o s)[n] = q[n]
      /\ \A n \in 1 .. Len(s) : (q \o s)[Len(q) + n] = s[n]
  OBVIOUS
<1>2. PICK u : /\ u[0] = x /\ u[Len(q)] = y
               /\ \A n \in 1 .. Len(q) : u[n] = Change(q[n], u[n - 1], A, D, f)
  BY DEF Leads
<1>3. PICK v : /\ v[0] = y /\ v[Len(s)] = z
               /\ \A n \in 1 .. Len(s) : v[n] = Change(s[n], v[n - 1], A, D, f)
  BY DEF Leads
<1>4. PICK a \in Nat : a = Len(q)
  BY <1>1
<1>5. PICK b \in Nat : b = Len(s)
  BY <1>1
<1> DEFINE w == [n \in 0 .. a + b |-> IF n <= a THEN u[n] ELSE v[n - a]]
<1>6. \A n \in 0 .. a + b : w[n] = IF n <= a THEN u[n] ELSE v[n - a]
  OBVIOUS
<1> HIDE DEF w
<1>7. w[0] = x
  BY <1>2, <1>6
<1>8. w[a + b] = z
  <2>1. CASE b = 0
    BY <1>2, <1>3, <1>4, <1>5, <1>6, <2>1
  <2>2. CASE b # 0
    <3>1. a + b \in 0 .. a + b /\ ~(a + b <= a) /\ (a + b) - a = b
      BY <2>2
    <3> QED
      BY <1>3, <1>5, <1>6, <3>1
  <2> QED
    BY <2>1, <2>2
<1>9. ASSUME NEW n \in 1 .. a + b
      PROVE  w[n] = Change((q \o s)[n], w[n - 1], A, D, f)
  <2>1. CASE n <= a
    <3>1. n \in 1 .. a /\ n \in 0 .. a + b /\ n - 1 \in 0 .. a + b /\ n - 1 <= a
      BY <2>1
    <3>2. w[n] = u[n] /\ w[n - 1] = u[n - 1]
      BY <1>6, <2>1, <3>1
    <3> QED
      BY <1>1, <1>2, <1>4, <3>1, <3>2
  <2>2. CASE a < n
    <3>1. PICK k \in 1 .. b : n = a + k
      <4>1. n - a \in 1 .. b /\ n = a + (n - a)
        BY <2>2
      <4> QED
        BY <4>1
    <3>2. n \in 0 .. a + b /\ ~(n <= a) /\ n - a = k /\ n - 1 \in 0 .. a + b
      BY <3>1
    <3>3. w[n] = v[k]
      BY <1>6, <3>2
    <3>4. w[n - 1] = v[k - 1]
      <4>1. CASE k = 1
        <5>1. n - 1 = a /\ k - 1 = 0
          BY <3>1, <4>1
        <5> QED
          BY <1>2, <1>3, <1>4, <1>6, <3>2, <5>1
      <4>2. CASE k # 1
        <5>1. ~(n - 1 <= a) /\ (n - 1) - a = k - 1
          BY <3>1, <4>2
        <5> QED
          BY <1>6, <3>2, <5>1
      <4> QED
        BY <4>1, <4>2
    <3>5. (q \o s)[n] = s[k]
      BY <1>1, <1>4, <1>5, <3>1
    <3> QED
      BY <1>3, <1>5, <3>3, <3>4, <3>5
  <2>3. n <= a \/ a < n
    OBVIOUS
  <2> QED
    BY <2>1, <2>2, <2>3, Zenon
<1> QED
  BY <1>1, <1>4, <1>5, <1>7, <1>8, <1>9 DEF Leads

LEMMA LeadsOne ==
  ASSUME NEW m, NEW x, NEW A, NEW D, NEW f
  PROVE  Leads(<<m>>, x, Change(m, x, A, D, f), A, D, f)
<1> DEFINE y == Change(m, x, A, D, f)
           w == [n \in 0 .. 1 |-> IF n = 0 THEN x ELSE y]
<1>1. Len(<<m>>) = 1 /\ <<m>>[1] = m
  OBVIOUS
<1> HIDE DEF y
<1>2. w[0] = x /\ w[1] = y
  OBVIOUS
<1> HIDE DEF w
<1>3. \A n \in 1 .. 1 : w[n] = Change(<<m>>[n], w[n - 1], A, D, f)
  <2>1. \A n \in 1 .. 1 : n = 1 /\ n - 1 = 0
    OBVIOUS
  <2> QED
    BY <1>1, <1>2, <2>1 DEF y
<1> QED
  BY <1>1, <1>2, <1>3 DEF Leads, y

LEMMA LeadsAppend ==
  ASSUME NEW S, NEW q \in Seq(S), NEW m \in S, NEW x, NEW y, NEW A, NEW D, NEW f,
         Leads(q, x, y, A, D, f)
  PROVE  Leads(q \o <<m>>, x, Change(m, y, A, D, f), A, D, f)
<1>1. <<m>> \in Seq(S)
  OBVIOUS
<1> QED
  BY <1>1, LeadsOne, LeadsConcat

LEMMA LeadsTail ==
  ASSUME NEW S, NEW q \in Seq(S), q # <<>>, NEW x, NEW y, NEW A, NEW D, NEW f,
         Leads(q, x, y, A, D, f)
  PROVE  Leads(Tail(q), Change(Head(q), x, A, D, f), y, A, D, f)
<1>1. /\ Len(q) \in Nat /\ Len(q) >= 1 /\ Len(Tail(q)) = Len(q) - 1
      /\ Head(q) = q[1]
      /\ \A i \in 1 .. Len(q) - 1 : Tail(q)[i] = q[i + 1]
  BY TailElements
<1>2. PICK u : /\ u[0] = x /\ u[Len(q)] = y
               /\ \A n \in 1 .. Len(q) : u[n] = Change(q[n], u[n - 1], A, D, f)
  BY DEF Leads
<1>3. PICK a \in Nat : a = Len(q) - 1
  <2>1. Len(q) - 1 \in Nat
    BY <1>1
  <2> QED
    BY <2>1
<1> DEFINE w == [n \in 0 .. a |-> u[n + 1]]
<1>4. \A n \in 0 .. a : w[n] = u[n + 1]
  OBVIOUS
<1> HIDE DEF w
<1>5. w[0] = Change(Head(q), x, A, D, f)
  <2>1. 1 \in 1 .. Len(q) /\ 1 - 1 = 0 /\ 0 \in 0 .. a /\ 0 + 1 = 1
    BY <1>1, <1>3
  <2> QED
    BY <1>1, <1>2, <1>4, <2>1
<1>6. w[a] = y
  <2>1. a \in 0 .. a /\ a + 1 = Len(q)
    BY <1>1, <1>3
  <2> QED
    BY <1>2, <1>4, <2>1
<1>7. ASSUME NEW n \in 1 .. a PROVE w[n] = Change(Tail(q)[n], w[n - 1], A, D, f)
  <2>1. /\ n \in 0 .. a /\ n - 1 \in 0 .. a /\ (n - 1) + 1 = n /\ n + 1 \in 1 .. Len(q)
        /\ (n + 1) - 1 = n
    BY <1>1, <1>3
  <2>2. w[n] = u[n + 1] /\ w[n - 1] = u[n]
    BY <1>4, <2>1
  <2>3. u[n + 1] = Change(q[n + 1], u[n], A, D, f)
    BY <1>2, <2>1
  <2> QED
    BY <1>1, <1>3, <2>2, <2>3
<1> QED
  BY <1>1, <1>3, <1>5, <1>6, <1>7 DEF Leads

LEMMA LeadsNone ==
  ASSUME NEW s, NEW x, NEW A, NEW D, NEW f, Len(s) \in Nat, NoneIn(s, A \cup D)
  PROVE  Leads(s, x, x, A, D, f)
<1> DEFINE w == [n \in 0 .. Len(s) |-> x]
<1>1. \A n \in 0 .. Len(s) : w[n] = x
  OBVIOUS
<1> HIDE DEF w
<1>2. ASSUME NEW n \in 1 .. Len(s) PROVE w[n] = Change(s[n], w[n - 1], A, D, f)
  <2>1. n \in 0 .. Len(s) /\ n - 1 \in 0 .. Len(s)
    OBVIOUS
  <2>2. s[n] \notin A /\ s[n] \notin D
    BY DEF NoneIn
  <2> QED
    BY <1>1, <2>1, <2>2 DEF Change
<1>3. 0 \in 0 .. Len(s) /\ Len(s) \in 0 .. Len(s)
  OBVIOUS
<1> QED
  BY <1>1, <1>2, <1>3 DEF Leads

\* One message of s sets the address, and no other is about it.
LEMMA LeadsSet ==
  ASSUME NEW s, NEW x, NEW A, NEW D, NEW f, Len(s) \in Nat,
         NEW i \in 1 .. Len(s), s[i] \in A,
         \A n \in 1 .. Len(s) : n # i => s[n] \notin A \cup D
  PROVE  Leads(s, x, s[i].val, A, D, f)
<1> DEFINE c == s[i].val
           w == [n \in 0 .. Len(s) |-> IF n < i THEN x ELSE c]
<1> HIDE DEF c
<1>1. \A n \in 0 .. Len(s) : w[n] = IF n < i THEN x ELSE c
  OBVIOUS
<1> HIDE DEF w
<1>2. ASSUME NEW n \in 1 .. Len(s) PROVE w[n] = Change(s[n], w[n - 1], A, D, f)
  <2>1. n \in 0 .. Len(s) /\ n - 1 \in 0 .. Len(s)
    OBVIOUS
  <2>2. CASE n = i
    <3>1. w[n] = c /\ s[n] \in A /\ s[n].val = c
      BY <1>1, <2>1, <2>2 DEF c
    <3> QED
      BY <3>1 DEF Change
  <2>3. CASE n # i
    <3>1. w[n] = w[n - 1]
      BY <1>1, <2>1, <2>3
    <3>2. s[n] \notin A /\ s[n] \notin D
      BY <2>3
    <3> QED
      BY <3>1, <3>2 DEF Change
  <2> QED
    BY <2>2, <2>3
<1>3. 0 \in 0 .. Len(s) /\ Len(s) \in 0 .. Len(s) /\ 0 < i /\ ~(Len(s) < i)
  OBVIOUS
<1>4. w[0] = x /\ w[Len(s)] = c
  BY <1>1, <1>3
<1> QED
  BY <1>2, <1>4 DEF Leads, c

LEMMA LeadsTotal ==
  ASSUME NEW q, NEW x, NEW A, NEW D, NEW f, Len(q) \in Nat
  PROVE  \E y : Leads(q, x, y, A, D, f)
<1> DEFINE V == {x, Zero} \cup {m.val : m \in A}
           step == [p \in Nat \X V |-> Change(q[p[1]], p[2], A, D, f)]
<1>1. \A m : \A v \in V : Change(m, v, A, D, f) \in V
  BY DEF Change
<1>2. x \in V
  OBVIOUS
<1> HIDE DEF V
<1>3. step \in [Nat \X V -> V]
  BY <1>1
<1>4. \A n \in Nat : \A v \in V : step[<<n, v>>] = Change(q[n], v, A, D, f)
  OBVIOUS
<1> HIDE DEF step
<1>5. PICK w : IsRun(w, x, step, V, Len(q))
  BY <1>2, <1>3, RunExists
<1>6. w \in [0 .. Len(q) -> V] /\ w[0] = x
  BY <1>5 DEF IsRun
<1>7. ASSUME NEW n \in 1 .. Len(q) PROVE w[n] = Change(q[n], w[n - 1], A, D, f)
  <2>1. n - 1 \in 0 .. Len(q) /\ n \in Nat
    OBVIOUS
  <2>2. w[n] = step[<<n, w[n - 1]>>] /\ w[n - 1] \in V
    BY <1>5, <1>6, <2>1 DEF IsRun
  <2> QED
    BY <1>4, <2>1, <2>2
<1>8. Leads(q, x, w[Len(q)], A, D, f)
  BY <1>6, <1>7 DEF Leads
<1> QED
  BY <1>8

\* The messages and the events about an address of the interface, by the name
\* and by the index of its device.
Adds(t, f) == {m \in AddrMsg : m.op = "addr_add" /\ m.name = t /\ m.field = f}
Dels(t, f) == {m \in AddrMsg : m.op = "addr_del" /\ m.name = t /\ m.field = f}
News(i, f) == {e \in IfEvent : e.op = "new" /\ e.idx = i /\ e.field = f}
Losses(i, f) == {e \in IfEvent : e.op = "del" /\ e.idx = i /\ e.field = f}

Queued(q, x, y, t, f) == Leads(q, x, y, Adds(t, f), Dels(t, f), f)
Announced(q, x, y, i, f) == Leads(q, x, y, News(i, f), Losses(i, f), f)

\* The events lead to c for an interface that has c, and for one that has
\* nothing to c or nothing.
Consistent(q, c, i, f) ==
  Announced(q, c, c, i, f) /\ \E z \in {c, Zero} : Announced(q, Zero, z, i, f)

\* The event e says that c becomes d.
Moved(e, c, d, i, f) ==
  \/ e \notin News(i, f) \cup Losses(i, f) /\ d = c
  \/ e \in News(i, f) /\ e.val = d
  \/ e \in Losses(i, f) /\ f # "mac" /\ e.val = c /\ d = Zero
  \/ e \in Losses(i, f) /\ f = "mac" /\ e.val = c /\ d = c

LEMMA AnnouncedMoves ==
  ASSUME NEW S, NEW q \in Seq(S), NEW e \in S, NEW y, NEW c, NEW d, NEW i, NEW f,
         Moved(e, c, d, i, f), Announced(q, y, c, i, f)
  PROVE  Announced(q \o <<e>>, y, d, i, f)
<1>1. Change(e, c, News(i, f), Losses(i, f), f) = d
  <2>1. e \in Losses(i, f) => e \notin News(i, f)
    BY DEF Losses, News
  <2> QED
    BY <2>1 DEF Moved, Change
<1> QED
  BY <1>1, LeadsAppend DEF Announced

LEMMA ConsistentMoves ==
  ASSUME NEW S, NEW q \in Seq(S), NEW e \in S, NEW c, NEW d, NEW i, NEW f,
         Moved(e, c, d, i, f), Consistent(q, c, i, f)
  PROVE  Consistent(q \o <<e>>, d, i, f)
<1> DEFINE A == News(i, f)
           D == Losses(i, f)
<1>1. e \in D => e \notin A
  BY DEF Losses, News
<1>2. PICK z \in {c, Zero} : Announced(q, Zero, z, i, f)
  BY DEF Consistent
<1>3. Announced(q, c, c, i, f)
  BY DEF Consistent
<1>4. \A x, y : Announced(q, x, y, i, f) => Announced(q \o <<e>>, x, Change(e, y, A, D, f), i, f)
  BY LeadsAppend DEF Announced
<1>5. CASE e \in A /\ e.val = d
  <2>1. Len(q) \in Nat
    OBVIOUS
  <2>2. PICK y : Announced(q, d, y, i, f)
    BY <2>1, LeadsTotal DEF Announced
  <2>3. \A v : Change(e, v, A, D, f) = d
    BY <1>5 DEF Change
  <2>4. Announced(q \o <<e>>, d, d, i, f) /\ Announced(q \o <<e>>, Zero, d, i, f)
    BY <1>2, <1>4, <2>2, <2>3
  <2> QED
    BY <2>4 DEF Consistent
<1>6. CASE e \notin A \cup D /\ d = c
  <2>1. \A v : Change(e, v, A, D, f) = v
    BY <1>6 DEF Change
  <2>2. Announced(q \o <<e>>, c, c, i, f) /\ Announced(q \o <<e>>, Zero, z, i, f)
    BY <1>2, <1>3, <1>4, <2>1
  <2> QED
    BY <1>6, <2>2 DEF Consistent
<1>7. CASE e \in D /\ f # "mac" /\ e.val = c /\ d = Zero
  <2>1. Change(e, z, A, D, f) = Zero
    BY <1>1, <1>7 DEF Change
  <2>2. Announced(q \o <<e>>, Zero, Zero, i, f)
    BY <1>2, <1>4, <2>1
  <2> QED
    BY <1>7, <2>2 DEF Consistent
<1>8. CASE e \in D /\ f = "mac" /\ e.val = c /\ d = c
  <2>1. Change(e, c, A, D, f) = c /\ Change(e, z, A, D, f) \in {c, Zero}
    BY <1>1, <1>8 DEF Change
  <2>2. /\ Announced(q \o <<e>>, c, c, i, f)
        /\ Announced(q \o <<e>>, Zero, Change(e, z, A, D, f), i, f)
    BY <1>2, <1>3, <1>4, <2>1
  <2> QED
    BY <1>8, <2>1, <2>2 DEF Consistent
<1> QED
  BY <1>5, <1>6, <1>7, <1>8 DEF Moved

\* Events about other addresses.
LEMMA AnnouncedOthers ==
  ASSUME NEW S, NEW q \in Seq(S), NEW s \in Seq(S), NEW i, NEW f,
         NoneIn(s, News(i, f) \cup Losses(i, f))
  PROVE  /\ \A x, y : Announced(q, x, y, i, f) => Announced(q \o s, x, y, i, f)
         /\ \A c : Consistent(q, c, i, f) => Consistent(q \o s, c, i, f)
<1>1. Len(s) \in Nat
  OBVIOUS
<1>2. \A y : Announced(s, y, y, i, f)
  BY <1>1, LeadsNone DEF Announced
<1>3. \A x, y : Announced(q, x, y, i, f) => Announced(q \o s, x, y, i, f)
  BY <1>2, LeadsConcat DEF Announced
<1> QED
  BY <1>3 DEF Consistent

-----------------------------------------------------------------------------
(* The devices and the events about them.                                  *)

\* The kernel's indices are unique, and the events name those given out.
DevicesOK ==
  /\ DOMAIN dev \subseteq site.tap
  /\ \A t \in DOMAIN dev : dev[t].idx <= lastIdx
  /\ \A t, u \in DOMAIN dev : dev[t].idx = dev[u].idx => t = u
  /\ \A n \in 1 .. Len(events) : events[n] \in IfEvent => events[n].idx <= lastIdx

\* Something happens to the device u.
DeviceStep(u) ==
  /\ DOMAIN dev' \subseteq DOMAIN dev
  /\ \A t \in DOMAIN dev' : /\ dev'[t].idx = dev[t].idx
                            /\ t # u => dev'[t].addr = dev[t].addr
  /\ \/ /\ u \notin DOMAIN dev'
        /\ \E s \in Seq(IfEvent) : /\ events' = events \o s
                                   /\ \A i \in 1 .. Len(s) : s[i].idx = dev[u].idx
     \/ /\ u \in DOMAIN dev'
        /\ \E e \in IfEvent :
             /\ events' = events \o <<e>> /\ e.idx = dev[u].idx
             /\ \A f \in Field : Moved(e, dev[u].addr[f], dev'[u].addr[f], dev[u].idx, f)

LEMMA KernelDevices ==
  ASSUME KernelTyped, Kernel
  PROVE  /\ lastIdx' = lastIdx /\ gone \subseteq gone' /\ DOMAIN dev \subseteq DOMAIN dev' \cup gone'
         /\ \/ dev' = dev /\ \E e \in NeighEvent : events' = events \o <<e>>
            \/ \E u \in DOMAIN dev : DeviceStep(u)
<1> DEFINE Set(u, g, a) ==
             /\ DOMAIN dev' = DOMAIN dev
             /\ \A t \in DOMAIN dev : /\ dev'[t].idx = dev[t].idx
                                      /\ t # u => dev'[t].addr = dev[t].addr
             /\ \A f \in Field : dev'[u].addr[f] = IF f = g THEN a ELSE dev[u].addr[f]
<1>1. /\ site.key \subseteq Key /\ site.addr \subseteq Addr
      /\ site.lladdr \in [site.key -> SUBSET (Mac \cup {None})]
      /\ site.field \subseteq Field
  BY SiteFacts DEF KernelTyped
<1>2. "mac" \in Field
  BY DEF Field
<1>3. ASSUME NEW k \in site.key, KernelNeighGone(k)
      PROVE  UNCHANGED <<dev, lastIdx, gone>> /\ \E e \in NeighEvent : events' = events \o <<e>>
  <2>1. [of |-> "neigh", op |-> "del", key |-> k, mac |-> None] \in NeighEvent
    BY <1>1 DEF NeighEvent
  <2> QED
    BY <1>3, <2>1 DEF KernelNeighGone, Notify
<1>4. ASSUME NEW k \in site.key, NEW m \in site.lladdr[k], KernelNeigh(k, m)
      PROVE  UNCHANGED <<dev, lastIdx, gone>> /\ \E e \in NeighEvent : events' = events \o <<e>>
  <2>1. [of |-> "neigh", op |-> "new", key |-> k, mac |-> m] \in NeighEvent
    BY <1>1 DEF NeighEvent
  <2> QED
    BY <1>4, <2>1 DEF KernelNeigh, Notify
<1>5. ASSUME NEW u \in site.tap, KernelUnbridge(u)
      PROVE  UNCHANGED <<dev, lastIdx, gone>> /\ u \in DOMAIN dev /\ DeviceStep(u)
  <2>1. u \in DOMAIN dev /\ UNCHANGED <<dev, lastIdx, gone>>
    BY <1>5 DEF KernelUnbridge, kernelVars
  <2>2. PICK e : e = IfEv("del", u, "mac")
    OBVIOUS
  <2>3. e \in IfEvent
    BY <1>2, <2>1, <2>2, DeviceFacts, IfEvFacts
  <2>4. e.idx = dev[u].idx /\ e.op = "del" /\ e.field = "mac" /\ e.val = dev[u].addr["mac"]
    BY <2>2 DEF IfEv
  <2>5. \A f \in Field : Moved(e, dev[u].addr[f], dev'[u].addr[f], dev[u].idx, f)
    BY <2>1, <2>3, <2>4 DEF Moved, News, Losses
  <2>6. events' = events \o <<e>>
    BY <1>5, <2>2 DEF KernelUnbridge, Notify
  <2> QED
    BY <2>1, <2>3, <2>4, <2>5, <2>6 DEF DeviceStep
<1>6. ASSUME NEW u \in site.tap, KernelLinkGone(u)
      PROVE  /\ lastIdx' = lastIdx /\ gone' = gone \cup {u} /\ DOMAIN dev' = DOMAIN dev \ {u}
             /\ u \in DOMAIN dev /\ DeviceStep(u)
  <2>1. /\ u \in DOMAIN dev /\ lastIdx' = lastIdx /\ gone' = gone \cup {u}
        /\ dev' = [t \in DOMAIN dev \ {u} |-> dev[t]]
    BY <1>6 DEF KernelLinkGone
  <2>2. DOMAIN dev' = DOMAIN dev \ {u} /\ \A t \in DOMAIN dev' : dev'[t] = dev[t]
    BY <2>1
  <2> QED
    BY <1>6, <2>1, <2>2, LinkGoneEvents DEF DeviceStep
<1>7. ASSUME NEW u \in DOMAIN dev, NEW g \in Field, NEW a \in Addr \cup {Zero},
             dev' = [dev EXCEPT ![u].addr[g] = a]
      PROVE  Set(u, g, a)
  <2>1. /\ dev[u].addr \in [Field -> Addr \cup {Zero}]
        /\ dev[u] = [idx |-> dev[u].idx, addr |-> dev[u].addr]
    BY DeviceFacts
  <2>2. DOMAIN dev' = DOMAIN dev /\ \A t \in DOMAIN dev : t # u => dev'[t] = dev[t]
    BY <1>7
  <2>3. dev'[u] = [idx |-> dev[u].idx, addr |-> [dev[u].addr EXCEPT ![g] = a]]
    BY <1>7, <2>1
  <2> QED
    BY <2>1, <2>2, <2>3
<1> HIDE DEF Set
<1>8. ASSUME NEW u \in site.tap, NEW g \in site.field, KernelAddrGone(u, g)
      PROVE  /\ UNCHANGED <<lastIdx, gone>> /\ DOMAIN dev' = DOMAIN dev
             /\ u \in DOMAIN dev /\ DeviceStep(u)
  <2>1. PICK e : e = IfEv("del", u, g)
    OBVIOUS
  <2>2. /\ u \in DOMAIN dev /\ g \in Field /\ g # "mac" /\ dev[u].addr[g] # Zero
        /\ dev' = [dev EXCEPT ![u].addr[g] = Zero]
        /\ events' = events \o <<e>> /\ UNCHANGED <<lastIdx, gone>>
    BY <1>1, <1>8, <2>1 DEF KernelAddrGone, Notify
  <2>3. e \in IfEvent
    BY <2>1, <2>2, IfEvFacts
  <2>4. e.idx = dev[u].idx /\ e.op = "del" /\ e.field = g /\ e.val = dev[u].addr[g]
    BY <2>1 DEF IfEv
  <2>5. /\ DOMAIN dev' = DOMAIN dev
        /\ \A t \in DOMAIN dev : /\ dev'[t].idx = dev[t].idx
                                 /\ t # u => dev'[t].addr = dev[t].addr
        /\ \A f \in Field : dev'[u].addr[f] = IF f = g THEN Zero ELSE dev[u].addr[f]
    <3>1. Set(u, g, Zero)
      BY <1>7, <2>2
    <3> QED
      BY <3>1, Zenon DEF Set
  <2>6. ASSUME NEW f \in Field PROVE Moved(e, dev[u].addr[f], dev'[u].addr[f], dev[u].idx, f)
    <3>1. CASE f = g
      <4>1. dev'[u].addr[f] = Zero /\ e \in Losses(dev[u].idx, f)
        BY <2>3, <2>4, <2>5, <3>1 DEF Losses
      <4> QED
        BY <2>2, <2>4, <3>1, <4>1 DEF Moved
    <3>2. CASE f # g
      <4>1. dev'[u].addr[f] = dev[u].addr[f] /\ e \notin News(dev[u].idx, f) \cup Losses(dev[u].idx, f)
        BY <2>4, <2>5, <3>2 DEF News, Losses
      <4> QED
        BY <4>1 DEF Moved
    <3> QED
      BY <3>1, <3>2
  <2> QED
    BY <2>2, <2>3, <2>4, <2>5, <2>6 DEF DeviceStep
<1>9. ASSUME NEW u \in site.tap, NEW g \in site.field, NEW a \in site.addr, KernelAddr(u, g, a)
      PROVE  /\ UNCHANGED <<lastIdx, gone>> /\ DOMAIN dev' = DOMAIN dev
             /\ u \in DOMAIN dev /\ DeviceStep(u)
  <2>1. PICK e : e = [IfEv("new", u, g) EXCEPT !.val = a]
    OBVIOUS
  <2>2. /\ u \in DOMAIN dev /\ g \in Field /\ a \in Addr
        /\ dev' = [dev EXCEPT ![u].addr[g] = a]
        /\ events' = events \o <<e>> /\ UNCHANGED <<lastIdx, gone>>
    BY <1>1, <1>9, <2>1 DEF KernelAddr, Notify
  <2>3. e \in IfEvent
    BY <2>1, <2>2, IfEvFacts
  <2>4. e.idx = dev[u].idx /\ e.op = "new" /\ e.field = g /\ e.val = a
    BY <2>1 DEF IfEv
  <2>5. /\ DOMAIN dev' = DOMAIN dev
        /\ \A t \in DOMAIN dev : /\ dev'[t].idx = dev[t].idx
                                 /\ t # u => dev'[t].addr = dev[t].addr
        /\ \A f \in Field : dev'[u].addr[f] = IF f = g THEN a ELSE dev[u].addr[f]
    <3>1. Set(u, g, a)
      BY <1>7, <2>2
    <3> QED
      BY <3>1, Zenon DEF Set
  <2>6. ASSUME NEW f \in Field PROVE Moved(e, dev[u].addr[f], dev'[u].addr[f], dev[u].idx, f)
    <3>1. CASE f = g
      <4>1. dev'[u].addr[f] = a /\ e \in News(dev[u].idx, f)
        BY <2>3, <2>4, <2>5, <3>1 DEF News
      <4> QED
        BY <2>2, <2>4, <3>1, <4>1 DEF Moved
    <3>2. CASE f # g
      <4>1. dev'[u].addr[f] = dev[u].addr[f] /\ e \notin News(dev[u].idx, f) \cup Losses(dev[u].idx, f)
        BY <2>4, <2>5, <3>2 DEF News, Losses
      <4> QED
        BY <4>1 DEF Moved
    <3> QED
      BY <3>1, <3>2
  <2> QED
    BY <2>2, <2>3, <2>4, <2>5, <2>6 DEF DeviceStep
<1>10. \/ \E k \in site.key :
            KernelNeighGone(k) \/ \E m \in site.lladdr[k] : KernelNeigh(k, m)
       \/ \E t \in site.tap :
            \/ KernelUnbridge(t) \/ KernelLinkGone(t)
            \/ \E f \in site.field : \/ KernelAddrGone(t, f)
                                     \/ \E a \in site.addr : KernelAddr(t, f, a)
  BY DEF Kernel
<1> QED
  BY <1>3, <1>4, <1>5, <1>6, <1>8, <1>9, <1>10

\* The events about t still lead to its address.
Grows(t, f) ==
  /\ \A y : Announced(events, y, dev[t].addr[f], dev[t].idx, f) =>
              Announced(events', y, dev'[t].addr[f], dev'[t].idx, f)
  /\ Consistent(events, dev[t].addr[f], dev[t].idx, f) =>
       Consistent(events', dev'[t].addr[f], dev'[t].idx, f)

LEMMA OtherIndex ==
  ASSUME NEW i, NEW f, NEW s, \A n \in 1 .. Len(s) : s[n].idx # i
  PROVE  NoneIn(s, News(i, f) \cup Losses(i, f))
BY DEF NoneIn, News, Losses

LEMMA KernelGrows ==
  ASSUME KernelTyped, DevicesOK, Kernel, NEW t \in DOMAIN dev', NEW f \in Field
  PROVE  t \in DOMAIN dev /\ Grows(t, f)
<1> DEFINE S == NeighEvent \cup IfEvent
<1>0. events \in Seq(S)
  BY DEF KernelTyped
<1>1. \A e \in NeighEvent : e \notin IfEvent
  BY DEF NeighEvent, IfEvent
<1>2. CASE dev' = dev /\ \E e \in NeighEvent : events' = events \o <<e>>
  <2>1. PICK e \in NeighEvent : events' = events \o <<e>>
    BY <1>2
  <2>2. e \notin News(dev[t].idx, f) \cup Losses(dev[t].idx, f)
    BY <1>1 DEF News, Losses
  <2>3. <<e>> \in Seq(S) /\ NoneIn(<<e>>, News(dev[t].idx, f) \cup Losses(dev[t].idx, f))
    BY <2>2, NoneInOne
  <2> QED
    BY <1>0, <1>2, <2>1, <2>3, AnnouncedOthers DEF Grows
<1>3. ASSUME NEW u \in DOMAIN dev, DeviceStep(u) PROVE t \in DOMAIN dev /\ Grows(t, f)
  <2>1. t \in DOMAIN dev /\ dev'[t].idx = dev[t].idx
    BY <1>3 DEF DeviceStep
  <2>2. CASE t = u
    <3>1. PICK e \in IfEvent :
            /\ events' = events \o <<e>>
            /\ Moved(e, dev[t].addr[f], dev'[t].addr[f], dev[t].idx, f)
      BY <1>3, <2>2 DEF DeviceStep
    <3>2. e \in S
      OBVIOUS
    <3> QED
      BY <1>0, <2>1, <3>1, <3>2, AnnouncedMoves, ConsistentMoves DEF Grows
  <2>3. CASE t # u
    <3>1. dev'[t].addr = dev[t].addr /\ dev[u].idx # dev[t].idx
      BY <1>3, <2>1, <2>3 DEF DeviceStep, DevicesOK
    <3>2. PICK s \in Seq(IfEvent) : /\ events' = events \o s
                                    /\ \A n \in 1 .. Len(s) : s[n].idx = dev[u].idx
      <4>1. ASSUME NEW e \in IfEvent, e.idx = dev[u].idx
            PROVE  <<e>> \in Seq(IfEvent) /\ \A n \in 1 .. Len(<<e>>) : <<e>>[n].idx = dev[u].idx
        BY <4>1
      <4> QED
        BY <1>3, <4>1 DEF DeviceStep
    <3>3. NoneIn(s, News(dev[t].idx, f) \cup Losses(dev[t].idx, f))
      BY <3>1, <3>2, OtherIndex
    <3>4. s \in Seq(S)
      OBVIOUS
    <3> QED
      BY <1>0, <2>1, <3>1, <3>2, <3>3, <3>4, AnnouncedOthers DEF Grows
  <2> QED
    BY <2>2, <2>3
<1> QED
  BY <1>2, <1>3, KernelDevices

\* tap_open creates the device u: its index is new, and its event is the
\* first one about it.
LEMMA OpenDevices ==
  ASSUME KernelTyped, DevicesOK, NEW u \in site.tap, u \notin DOMAIN dev,
         NEW a \in site.addr, TapOpen(u, a), site' = site
  PROVE  /\ DevicesOK' /\ gone' = gone /\ DOMAIN dev' = DOMAIN dev \cup {u}
         /\ \A t \in DOMAIN dev, f \in Field : dev'[t] = dev[t] /\ Grows(t, f)
         /\ \A f \in Field :
              /\ Announced(events', Zero, dev'[u].addr[f], dev'[u].idx, f)
              /\ Consistent(events', dev'[u].addr[f], dev'[u].idx, f)
<1> DEFINE S == NeighEvent \cup IfEvent
           ad == [f \in Field |-> IF f = "mac" THEN a ELSE Zero]
<1>1. PICK i : i = lastIdx + 1
  OBVIOUS
<1>2. PICK e : e = [of |-> "if", op |-> "new", idx |-> i, field |-> "mac", val |-> a]
  OBVIOUS
<1>3. /\ lastIdx \in Nat /\ events \in Seq(S) /\ site.addr \subseteq Addr /\ a \in Addr
      /\ lastIdx < MaxIdx /\ lastIdx' = i /\ gone' = gone
  BY <1>1, SiteFacts DEF KernelTyped, TapOpen
<1>4. /\ dev' = [t \in DOMAIN dev \cup {u} |-> IF t = u THEN [idx |-> i, addr |-> ad] ELSE dev[t]]
      /\ events' = events \o <<e>>
  <2> DEFINE d == [idx |-> lastIdx + 1, addr |-> ad]
             g == [of |-> "if", op |-> "new", idx |-> lastIdx + 1, field |-> "mac", val |-> a]
  <2>1. lastIdx' = lastIdx + 1
    BY DEF TapOpen
  <2>2. /\ dev' = [t \in DOMAIN dev \cup {u} |-> IF t = u THEN d ELSE dev[t]]
        /\ events' = events \o <<g>>
    BY <2>1 DEF TapOpen, Notify
  <2>3. d = [idx |-> i, addr |-> ad] /\ g = e
    BY <1>1, <1>2
  <2> QED
    BY <2>2, <2>3, Zenon
<1>5. i \in Nat /\ i \in 1 .. MaxIdx /\ lastIdx < i
  BY <1>1, <1>3, BoundAssumption
<1>6. "mac" \in Field
  BY DEF Field
<1>7. e \in IfEvent /\ e \in S
  BY <1>2, <1>3, <1>5, <1>6 DEF IfEvent
<1>8. /\ DOMAIN dev' = DOMAIN dev \cup {u} /\ \A t \in DOMAIN dev : dev'[t] = dev[t]
      /\ dev'[u].idx = i /\ \A f \in Field : dev'[u].addr[f] = IF f = "mac" THEN a ELSE Zero
  BY <1>4
<1> HIDE DEF ad
<1>9. \A t \in DOMAIN dev : dev[t].idx \in Nat /\ dev[t].idx # i
  BY <1>3, <1>5, DeviceFacts DEF DevicesOK
<1>10. ASSUME NEW n \in 1 .. Len(events), events[n] \in IfEvent PROVE events[n].idx # i
  <2>1. events[n].idx \in Nat /\ events[n].idx <= lastIdx
    BY <1>10 DEF DevicesOK, IfEvent
  <2> QED
    BY <1>3, <1>5, <2>1
<1>11. ASSUME NEW t \in DOMAIN dev, NEW f \in Field PROVE Grows(t, f)
  <2>1. e \notin News(dev[t].idx, f) \cup Losses(dev[t].idx, f)
    BY <1>2, <1>9 DEF News, Losses
  <2>2. <<e>> \in Seq(S) /\ NoneIn(<<e>>, News(dev[t].idx, f) \cup Losses(dev[t].idx, f))
    BY <1>7, <2>1, NoneInOne
  <2> QED
    BY <1>3, <1>4, <1>8, <2>2, AnnouncedOthers DEF Grows
<1>12. ASSUME NEW f \in Field
       PROVE  /\ Announced(events', Zero, dev'[u].addr[f], dev'[u].idx, f)
              /\ Consistent(events', dev'[u].addr[f], dev'[u].idx, f)
  <2>1. NoneIn(events, News(i, f) \cup Losses(i, f))
    BY <1>10 DEF NoneIn, News, Losses
  <2>2. Len(events) \in Nat
    BY <1>3
  <2>3. Announced(events, Zero, Zero, i, f)
    BY <2>1, <2>2, LeadsNone DEF Announced
  <2>4. Consistent(events, Zero, i, f)
    BY <2>3 DEF Consistent
  <2>5. Moved(e, Zero, dev'[u].addr[f], i, f)
    <3>1. CASE f = "mac"
      <4>1. e \in News(i, f) /\ e.val = a
        BY <1>2, <1>7, <3>1 DEF News
      <4> QED
        BY <1>8, <3>1, <4>1 DEF Moved
    <3>2. CASE f # "mac"
      <4>1. e \notin News(i, f) \cup Losses(i, f)
        BY <1>2, <3>2 DEF News, Losses
      <4> QED
        BY <1>8, <3>2, <4>1 DEF Moved
    <3> QED
      BY <3>1, <3>2
  <2> QED
    BY <1>3, <1>4, <1>7, <1>8, <2>3, <2>4, <2>5, AnnouncedMoves, ConsistentMoves
<1>13. DevicesOK'
  <2>1. DOMAIN dev' \subseteq site'.tap
    BY <1>8 DEF DevicesOK
  <2>2. \A t \in DOMAIN dev' : dev'[t].idx <= i
    BY <1>3, <1>5, <1>8, <1>9 DEF DevicesOK
  <2>3. \A t, v \in DOMAIN dev' : dev'[t].idx = dev'[v].idx => t = v
    BY <1>8, <1>9 DEF DevicesOK
  <2>4. ASSUME NEW n \in 1 .. Len(events'), events'[n] \in IfEvent PROVE events'[n].idx <= i
    <3>1. Len(events) \in Nat /\ Len(events') = Len(events) + 1
      BY <1>3, <1>4, <1>7
    <3>2. CASE n \in 1 .. Len(events)
      <4>1. events'[n] = events[n]
        BY <1>3, <1>4, <1>7, <3>2
      <4>2. events[n].idx \in Nat /\ events[n].idx <= lastIdx
        BY <2>4, <3>2, <4>1 DEF DevicesOK, IfEvent
      <4> QED
        BY <1>3, <1>5, <4>1, <4>2
    <3>3. CASE n = Len(events) + 1
      <4>1. events'[n] = e
        BY <1>3, <1>4, <1>7, <3>3
      <4> QED
        BY <1>2, <1>5, <4>1
    <3> QED
      BY <3>1, <3>2, <3>3
  <2> QED
    BY <1>3, <2>1, <2>2, <2>3, <2>4 DEF DevicesOK
<1> QED
  BY <1>3, <1>8, <1>11, <1>12, <1>13

LEMMA KernelDevicesOK ==
  ASSUME KernelTyped, DevicesOK, Kernel
  PROVE  DevicesOK'
<1> DEFINE S == NeighEvent \cup IfEvent
<1>0. events \in Seq(S) /\ lastIdx' = lastIdx /\ site' = site
  BY KernelDevices DEF KernelTyped, Kernel
<1>1. /\ DOMAIN dev' \subseteq DOMAIN dev /\ \A t \in DOMAIN dev' : dev'[t].idx = dev[t].idx
  BY KernelDevices DEF DeviceStep
<1>2. PICK s \in Seq(S) : /\ events' = events \o s
                          /\ \A n \in 1 .. Len(s) : s[n] \in IfEvent => s[n].idx <= lastIdx
  <2>1. CASE \E e \in NeighEvent : events' = events \o <<e>>
    <3>1. PICK e \in NeighEvent : events' = events \o <<e>>
      BY <2>1
    <3>2. e \notin IfEvent
      BY DEF NeighEvent, IfEvent
    <3>3. <<e>> \in Seq(S) /\ \A n \in 1 .. Len(<<e>>) : <<e>>[n] = e
      OBVIOUS
    <3> QED
      BY <3>1, <3>2, <3>3
  <2>2. ASSUME NEW u \in DOMAIN dev, DeviceStep(u)
        PROVE  \E s \in Seq(S) : /\ events' = events \o s
                                 /\ \A n \in 1 .. Len(s) : s[n] \in IfEvent => s[n].idx <= lastIdx
    <3>1. \E s \in Seq(IfEvent) : /\ events' = events \o s
                                  /\ \A n \in 1 .. Len(s) : s[n].idx = dev[u].idx
      <4>1. ASSUME NEW e \in IfEvent, e.idx = dev[u].idx
            PROVE  <<e>> \in Seq(IfEvent) /\ \A n \in 1 .. Len(<<e>>) : <<e>>[n].idx = dev[u].idx
        BY <4>1
      <4> QED
        BY <2>2, <4>1 DEF DeviceStep
    <3>2. PICK s \in Seq(IfEvent) : /\ events' = events \o s
                                    /\ \A n \in 1 .. Len(s) : s[n].idx = dev[u].idx
      BY <3>1
    <3>3. s \in Seq(S) /\ dev[u].idx <= lastIdx
      BY DEF DevicesOK
    <3> QED
      BY <3>2, <3>3
  <2> QED
    BY <2>1, <2>2, KernelDevices
<1> HIDE DEF S
<1>3. ASSUME NEW n \in 1 .. Len(events'), events'[n] \in IfEvent PROVE events'[n].idx <= lastIdx
  <2>1. Len(events) \in Nat /\ Len(s) \in Nat /\ Len(events') = Len(events) + Len(s)
    BY <1>0, <1>2
  <2>2. CASE n \in 1 .. Len(events)
    <3>1. events'[n] = events[n]
      BY <1>0, <1>2, <2>2
    <3> QED
      BY <1>3, <2>2, <3>1 DEF DevicesOK
  <2>3. CASE n \in Len(events) + 1 .. Len(events) + Len(s)
    <3>1. events'[n] = s[n - Len(events)] /\ n - Len(events) \in 1 .. Len(s)
      BY <1>0, <1>2, <2>1, <2>3
    <3> QED
      BY <1>2, <1>3, <3>1
  <2> QED
    BY <2>1, <2>2, <2>3
<1> QED
  BY <1>0, <1>1, <1>3 DEF DevicesOK

-----------------------------------------------------------------------------
(* The dump and the addresses.                                             *)

\* The dump still brings the address of kind f of the device t.
ItemAhead(t, f) ==
  \E i \in DOMAIN Dump : pos <= i /\ f \in Dump[i].fields /\ Dump[i].tap = t

HasItem(q, t, f) == \E i \in DOMAIN q : f \in q[i].fields /\ q[i].tap = t

LEMMA HasItemConcat ==
  ASSUME NEW S, NEW p \in Seq(S), NEW q \in Seq(S), NEW t, NEW f, HasItem(p, t, f) \/ HasItem(q, t, f)
  PROVE  HasItem(p \o q, t, f)
<1>1. /\ \A i \in DOMAIN p : i \in DOMAIN (p \o q) /\ (p \o q)[i] = p[i]
      /\ \A i \in DOMAIN q : Len(p) + i \in DOMAIN (p \o q) /\ (p \o q)[Len(p) + i] = q[i]
  OBVIOUS
<1>2. PICK r : r = p \o q
  OBVIOUS
<1> QED
  BY <1>1, <1>2 DEF HasItem

\* Every address of every device is dumped.
LEMMA DumpHasTap ==
  ASSUME site \in Site, NEW t \in site.tap, NEW f \in Field
  PROVE  HasItem(Dump, t, f)
<1> DEFINE taps == SetToSeq(site.tap)
           A == DumpOf({"mac"})
           B == DumpOf({"v4"})
           C == DumpOf({"v6", "ll"})
<1>1. IsFiniteSet(site.tap)
  BY SiteFacts
<1>2. PICK i \in DOMAIN taps : taps[i] = t
  BY <1>1, SetToSeqFacts
<1>3. ASSUME NEW fs, f \in fs PROVE HasItem(DumpOf(fs), t, f)
  <2>1. DumpOf(fs) = [n \in DOMAIN taps |-> [tap |-> taps[n], fields |-> fs]]
    BY DEF DumpOf
  <2> HIDE DEF taps
  <2>2. i \in DOMAIN DumpOf(fs) /\ DumpOf(fs)[i].tap = t /\ DumpOf(fs)[i].fields = fs
    BY <1>2, <2>1
  <2> QED
    BY <1>3, <2>2 DEF HasItem
<1>4. HasItem(A, t, f) \/ HasItem(B, t, f) \/ HasItem(C, t, f)
  BY <1>3 DEF Field, Kind
<1>5. A \in Seq(DItem) /\ B \in Seq(DItem) /\ C \in Seq(DItem) /\ DumpNeigh \in Seq(DItem)
  BY DumpParts
<1>6. Dump = ((A \o B) \o C) \o DumpNeigh
  BY DEF Dump
<1> HIDE DEF A, B, C
<1>7. HasItem(A, t, f) \/ HasItem(B, t, f) => HasItem(A \o B, t, f)
  BY <1>5, HasItemConcat
<1>8. A \o B \in Seq(DItem) /\ (A \o B) \o C \in Seq(DItem)
  BY <1>5
<1>9. HasItem(A \o B, t, f) \/ HasItem(C, t, f) => HasItem((A \o B) \o C, t, f)
  BY <1>5, <1>8, HasItemConcat
<1>10. HasItem((A \o B) \o C, t, f) => HasItem(Dump, t, f)
  BY <1>5, <1>6, <1>8, HasItemConcat
<1> QED
  BY <1>4, <1>7, <1>9, <1>10

\* A device of which nothing was dumped has all of its addresses ahead; in
\* the loop all of them have been dumped.
LEMMA AheadFacts ==
  ASSUME KernelTyped, RouterTyped, NEW t \in site.tap, NEW f \in Field
  PROVE  /\ NotDumped(t) => ItemAhead(t, f)
         /\ InLoop => ~NotDumped(t) /\ ~ItemAhead(t, f)
<1>1. site \in Site /\ pos \in Int
  <2>1. pos \in -1 .. Len(Dump) + 1
    BY DEF RouterTyped, Blocked
  <2> QED
    BY <2>1 DEF KernelTyped
<1>2. Dump \in Seq(DItem)
  BY <1>1, DumpFacts
<1>3. PICK i \in DOMAIN Dump : f \in Dump[i].fields /\ Dump[i].tap = t
  BY <1>1, DumpHasTap DEF HasItem
<1> HIDE DEF Dump
<1>4. DOMAIN Dump = 1 .. Len(Dump) /\ Len(Dump) \in Nat
  BY <1>2
<1>5. NotDumped(t) => pos <= i
  <2>1. NotDumped(t) => i \notin 1 .. pos - 1
    BY <1>3 DEF NotDumped
  <2> QED
    BY <1>1, <1>4, <2>1
<1>6. ASSUME InLoop PROVE i \in 1 .. pos - 1 /\ \A n \in DOMAIN Dump : ~(pos <= n)
  BY <1>4, <1>6 DEF InLoop
<1> QED
  BY <1>3, <1>5, <1>6 DEF ItemAhead, NotDumped

\* The position in the dump only grows, until the thread is blocked.
PosGrows == pos' \in {pos, Blocked} \/ (pos >= 0 /\ pos' = pos + 1)

LEMMA DumpedStays ==
  ASSUME RouterTyped, KernelTyped, PosGrows, site' = site
  PROVE  /\ \A t : NotDumped(t)' => NotDumped(t)
         /\ pos' >= 0 => pos >= 0
<1>1. pos \in Int
  <2>1. pos \in -1 .. Len(Dump) + 1
    BY DEF RouterTyped, Blocked
  <2> QED
    BY <2>1
<1>2. Dump' = Dump
  BY DEF Dump, DumpOf, DumpNeigh
<1> HIDE DEF Dump
<1>3. pos' >= 0 => pos >= 0 /\ \A i \in 1 .. pos - 1 : i \in 1 .. pos' - 1
  BY <1>1 DEF PosGrows, Blocked
<1> QED
  BY <1>2, <1>3 DEF NotDumped

-----------------------------------------------------------------------------
(* The inductive invariant of the addresses.                               *)

Known == DOMAIN dev \cup gone

\* A message names a device that was there when it was sent, and of which
\* something was dumped.
MsgOK(m) ==
  /\ m.op = "if_set" => m.tap \in site.tap
  /\ m \in AddrMsg /\ m.name # NoName => m.name \in Known /\ ~NotDumped(m.name)

RibqOK == \A n \in 1 .. Len(ribq) : MsgOK(ribq[n])

\* A followed interface is the only one of its name.
IfsOK ==
  \A s \in clean : /\ rif[s].tap \in Known /\ rif[s].extent = NameLen[rif[s].tap]
                   /\ \A r \in Slot : rif[r].tap = rif[s].tap => r = s

\* Until the loop reads them the events are those since the subscription.
EventsOK ==
  pos \in 0 .. Len(Dump) =>
    \A t \in DOMAIN dev, f \in Field : Consistent(events, dev[t].addr[f], dev[t].idx, f)

\* What is queued for rib_manager, and then the dump or the events, lead from
\* the address x of an interface to the device's.
FlowTo(t, f, x) ==
  \E y : /\ Queued(ribq, x, y, t, f)
         /\ \/ ItemAhead(t, f) /\ y = Zero
            \/ Announced(events, y, dev[t].addr[f], dev[t].idx, f)

FlowOK ==
  pos >= 0 => \A s \in clean, f \in Field :
                rif[s].tap \in DOMAIN dev \ gone => FlowTo(rif[s].tap, f, rif[s].addr[f])

AddrInv == DevicesOK /\ RibqOK /\ IfsOK /\ EventsOK /\ FlowOK

LEMMA MsgStaysOK ==
  ASSUME RouterTyped, KernelTyped, PosGrows, site' = site, Known \subseteq Known'
  PROVE  \A m : MsgOK(m) => MsgOK(m)'
BY DumpedStays DEF MsgOK

LEMMA RibqGrows ==
  ASSUME RouterTyped, KernelTyped, PosGrows, site' = site, Known \subseteq Known', RibqOK,
         ribq \in Seq(Msg), NEW s \in Seq(Msg), ribq' = ribq \o s,
         \A n \in 1 .. Len(s) : MsgOK(s[n])'
  PROVE  RibqOK'
<1>1. \A m : MsgOK(m) => MsgOK(m)'
  BY MsgStaysOK
<1> SUFFICES ASSUME NEW n \in 1 .. Len(ribq') PROVE MsgOK(ribq[n])'
  BY DEF RibqOK
<1>2. Len(ribq) \in Nat /\ Len(s) \in Nat /\ Len(ribq') = Len(ribq) + Len(s)
  OBVIOUS
<1>3. PICK m : m = ribq'[n]
  OBVIOUS
<1>4. CASE n \in 1 .. Len(ribq)
  <2>1. m = ribq[n]
    BY <1>3, <1>4
  <2>2. MsgOK(m)
    BY <1>4, <2>1 DEF RibqOK
  <2>3. MsgOK(m)'
    BY <1>1, <2>2
  <2> QED
    BY <1>3, <2>3 DEF MsgOK
<1>5. CASE n \in Len(ribq) + 1 .. Len(ribq) + Len(s)
  <2>1. m = s[n - Len(ribq)] /\ n - Len(ribq) \in 1 .. Len(s)
    BY <1>2, <1>3, <1>5
  <2>2. MsgOK(m)'
    BY <2>1
  <2> QED
    BY <1>3, <2>2 DEF MsgOK
<1> QED
  BY <1>2, <1>4, <1>5

LEMMA RibqShrinks ==
  ASSUME RouterTyped, KernelTyped, PosGrows, site' = site, Known \subseteq Known', RibqOK,
         ribq \in Seq(Msg), ribq # <<>>, ribq' = Tail(ribq)
  PROVE  RibqOK'
<1>1. \A m : MsgOK(m) => MsgOK(m)'
  BY MsgStaysOK
<1> SUFFICES ASSUME NEW n \in 1 .. Len(ribq') PROVE MsgOK(ribq[n])'
  BY DEF RibqOK
<1>2. /\ Len(ribq) \in Nat /\ Len(ribq) >= 1 /\ Len(ribq') = Len(ribq) - 1
      /\ \A i \in 1 .. Len(ribq) - 1 : ribq'[i] = ribq[i + 1]
  BY TailElements
<1>3. PICK m : m = ribq'[n]
  OBVIOUS
<1>4. m = ribq[n + 1] /\ n + 1 \in 1 .. Len(ribq)
  BY <1>2, <1>3
<1>5. MsgOK(m)
  BY <1>4 DEF RibqOK
<1>6. MsgOK(m)'
  BY <1>1, <1>5
<1> QED
  BY <1>3, <1>6 DEF MsgOK

LEMMA FlowKept ==
  ASSUME NEW t, NEW f, NEW x, ribq \in Seq(Msg), NEW s \in Seq(Msg), ribq' = ribq \o s,
         NoneIn(s, Adds(t, f) \cup Dels(t, f)),
         ItemAhead(t, f) => ItemAhead(t, f)', Grows(t, f), FlowTo(t, f, x)
  PROVE  FlowTo(t, f, x)'
<1>1. PICK y : /\ Queued(ribq, x, y, t, f)
               /\ \/ ItemAhead(t, f) /\ y = Zero
                  \/ Announced(events, y, dev[t].addr[f], dev[t].idx, f)
  BY DEF FlowTo
<1>2. Len(s) \in Nat
  OBVIOUS
<1>3. Leads(s, y, y, Adds(t, f), Dels(t, f), f)
  BY <1>2, LeadsNone
<1>4. Queued(ribq', x, y, t, f)
  BY <1>1, <1>3, LeadsConcat DEF Queued
<1>5. (ItemAhead(t, f)' /\ y = Zero) \/ Announced(events', y, dev'[t].addr[f], dev'[t].idx, f)
  BY <1>1 DEF Grows
<1> QED
  BY <1>4, <1>5 DEF FlowTo

LEMMA FlowTaken ==
  ASSUME NEW t, NEW f, NEW x, NEW v, ribq \in Seq(Msg), ribq # <<>>, ribq' = Tail(ribq),
         v = Change(Head(ribq), x, Adds(t, f), Dels(t, f), f),
         ItemAhead(t, f) => ItemAhead(t, f)', Grows(t, f), FlowTo(t, f, x)
  PROVE  FlowTo(t, f, v)'
<1>1. PICK y : /\ Queued(ribq, x, y, t, f)
               /\ \/ ItemAhead(t, f) /\ y = Zero
                  \/ Announced(events, y, dev[t].addr[f], dev[t].idx, f)
  BY DEF FlowTo
<1>2. Queued(ribq', v, y, t, f)
  BY <1>1, LeadsTail DEF Queued
<1>3. (ItemAhead(t, f)' /\ y = Zero) \/ Announced(events', y, dev'[t].addr[f], dev'[t].idx, f)
  BY <1>1 DEF Grows
<1> QED
  BY <1>2, <1>3 DEF FlowTo

LEMMA EventsStayOK ==
  ASSUME RouterTyped, KernelTyped, PosGrows, site' = site, EventsOK,
         \A t \in DOMAIN dev', f \in Field : t \in DOMAIN dev /\ Grows(t, f)
  PROVE  EventsOK'
<1>1. Dump' = Dump /\ Dump \in Seq(DItem)
  BY DumpFacts DEF Dump, DumpOf, DumpNeigh, KernelTyped
<1>2. pos \in -1 .. Len(Dump) + 1
  BY DEF RouterTyped, Blocked
<1> HIDE DEF Dump
<1>3. Len(Dump) \in Nat
  BY <1>1
<1>4. pos' \in 0 .. Len(Dump) => pos \in 0 .. Len(Dump)
  BY <1>2, <1>3 DEF PosGrows, Blocked
<1> QED
  BY <1>1, <1>4 DEF EventsOK, Grows

\* A step that leaves the interfaces alone and queues nothing about addresses.
LEMMA AddrByOthers ==
  ASSUME NetlinkInv, AddrInv, UNCHANGED <<site, rif, clean>>, PosGrows, DevicesOK',
         gone \subseteq gone', Known \subseteq Known',
         \A t \in DOMAIN dev', f \in Field : t \in DOMAIN dev /\ Grows(t, f),
         pos' >= 0 => \A t \in DOMAIN dev', f \in Field : ItemAhead(t, f) => ItemAhead(t, f)',
         NEW s \in Seq(Msg), ribq' = ribq \o s,
         \A n \in 1 .. Len(s) : s[n] \notin AddrMsg /\ (s[n].op = "if_set" => s[n].tap \in site.tap)
  PROVE  AddrInv'
<1>1. RouterTyped /\ KernelTyped /\ ribq \in Seq(Msg)
  BY DEF NetlinkInv, TablesTyped
<1>2. RibqOK'
  <2>1. \A n \in 1 .. Len(s) : MsgOK(s[n])'
    BY DEF MsgOK
  <2> QED
    BY <1>1, <2>1, RibqGrows DEF AddrInv
<1>3. IfsOK'
  BY DEF AddrInv, IfsOK
<1>4. EventsOK'
  BY <1>1, EventsStayOK DEF AddrInv
<1>5. ASSUME pos' >= 0, NEW i \in clean, NEW f \in Field, rif[i].tap \in DOMAIN dev' \ gone'
      PROVE  FlowTo(rif[i].tap, f, rif[i].addr[f])'
  <2>1. PICK t : t = rif[i].tap
    OBVIOUS
  <2>2. PICK x : x = rif[i].addr[f]
    OBVIOUS
  <2>3. t \in DOMAIN dev \ gone /\ pos >= 0
    BY <1>1, <1>5, <2>1, DumpedStays
  <2>4. FlowTo(t, f, x)
    BY <2>1, <2>2, <2>3 DEF AddrInv, FlowOK
  <2>5. NoneIn(s, Adds(t, f) \cup Dels(t, f))
    BY DEF NoneIn, Adds, Dels
  <2>6. Grows(t, f) /\ (ItemAhead(t, f) => ItemAhead(t, f)')
    BY <1>5, <2>1
  <2>7. FlowTo(t, f, x)'
    BY <1>1, <2>4, <2>5, <2>6, FlowKept
  <2>8. t = rif'[i].tap /\ x = rif'[i].addr[f]
    BY <2>1, <2>2
  <2> QED
    BY <2>7, <2>8 DEF FlowTo, ItemAhead
<1>6. FlowOK'
  BY <1>5 DEF FlowOK
<1> QED
  BY <1>2, <1>3, <1>4, <1>6 DEF AddrInv

\* Nothing changes for the devices.
LEMMA SameDevices ==
  ASSUME UNCHANGED <<dev, events, lastIdx, site>>, DevicesOK
  PROVE  /\ DevicesOK'
         /\ \A t \in DOMAIN dev', f \in Field : t \in DOMAIN dev /\ Grows(t, f)
BY DEF DevicesOK, Grows

\* The dump does not go on.
LEMMA SameAhead ==
  ASSUME KernelTyped, RouterTyped, UNCHANGED site,
         pos' \in {pos, Blocked} \/ (pos = 0 /\ pos' = 1)
  PROVE  PosGrows /\ (pos' >= 0 => \A t, f : ItemAhead(t, f) => ItemAhead(t, f)')
<1>1. Dump' = Dump /\ Dump \in Seq(DItem)
  BY DumpFacts DEF Dump, DumpOf, DumpNeigh, KernelTyped
<1>2. pos \in Int
  <2>1. pos \in -1 .. Len(Dump) + 1
    BY DEF RouterTyped, Blocked
  <2> QED
    BY <2>1
<1> HIDE DEF Dump
<1>3. \A i \in DOMAIN Dump : i \in Nat /\ 1 <= i
  BY <1>1
<1>4. pos' >= 0 => \A i \in DOMAIN Dump : pos <= i => pos' <= i
  BY <1>2, <1>3 DEF Blocked
<1> QED
  BY <1>1, <1>2, <1>4 DEF ItemAhead, PosGrows

LEMMA AddrByKernel ==
  ASSUME NetlinkInv, AddrInv, Kernel
  PROVE  AddrInv'
<1>1. KernelTyped /\ RouterTyped /\ DevicesOK /\ ribq \in Seq(Msg)
  BY DEF NetlinkInv, TablesTyped, AddrInv
<1>2. UNCHANGED <<site, rif, clean, pos, ribq>>
  BY DEF Kernel, neighVars
<1>3. DevicesOK' /\ gone \subseteq gone' /\ Known \subseteq Known'
  BY <1>1, KernelDevicesOK, KernelDevices DEF Known
<1>4. \A t \in DOMAIN dev', f \in Field : t \in DOMAIN dev /\ Grows(t, f)
  BY <1>1, KernelGrows
<1>5. <<>> \in Seq(Msg) /\ ribq' = ribq \o <<>> /\ \A n \in 1 .. Len(<<>>) : FALSE
  BY <1>1, <1>2
<1>6. PosGrows /\ (pos' >= 0 => \A t, f : ItemAhead(t, f) => ItemAhead(t, f)')
  BY <1>1, <1>2, SameAhead
<1> QED
  BY <1>2, <1>3, <1>4, <1>5, <1>6, AddrByOthers

LEMMA AddrByCommand ==
  ASSUME NetlinkInv, AddrInv, Command
  PROVE  AddrInv'
<1>1. KernelTyped /\ RouterTyped /\ DevicesOK /\ ribq \in Seq(Msg) /\ site.tap \subseteq Tap
  BY SiteFacts DEF NetlinkInv, TablesTyped, AddrInv, KernelTyped
<1>2. /\ UNCHANGED <<site, rif, clean, kernelVars, events>>
      /\ pos' = pos \/ (pos = 0 /\ pos' = 1)
  BY DEF Command, Given, StartupDone, Waiting
<1>3. \E s \in Seq(Msg) :
        /\ ribq' = ribq \o s
        /\ \A n \in 1 .. Len(s) : s[n] \notin AddrMsg /\ (s[n].op = "if_set" => s[n].tap \in site.tap)
  <2>1. ASSUME NEW m \in IfMsg, m.op = "if_set" => m.tap \in site.tap,
               ribq' = Enqueue(ribq, RibRing, m)
        PROVE  \E s \in Seq(Msg) :
                 /\ ribq' = ribq \o s
                 /\ \A n \in 1 .. Len(s) : s[n] \notin AddrMsg /\ (s[n].op = "if_set" => s[n].tap \in site.tap)
    <3>1. m \in Msg /\ m \notin AddrMsg
      BY DEF Msg, Other, IfMsg, AddrMsg
    <3>2. CASE Len(ribq) < RibRing
      <4>1. ribq' = ribq \o <<m>> /\ <<m>> \in Seq(Msg) /\ Len(<<m>>) = 1 /\ <<m>>[1] = m
        BY <1>1, <2>1, <3>1, <3>2 DEF Enqueue
      <4>2. \A n \in 1 .. Len(<<m>>) : <<m>>[n] = m
        BY <4>1
      <4> QED
        BY <2>1, <3>1, <4>1, <4>2
    <3>3. CASE ~(Len(ribq) < RibRing)
      <4>1. ribq' = ribq \o <<>> /\ <<>> \in Seq(Msg) /\ \A n \in 1 .. Len(<<>>) : FALSE
        BY <1>1, <2>1, <3>3 DEF Enqueue
      <4> QED
        BY <4>1
    <3> QED
      BY <3>2, <3>3
  <2>2. ASSUME NEW i \in Slot, NEW t \in site.tap, Given([op |-> "if_set", slot |-> i, tap |-> t])
        PROVE  \E m \in IfMsg : /\ m.op = "if_set" => m.tap \in site.tap
                                /\ ribq' = Enqueue(ribq, RibRing, m)
    <3> DEFINE m == [op |-> "if_set", slot |-> i, tap |-> t]
    <3>1. m \in IfMsg /\ m.tap = t
      BY <1>1 DEF IfMsg
    <3>2. ribq' = Enqueue(ribq, RibRing, m)
      BY <2>2 DEF Given
    <3> HIDE DEF m
    <3> QED
      BY <3>1, <3>2
  <2>3. ASSUME NEW t \in site.tap, Given([op |-> "if_no_set", tap |-> t])
        PROVE  \E m \in IfMsg : /\ m.op = "if_set" => m.tap \in site.tap
                                /\ ribq' = Enqueue(ribq, RibRing, m)
    <3> DEFINE m == [op |-> "if_no_set", tap |-> t]
    <3>1. m \in IfMsg /\ m.op = "if_no_set"
      BY <1>1 DEF IfMsg
    <3>2. ribq' = Enqueue(ribq, RibRing, m)
      BY <2>3 DEF Given
    <3> HIDE DEF m
    <3> QED
      BY <3>1, <3>2
  <2>4. CASE StartupDone
    <3>1. ribq' = ribq \o <<>> /\ <<>> \in Seq(Msg) /\ \A n \in 1 .. Len(<<>>) : FALSE
      BY <1>1, <2>4 DEF StartupDone
    <3> QED
      BY <3>1
  <2> QED
    BY <2>1, <2>2, <2>3, <2>4 DEF Command
<1>4. DevicesOK' /\ \A t \in DOMAIN dev', f \in Field : t \in DOMAIN dev /\ Grows(t, f)
  BY <1>1, <1>2, SameDevices DEF kernelVars
<1>5. gone \subseteq gone' /\ Known \subseteq Known'
  BY <1>2 DEF kernelVars, Known
<1>6. PosGrows /\ (pos' >= 0 => \A t, f : ItemAhead(t, f) => ItemAhead(t, f)')
  BY <1>1, <1>2, SameAhead
<1> QED
  BY <1>2, <1>3, <1>4, <1>5, <1>6, AddrByOthers

LEMMA AddrByNeigh ==
  ASSUME NetlinkInv, AddrInv, NeighStep
  PROVE  AddrInv'
<1>1. KernelTyped /\ RouterTyped /\ TablesTyped /\ DevicesOK /\ ribq \in Seq(Msg)
  BY DEF NetlinkInv, TablesTyped, AddrInv
<1>2. UNCHANGED <<site, kernelVars, events, pos, rif, clean>>
  BY DEF NeighStep
<1>3. DevicesOK' /\ \A t \in DOMAIN dev', f \in Field : t \in DOMAIN dev /\ Grows(t, f)
  BY <1>1, <1>2, SameDevices DEF kernelVars
<1>4. gone' = gone /\ dev' = dev /\ Known' = Known
  BY <1>2 DEF kernelVars, Known
<1>5. PosGrows /\ (pos' >= 0 => \A t, f : ItemAhead(t, f) => ItemAhead(t, f)')
  BY <1>1, <1>2, SameAhead
<1>6. \A m \in Delta : m \notin AddrMsg /\ m.op # "if_set" /\ m \in Msg
  BY DEF Delta, AddrMsg, Msg
<1>7. CASE NeighManager
  <2>1. \E s \in Seq(Msg) :
          /\ ribq' = ribq \o s
          /\ \A n \in 1 .. Len(s) : s[n] \notin AddrMsg /\ (s[n].op = "if_set" => s[n].tap \in site.tap)
    <3>1. CASE ribq' = ribq
      <4>1. ribq' = ribq \o <<>> /\ <<>> \in Seq(Msg) /\ \A n \in 1 .. Len(<<>>) : FALSE
        BY <1>1, <3>1
      <4> QED
        BY <4>1
    <3>2. ASSUME NEW m \in Delta, ribq' = Append(ribq, m)
          PROVE  \E s \in Seq(Msg) :
                   /\ ribq' = ribq \o s
                   /\ \A n \in 1 .. Len(s) : s[n] \notin AddrMsg /\ (s[n].op = "if_set" => s[n].tap \in site.tap)
      <4>1. ribq' = ribq \o <<m>> /\ <<m>> \in Seq(Msg) /\ \A n \in 1 .. Len(<<m>>) : <<m>>[n] = m
        BY <1>1, <1>6, <3>2
      <4> QED
        BY <1>6, <4>1
    <3> QED
      BY <1>1, <1>7, <3>1, <3>2, ManagerSteps DEF Enqueue
  <2> QED
    BY <1>2, <1>3, <1>4, <1>5, <2>1, AddrByOthers
<1>8. CASE NeighMessage
  <2>1. PICK m : m = Head(ribq)
    OBVIOUS
  <2>2. ribq # <<>> /\ ribq' = Tail(ribq) /\ IsDelta(m)
    BY <1>8, <2>1 DEF NeighMessage
  <2>3. m \in Msg
    BY <1>1, <2>1, <2>2
  <2>4. m \notin AddrMsg
    BY <1>6, <2>2, <2>3, DeltaFacts
  <2>5. RibqOK'
    BY <1>1, <1>2, <1>4, <1>5, <2>2, RibqShrinks DEF AddrInv
  <2>6. IfsOK'
    BY <1>2, <1>4 DEF AddrInv, IfsOK
  <2>7. EventsOK'
    BY <1>1, <1>2, <1>3, <1>5, EventsStayOK DEF AddrInv
  <2>8. ASSUME pos' >= 0, NEW i \in clean, NEW f \in Field, rif[i].tap \in DOMAIN dev \ gone
        PROVE  FlowTo(rif[i].tap, f, rif[i].addr[f])'
    <3>1. PICK t : t = rif[i].tap
      OBVIOUS
    <3>2. PICK x : x = rif[i].addr[f]
      OBVIOUS
    <3>3. FlowTo(t, f, x)
      BY <1>2, <2>8, <3>1, <3>2 DEF AddrInv, FlowOK
    <3>4. x = Change(m, x, Adds(t, f), Dels(t, f), f)
      BY <2>4 DEF Change, Adds, Dels
    <3>5. Grows(t, f) /\ (ItemAhead(t, f) => ItemAhead(t, f)')
      BY <1>3, <1>4, <1>5, <2>8, <3>1
    <3>6. FlowTo(t, f, x)'
      BY <1>1, <2>1, <2>2, <3>3, <3>4, <3>5, FlowTaken
    <3>7. t = rif'[i].tap /\ x = rif'[i].addr[f]
      BY <1>2, <3>1, <3>2
    <3> QED
      BY <3>6, <3>7 DEF FlowTo, ItemAhead
  <2>9. FlowOK'
    BY <1>2, <1>4, <2>8 DEF FlowOK
  <2> QED
    BY <1>3, <2>5, <2>6, <2>7, <2>9 DEF AddrInv
<1> QED
  BY <1>7, <1>8 DEF NeighStep

-----------------------------------------------------------------------------
(* What netlink_thread makes of the dump and of the events.                *)

LEMMA NameFacts ==
  ASSUME KernelTyped, DevicesOK, NEW i
  PROVE  /\ NameOf(i) # NoName => NameOf(i) \in DOMAIN dev
         /\ \A t \in DOMAIN dev : NameOf(i) = t <=> dev[t].idx = i
<1>1. NoName \notin DOMAIN dev
  BY AddrAssumption DEF KernelTyped
<1>2. CASE \E t \in DOMAIN dev : dev[t].idx = i
  <2>1. NameOf(i) \in DOMAIN dev /\ dev[NameOf(i)].idx = i
    BY <1>2 DEF NameOf
  <2> QED
    BY <2>1 DEF DevicesOK
<1>3. CASE ~ \E t \in DOMAIN dev : dev[t].idx = i
  BY <1>1, <1>3 DEF NameOf
<1> QED
  BY <1>2, <1>3

LEMMA IfMsgFacts ==
  ASSUME KernelTyped, NEW op \in {"new", "del"}, NEW i, NEW f \in Field, NEW a \in Addr
  PROVE  IfMsgOf(op, i, f, a) = [op |-> AddrOp(op), name |-> NameOf(i), field |-> f, val |-> a]
BY DEF IfMsgOf, LinkMsg, IpMsg

\* The messages of one item of the dump.
DumpMsgs(u, F) ==
  LET d == dev[u]
      fs == SetToSeq({f \in F : d.addr[f] # Zero})
  IN  [i \in DOMAIN fs |-> IfMsgOf("new", d.idx, fs[i], d.addr[fs[i]])]

AllName(msgs, u) == \A n \in 1 .. Len(msgs) : msgs[n].name = u

LEMMA DumpMsgsFacts ==
  ASSUME KernelTyped, DevicesOK, NEW u \in DOMAIN dev, NEW F \in {{"mac"}, {"v4"}, {"v6", "ll"}},
         NEW msgs, msgs = DumpMsgs(u, F)
  PROVE  /\ msgs \in Seq(AddrMsg) /\ Len(msgs) <= 2
         /\ AllName(msgs, u)
         /\ \A t, f : t # u \/ f \notin F \/ dev[u].addr[f] = Zero =>
                        NoneIn(msgs, Adds(t, f) \cup Dels(t, f))
         /\ \A f \in F : \A y : dev[u].addr[f] # Zero => Queued(msgs, y, dev[u].addr[f], u, f)
<1> DEFINE held == {f \in F : dev[u].addr[f] # Zero}
<1>1. IsFiniteSet(held) /\ Cardinality(held) <= 2 /\ held \subseteq Field
  <2>1. F \subseteq Field
    BY DEF Field, Kind
  <2>2. IsFiniteSet(F) /\ Cardinality(F) <= 2
    <3>1. \A x : IsFiniteSet({x}) /\ Cardinality({x}) = 1
      BY FS_Singleton, Zenon
    <3>2. ASSUME NEW x, NEW y PROVE IsFiniteSet({x, y}) /\ Cardinality({x, y}) <= 2
      <4>1. PICK X : X = {x}
        OBVIOUS
      <4>2. IsFiniteSet(X) /\ Cardinality(X) = 1
        BY <3>1, <4>1, Zenon
      <4>3. /\ IsFiniteSet(X \cup {y})
            /\ Cardinality(X \cup {y}) = IF y \in X THEN Cardinality(X) ELSE Cardinality(X) + 1
        BY <4>2, FS_AddElement
      <4>4. PICK Y : Y = X \cup {y}
        OBVIOUS
      <4>5. IsFiniteSet(Y) /\ Cardinality(Y) <= 2
        BY <4>2, <4>3, <4>4
      <4>6. Y = {x, y}
        BY <4>1, <4>4
      <4> QED
        BY <4>5, <4>6, Zenon
    <3>3. \E x, y : F = {x, y}
      <4>1. {"mac"} = {"mac", "mac"} /\ {"v4"} = {"v4", "v4"}
        OBVIOUS
      <4> QED
        BY <4>1
    <3>4. PICK x, y : F = {x, y}
      BY <3>3
    <3> QED
      BY <3>2, <3>4, Zenon
  <2>3. held \in SUBSET F
    OBVIOUS
  <2> HIDE DEF held
  <2>4. IsFiniteSet(held) /\ Cardinality(held) <= Cardinality(F)
    BY <2>2, <2>3, FS_Subset
  <2>5. Cardinality(held) \in Nat /\ Cardinality(F) \in Nat
    BY <2>2, <2>4, FS_CardinalityType
  <2> QED
    BY <2>1, <2>2, <2>3, <2>4, <2>5
<1>2. PICK fs : fs = SetToSeq(held)
  OBVIOUS
<1>3. /\ fs \in Seq(held) /\ Len(fs) = Cardinality(held)
      /\ \A f \in held : \E i \in DOMAIN fs : fs[i] = f
      /\ \A i, j \in DOMAIN fs : fs[i] = fs[j] => i = j
  BY <1>1, <1>2, SetToSeqFacts
<1>4. msgs = [i \in DOMAIN fs |-> IfMsgOf("new", dev[u].idx, fs[i], dev[u].addr[fs[i]])]
  BY <1>2 DEF DumpMsgs
<1>5. \A f \in held : f \in Field /\ f \in F /\ dev[u].addr[f] \in Addr /\ dev[u].addr[f] # Zero
  BY <1>1, DeviceFacts
<1> HIDE DEF held
<1>6. NameOf(dev[u].idx) = u /\ AddrOp("new") = "addr_add" /\ u \in Tap
  BY NameFacts DEF AddrOp, KernelTyped
<1>7. DOMAIN fs = 1 .. Len(fs) /\ Len(fs) \in Nat /\ \A i \in 1 .. Len(fs) : fs[i] \in held
  BY <1>3
<1>8. ASSUME NEW i \in 1 .. Len(fs)
      PROVE  /\ msgs[i].op = "addr_add" /\ msgs[i].name = u /\ msgs[i].field = fs[i]
             /\ msgs[i].val = dev[u].addr[fs[i]] /\ msgs[i] \in AddrMsg
  <2>1. fs[i] \in Field /\ dev[u].addr[fs[i]] \in Addr
    BY <1>5, <1>7
  <2>2. msgs[i] = IfMsgOf("new", dev[u].idx, fs[i], dev[u].addr[fs[i]])
    BY <1>4, <1>7
  <2>3. msgs[i] = [op |-> "addr_add", name |-> u, field |-> fs[i], val |-> dev[u].addr[fs[i]]]
    BY <1>6, <2>1, <2>2, IfMsgFacts
  <2>4. PICK m : m = msgs[i]
    OBVIOUS
  <2>5. /\ m.op = "addr_add" /\ m.name = u /\ m.field = fs[i] /\ m.val = dev[u].addr[fs[i]]
        /\ m \in AddrMsg
    BY <1>6, <2>1, <2>3, <2>4 DEF AddrMsg
  <2> QED
    BY <2>4, <2>5
<1>9. msgs \in Seq(AddrMsg) /\ Len(msgs) = Len(fs)
  <2>1. DOMAIN msgs = 1 .. Len(fs)
    BY <1>4, <1>7
  <2>2. msgs \in [1 .. Len(fs) -> AddrMsg]
    BY <1>4, <1>8, <2>1
  <2> QED
    BY <1>7, <2>2
<1>10. Len(msgs) <= 2 /\ \A n \in 1 .. Len(msgs) : msgs[n].name = u
  BY <1>1, <1>3, <1>8, <1>9
<1>11. ASSUME NEW t, NEW f, t # u \/ f \notin F \/ dev[u].addr[f] = Zero, NEW n \in 1 .. Len(msgs)
       PROVE  msgs[n] \notin Adds(t, f) \cup Dels(t, f)
  <2>1. /\ msgs[n].name = u /\ msgs[n].field = fs[n] /\ fs[n] \in F /\ dev[u].addr[fs[n]] # Zero
    BY <1>5, <1>7, <1>8, <1>9
  <2> QED
    BY <1>11, <2>1 DEF Adds, Dels
<1>12. ASSUME NEW f \in F, NEW y, dev[u].addr[f] # Zero
       PROVE  Queued(msgs, y, dev[u].addr[f], u, f)
  <2>1. f \in held
    BY <1>12 DEF held
  <2>2. PICK i \in 1 .. Len(fs) : fs[i] = f
    BY <1>3, <1>7, <2>1
  <2>3. i \in 1 .. Len(msgs) /\ msgs[i] \in Adds(u, f) /\ msgs[i].val = dev[u].addr[f]
    BY <1>8, <1>9, <2>2 DEF Adds
  <2>4. ASSUME NEW n \in 1 .. Len(msgs), n # i PROVE msgs[n] \notin Adds(u, f) \cup Dels(u, f)
    <3>1. fs[n] # f /\ msgs[n].field = fs[n]
      BY <1>3, <1>7, <1>8, <1>9, <2>2, <2>4
    <3> QED
      BY <3>1 DEF Adds, Dels
  <2>5. Len(msgs) \in Nat
    BY <1>7, <1>9
  <2>6. Leads(msgs, y, msgs[i].val, Adds(u, f), Dels(u, f), f)
    BY <2>3, <2>4, <2>5, LeadsSet
  <2> QED
    BY <2>3, <2>6 DEF Queued
<1> QED
  BY <1>9, <1>10, <1>11, <1>12 DEF NoneIn, AllName

\* Goes on with the dump: what is ahead stays ahead unless it was this item.
LEMMA AheadMoves ==
  ASSUME NetlinkInv, Dumping, pos' = pos + 1, site' = site, NEW t, NEW f,
         ~(f \in Dump[pos].fields /\ Dump[pos].tap = t), ItemAhead(t, f)
  PROVE  ItemAhead(t, f)'
<1>1. Dump' = Dump /\ Dump \in Seq(DItem)
  BY DumpFacts DEF Dump, DumpOf, DumpNeigh, NetlinkInv, KernelTyped
<1>2. pos \in 1 .. Len(Dump)
  BY DEF Dumping
<1> HIDE DEF Dump
<1>3. PICK i \in DOMAIN Dump : pos <= i /\ f \in Dump[i].fields /\ Dump[i].tap = t
  BY DEF ItemAhead
<1>4. i # pos /\ i \in Nat /\ pos \in Nat
  BY <1>1, <1>2, <1>3
<1>5. pos + 1 <= i
  BY <1>3, <1>4
<1> QED
  BY <1>1, <1>3, <1>5 DEF ItemAhead

LEMMA AddrByItem ==
  ASSUME NetlinkInv, AddrInv, Dumping, pos' = pos + 1,
         UNCHANGED <<site, kernelVars, rif, clean, events>>,
         NEW u \in DOMAIN dev, NEW F \in {{"mac"}, {"v4"}, {"v6", "ll"}},
         Dump[pos].tap = u, Dump[pos].fields = F, ribq' = ribq \o DumpMsgs(u, F)
  PROVE  AddrInv'
<1>1. KernelTyped /\ RouterTyped /\ DevicesOK /\ ribq \in Seq(Msg)
  BY DEF NetlinkInv, TablesTyped, AddrInv
<1>2. PICK msgs : msgs = DumpMsgs(u, F)
  OBVIOUS
<1>3. /\ msgs \in Seq(AddrMsg)
      /\ \A n \in 1 .. Len(msgs) : msgs[n].name = u
      /\ \A t, f : t # u \/ f \notin F \/ dev[u].addr[f] = Zero =>
                     NoneIn(msgs, Adds(t, f) \cup Dels(t, f))
      /\ \A f \in F : \A y : dev[u].addr[f] # Zero => Queued(msgs, y, dev[u].addr[f], u, f)
  <2>1. msgs \in Seq(AddrMsg)
    BY <1>1, <1>2, DumpMsgsFacts
  <2>2. AllName(msgs, u)
    BY <1>1, <1>2, DumpMsgsFacts
  <2>3. ASSUME NEW t, NEW f, t # u \/ f \notin F \/ dev[u].addr[f] = Zero
        PROVE  NoneIn(msgs, Adds(t, f) \cup Dels(t, f))
    BY <1>1, <1>2, <2>3, DumpMsgsFacts
  <2>4. ASSUME NEW f \in F, NEW y, dev[u].addr[f] # Zero
        PROVE  Queued(msgs, y, dev[u].addr[f], u, f)
    BY <1>1, <1>2, <2>4, DumpMsgsFacts
  <2> QED
    BY <2>1, <2>2, <2>3, <2>4 DEF AllName
<1>4. msgs \in Seq(Msg) /\ ribq' = ribq \o msgs
  BY <1>2, <1>3 DEF Msg, Other
<1>5. Dump' = Dump /\ Dump \in Seq(DItem) /\ pos \in 1 .. Len(Dump)
  BY <1>1, DumpFacts DEF Dump, DumpOf, DumpNeigh, KernelTyped, Dumping
<1> HIDE DEF Dump
<1>6. Len(Dump) \in Nat /\ pos \in Nat /\ pos \in 0 .. Len(Dump) /\ pos >= 0
  BY <1>5
<1>7. PosGrows /\ UNCHANGED <<dev, gone, Known>>
  BY <1>6 DEF PosGrows, kernelVars, Known
<1>8. DevicesOK' /\ \A t \in DOMAIN dev', f \in Field : t \in DOMAIN dev /\ Grows(t, f)
  BY <1>1, SameDevices DEF kernelVars
<1>9. RibqOK'
  <2>1. ~NotDumped(u)'
    <3>1. pos \in 1 .. pos' - 1
      BY <1>5, <1>6
    <3>2. Dump'[pos].tap = u /\ Dump'[pos].fields # {}
      BY <1>5
    <3> QED
      BY <3>1, <3>2 DEF NotDumped
  <2>2. ASSUME NEW n \in 1 .. Len(msgs) PROVE MsgOK(msgs[n])'
    <3>1. msgs[n] \in AddrMsg /\ msgs[n].name = u
      BY <1>3
    <3>2. msgs[n].op # "if_set"
      BY <3>1 DEF AddrMsg
    <3>3. u \in Known'
      BY <1>7 DEF Known
    <3> QED
      BY <2>1, <3>1, <3>2, <3>3 DEF MsgOK
  <2> QED
    BY <1>1, <1>4, <1>7, <2>2, RibqGrows DEF AddrInv
<1>10. IfsOK'
  BY <1>7 DEF AddrInv, IfsOK
<1>11. EventsOK'
  BY <1>1, <1>7, <1>8, EventsStayOK DEF AddrInv
<1>12. ASSUME NEW i \in clean, NEW f \in Field, rif[i].tap \in DOMAIN dev \ gone
       PROVE  FlowTo(rif[i].tap, f, rif[i].addr[f])'
  <2>1. PICK t : t = rif[i].tap
    OBVIOUS
  <2>2. PICK x : x = rif[i].addr[f]
    OBVIOUS
  <2>3. FlowTo(t, f, x) /\ t \in DOMAIN dev
    BY <1>6, <1>12, <2>1, <2>2 DEF AddrInv, FlowOK
  <2>4. t = rif'[i].tap /\ x = rif'[i].addr[f]
    BY <2>1, <2>2
  <2>5. CASE t = u /\ f \in F
    <3>1. PICK c : c = dev[t].addr[f]
      OBVIOUS
    <3>2. PICK y : /\ Queued(ribq, x, y, t, f)
                   /\ y = Zero \/ Announced(events, y, c, dev[t].idx, f)
      BY <2>3, <3>1 DEF FlowTo
    <3>3. Announced(events, c, c, dev[t].idx, f)
      BY <1>6, <2>3, <3>1 DEF AddrInv, EventsOK, Consistent
    <3>4. CASE c # Zero
      <4>1. Queued(msgs, y, c, t, f)
        BY <1>3, <2>5, <3>1, <3>4
      <4>2. Queued(ribq', x, c, t, f)
        BY <1>1, <1>4, <3>2, <4>1, LeadsConcat DEF Queued
      <4>3. Announced(events', c, dev'[t].addr[f], dev'[t].idx, f)
        BY <1>7, <3>1, <3>3
      <4>4. FlowTo(t, f, x)'
        BY <4>2, <4>3 DEF FlowTo
      <4> QED
        BY <2>4, <4>4 DEF FlowTo, ItemAhead
    <3>5. CASE c = Zero
      <4>1. NoneIn(msgs, Adds(t, f) \cup Dels(t, f))
        BY <1>3, <2>5, <3>1, <3>5
      <4>2. Queued(msgs, y, y, t, f)
        <5>1. Len(msgs) \in Nat
          BY <1>3
        <5> QED
          BY <4>1, <5>1, LeadsNone DEF Queued
      <4>3. Queued(ribq', x, y, t, f)
        BY <1>1, <1>4, <3>2, <4>2, LeadsConcat DEF Queued
      <4>4. Announced(events', y, dev'[t].addr[f], dev'[t].idx, f)
        BY <1>7, <3>1, <3>2, <3>3, <3>5
      <4>5. FlowTo(t, f, x)'
        BY <4>3, <4>4 DEF FlowTo
      <4> QED
        BY <2>4, <4>5 DEF FlowTo, ItemAhead
    <3> QED
      BY <3>4, <3>5
  <2>6. CASE ~(t = u /\ f \in F)
    <3>1. NoneIn(msgs, Adds(t, f) \cup Dels(t, f))
      BY <1>3, <2>6
    <3>2. Grows(t, f)
      BY <1>7, <1>8, <2>3
    <3>3. ItemAhead(t, f) => ItemAhead(t, f)'
      BY <2>6, AheadMoves
    <3>4. FlowTo(t, f, x)'
      BY <1>1, <1>4, <2>3, <3>1, <3>2, <3>3, FlowKept
    <3> QED
      BY <2>4, <3>4 DEF FlowTo, ItemAhead
  <2> QED
    BY <2>5, <2>6
<1>13. FlowOK'
  BY <1>7, <1>12 DEF FlowOK
<1> QED
  BY <1>8, <1>9, <1>10, <1>11, <1>13 DEF AddrInv

LEMMA AddrByDumpItem ==
  ASSUME NetlinkInv, AddrInv, DumpItem, Len(ribq) + 2 <= RibRing,
         UNCHANGED <<site, kernelVars, rif, clean>>
  PROVE  AddrInv'
<1>1. KernelTyped /\ RouterTyped /\ DevicesOK /\ ribq \in Seq(Msg) /\ RibRing \in Nat
  BY RingAssumption DEF NetlinkInv, TablesTyped, AddrInv
<1>2. PICK item : item = Dump[pos]
  OBVIOUS
<1>3. Dumping /\ pos' = pos + 1 /\ events' = events
  BY DEF DumpItem
<1>4. item \in DItem /\ pos \in Nat
  <2>1. Dump \in Seq(DItem)
    BY <1>1, DumpFacts DEF KernelTyped
  <2>2. pos \in 1 .. Len(Dump)
    BY <1>3 DEF Dumping
  <2> HIDE DEF Dump
  <2> QED
    BY <1>2, <2>1, <2>2
<1>5. /\ item.fields = {} => UNCHANGED ribq
      /\ item.fields # {} =>
           ribq' = IF item.tap \in DOMAIN dev
                   THEN Send(ribq, RibRing, DumpMsgs(item.tap, item.fields))
                   ELSE ribq
  BY <1>2, Zenon DEF DumpItem, DumpMsgs
<1>6. CASE item.fields # {} /\ item.tap \in DOMAIN dev
  <2>1. PICK u \in DOMAIN dev : u = item.tap
    BY <1>6
  <2>2. PICK F : F = item.fields
    OBVIOUS
  <2>3. F \in {{"mac"}, {"v4"}, {"v6", "ll"}}
    BY <1>4, <1>6, <2>2 DEF DItem
  <2>4. PICK msgs : msgs = DumpMsgs(u, F)
    OBVIOUS
  <2>5. msgs \in Seq(AddrMsg) /\ Len(msgs) <= 2
    BY <1>1, <2>3, <2>4, DumpMsgsFacts
  <2>6. msgs \in Seq(Msg) /\ Len(ribq) + Len(msgs) <= RibRing
    <3>1. Len(ribq) \in Nat /\ Len(msgs) \in Nat
      BY <1>1, <2>5
    <3>2. Len(ribq) + Len(msgs) <= RibRing
      BY <1>1, <2>5, <3>1
    <3> QED
      BY <2>5, <3>2 DEF Msg, Other
  <2>7. ribq' = Send(ribq, RibRing, msgs)
    BY <1>5, <1>6, <2>1, <2>2, <2>4
  <2>8. ribq' = ribq \o DumpMsgs(u, F)
    BY <1>1, <2>4, <2>6, <2>7, SendsAll
  <2> QED
    BY <1>2, <1>3, <2>1, <2>2, <2>3, <2>8, AddrByItem
<1>7. CASE item.fields = {} \/ item.tap \notin DOMAIN dev
  <2>1. ribq' = ribq \o <<>> /\ <<>> \in Seq(Msg) /\ \A n \in 1 .. Len(<<>>) : FALSE
    BY <1>1, <1>5, <1>7
  <2>2. PosGrows /\ gone \subseteq gone' /\ Known \subseteq Known' /\ dev' = dev
    BY <1>3, <1>4 DEF PosGrows, kernelVars, Known
  <2>3. \A t \in DOMAIN dev', f \in Field : ItemAhead(t, f) => ItemAhead(t, f)'
    BY <1>2, <1>3, <1>7, <2>2, AheadMoves
  <2>4. DevicesOK' /\ \A t \in DOMAIN dev', f \in Field : t \in DOMAIN dev /\ Grows(t, f)
    BY <1>1, <1>3, SameDevices DEF kernelVars
  <2> QED
    BY <2>1, <2>2, <2>3, <2>4, AddrByOthers
<1> QED
  BY <1>6, <1>7

\* An event and the message netlink_thread makes of it change the address in
\* the same way.
LEMMA SameChange ==
  ASSUME KernelTyped, DevicesOK, NEW e \in IfEvent, NEW t \in DOMAIN dev, NEW f, NEW v,
         NEW m, m = IfMsgOf(e.op, e.idx, e.field, e.val)
  PROVE  /\ Change(m, v, Adds(t, f), Dels(t, f), f)
              = Change(e, v, News(dev[t].idx, f), Losses(dev[t].idx, f), f)
         /\ m \in AddrMsg /\ m.name = NameOf(e.idx)
<1>1. e.op \in {"new", "del"} /\ e.field \in Field /\ e.val \in Addr
  BY DEF IfEvent
<1>2. m = [op |-> AddrOp(e.op), name |-> NameOf(e.idx), field |-> e.field, val |-> e.val]
  BY <1>1, IfMsgFacts
<1>3. NameOf(e.idx) \in Tap \cup {NoName}
  BY NameFacts DEF KernelTyped
<1>4. AddrOp(e.op) \in {"addr_add", "addr_del"} /\ (AddrOp(e.op) = "addr_add" <=> e.op = "new")
  BY <1>1 DEF AddrOp
<1>5. /\ m \in AddrMsg /\ m.name = NameOf(e.idx) /\ m.field = e.field /\ m.val = e.val
      /\ m.op = AddrOp(e.op)
  BY <1>1, <1>2, <1>3, <1>4 DEF AddrMsg
<1>6. NameOf(e.idx) = t <=> e.idx = dev[t].idx
  BY NameFacts
<1>7. m \in Adds(t, f) <=> e \in News(dev[t].idx, f)
  BY <1>1, <1>4, <1>5, <1>6 DEF Adds, News
<1>8. m \in Dels(t, f) <=> e \in Losses(dev[t].idx, f)
  BY <1>1, <1>4, <1>5, <1>6 DEF Dels, Losses
<1> QED
  BY <1>5, <1>7, <1>8 DEF Change

LEMMA AddrByReadEvent ==
  ASSUME NetlinkInv, AddrInv, ReadEvent, Len(ribq) + 2 <= RibRing,
         UNCHANGED <<site, kernelVars, rif, clean>>
  PROVE  AddrInv'
<1> DEFINE S == NeighEvent \cup IfEvent
<1>1. /\ KernelTyped /\ RouterTyped /\ DevicesOK /\ ribq \in Seq(Msg) /\ RibRing \in Nat
      /\ events \in Seq(S) /\ DOMAIN dev \subseteq site.tap
  BY RingAssumption DEF NetlinkInv, TablesTyped, AddrInv, KernelTyped, DevicesOK
<1>2. PICK e : e = Head(events)
  OBVIOUS
<1>3. /\ InLoop /\ events # <<>> /\ events' = Tail(events) /\ pos' = pos
      /\ e.of = "neigh" => ribq' = ribq
      /\ e.of # "neigh" => ribq' = Enqueue(ribq, RibRing, IfMsgOf(e.op, e.idx, e.field, e.val))
  BY <1>2, Zenon DEF ReadEvent
<1>4. e \in S
  BY <1>1, <1>2, <1>3
<1>5. UNCHANGED <<dev, gone, Known, lastIdx>> /\ PosGrows
  BY <1>3 DEF kernelVars, Known, PosGrows
<1>6. \A t \in site.tap, f \in Field : ~NotDumped(t) /\ ~ItemAhead(t, f)
  BY <1>1, <1>3, AheadFacts
<1>7. DevicesOK'
  <2>1. /\ Len(events) \in Nat /\ Len(events') = Len(events) - 1
        /\ \A i \in 1 .. Len(events) - 1 : events'[i] = events[i + 1]
    BY <1>1, <1>3, TailElements
  <2>2. \A n \in 1 .. Len(events') : events'[n] \in IfEvent => events'[n].idx <= lastIdx
    <3> SUFFICES ASSUME NEW n \in 1 .. Len(events'), events'[n] \in IfEvent
                 PROVE  events'[n].idx <= lastIdx
      OBVIOUS
    <3>1. n + 1 \in 1 .. Len(events) /\ events'[n] = events[n + 1]
      BY <2>1
    <3> QED
      BY <1>1, <3>1 DEF DevicesOK
  <2> QED
    BY <1>1, <1>5, <2>2 DEF DevicesOK
<1>8. EventsOK'
  <2>1. Dump' = Dump /\ Dump \in Seq(DItem)
    BY <1>1, DumpFacts DEF Dump, DumpOf, DumpNeigh, KernelTyped
  <2>2. pos' = Len(Dump) + 1
    BY <1>3 DEF InLoop
  <2> HIDE DEF Dump
  <2>3. Len(Dump) \in Nat
    BY <2>1
  <2>4. pos' \notin 0 .. Len(Dump')
    BY <2>1, <2>2, <2>3
  <2> QED
    BY <2>4 DEF EventsOK
<1>9. IfsOK'
  BY <1>5 DEF AddrInv, IfsOK
<1>10. PICK s \in Seq(Msg) :
         /\ ribq' = ribq \o s
         /\ \A n \in 1 .. Len(s) : MsgOK(s[n])'
         /\ \A t \in DOMAIN dev, f \in Field : \A y :
              Queued(s, y, Change(e, y, News(dev[t].idx, f), Losses(dev[t].idx, f), f), t, f)
  <2>1. CASE e \in NeighEvent
    <3>1. e.of = "neigh" /\ e \notin IfEvent
      BY <2>1 DEF NeighEvent, IfEvent
    <3>2. /\ <<>> \in Seq(Msg) /\ ribq' = ribq \o <<>> /\ \A n \in 1 .. Len(<<>>) : FALSE
      BY <1>1, <1>3, <3>1
    <3>3. ASSUME NEW t \in DOMAIN dev, NEW f \in Field, NEW y
          PROVE  Queued(<<>>, y, Change(e, y, News(dev[t].idx, f), Losses(dev[t].idx, f), f), t, f)
      <4>1. Change(e, y, News(dev[t].idx, f), Losses(dev[t].idx, f), f) = y
        BY <3>1 DEF Change, News, Losses
      <4> QED
        BY <4>1, LeadsEmpty DEF Queued
    <3> QED
      BY <3>2, <3>3
  <2>2. CASE e \in IfEvent
    <3>1. PICK m : m = IfMsgOf(e.op, e.idx, e.field, e.val)
      OBVIOUS
    <3>2. /\ \A t \in DOMAIN dev : \A f, v :
               Change(m, v, Adds(t, f), Dels(t, f), f)
                 = Change(e, v, News(dev[t].idx, f), Losses(dev[t].idx, f), f)
      BY <1>1, <2>2, <3>1, SameChange
    <3>3. m \in AddrMsg /\ m.name = NameOf(e.idx)
      <4>1. e.op \in {"new", "del"} /\ e.field \in Field /\ e.val \in Addr
        BY <2>2 DEF IfEvent
      <4>2. m = [op |-> AddrOp(e.op), name |-> NameOf(e.idx), field |-> e.field, val |-> e.val]
        BY <1>1, <3>1, <4>1, IfMsgFacts
      <4>3. NameOf(e.idx) \in Tap \cup {NoName} /\ AddrOp(e.op) \in {"addr_add", "addr_del"}
        BY <1>1, NameFacts DEF KernelTyped, AddrOp
      <4> QED
        BY <4>1, <4>2, <4>3 DEF AddrMsg
    <3>4. MsgOK(m)'
      <4>1. m.op # "if_set"
        BY <3>3 DEF AddrMsg
      <4>2. m.name # NoName => m.name \in DOMAIN dev
        BY <1>1, <3>3, NameFacts
      <4>3. m.name # NoName => m.name \in Known' /\ ~NotDumped(m.name)
        BY <1>1, <1>5, <1>6, <4>2 DEF Known, Field
      <4>4. NotDumped(m.name)' => NotDumped(m.name)
        BY <1>1, <1>5, DumpedStays
      <4> QED
        BY <4>1, <4>3, <4>4 DEF MsgOK
    <3>5. e.of # "neigh" /\ Len(ribq) < RibRing /\ m \in Msg
      <4>1. Len(ribq) \in Nat
        BY <1>1
      <4>2. Len(ribq) < RibRing
        BY <1>1, <4>1
      <4> QED
        BY <2>2, <3>3, <4>2 DEF IfEvent, Msg, Other
    <3>6. ribq' = ribq \o <<m>> /\ <<m>> \in Seq(Msg) /\ \A n \in 1 .. Len(<<m>>) : <<m>>[n] = m
      <4>1. ribq' = Append(ribq, m)
        BY <1>3, <3>1, <3>5 DEF Enqueue
      <4> QED
        BY <1>1, <3>5, <4>1
    <3>7. \A n \in 1 .. Len(<<m>>) : MsgOK(<<m>>[n])'
      BY <3>4, <3>6
    <3>8. ASSUME NEW t \in DOMAIN dev, NEW f \in Field, NEW y
          PROVE  Queued(<<m>>, y, Change(e, y, News(dev[t].idx, f), Losses(dev[t].idx, f), f), t, f)
      BY <3>2, LeadsOne DEF Queued
    <3> QED
      BY <3>6, <3>7, <3>8
  <2> QED
    BY <1>4, <2>1, <2>2
<1>11. RibqOK'
  BY <1>1, <1>5, <1>10, RibqGrows DEF AddrInv
<1>12. ASSUME NEW i \in clean, NEW f \in Field, rif[i].tap \in DOMAIN dev \ gone, pos >= 0
       PROVE  FlowTo(rif[i].tap, f, rif[i].addr[f])'
  <2>1. PICK t : t = rif[i].tap
    OBVIOUS
  <2>2. PICK x : x = rif[i].addr[f]
    OBVIOUS
  <2>3. FlowTo(t, f, x) /\ t \in DOMAIN dev /\ ~ItemAhead(t, f)
    BY <1>1, <1>6, <1>12, <2>1, <2>2 DEF AddrInv, FlowOK
  <2>4. t = rif'[i].tap /\ x = rif'[i].addr[f]
    BY <2>1, <2>2
  <2>5. PICK y : /\ Queued(ribq, x, y, t, f)
                 /\ Announced(events, y, dev[t].addr[f], dev[t].idx, f)
    BY <2>3 DEF FlowTo
  <2>6. PICK z : z = Change(e, y, News(dev[t].idx, f), Losses(dev[t].idx, f), f)
    OBVIOUS
  <2>7. Queued(s, y, z, t, f)
    BY <1>10, <2>3, <2>6
  <2>8. Queued(ribq', x, z, t, f)
    BY <1>1, <1>10, <2>5, <2>7, LeadsConcat DEF Queued
  <2>9. Announced(events', z, dev'[t].addr[f], dev'[t].idx, f)
    BY <1>1, <1>2, <1>3, <1>5, <2>5, <2>6, LeadsTail DEF Announced
  <2>10. FlowTo(t, f, x)'
    BY <2>8, <2>9 DEF FlowTo
  <2> QED
    BY <2>4, <2>10 DEF FlowTo, ItemAhead
<1>13. FlowOK'
  BY <1>3, <1>5, <1>12 DEF FlowOK
<1> QED
  BY <1>7, <1>8, <1>9, <1>11, <1>13 DEF AddrInv

LEMMA AddrByThread ==
  ASSUME NetlinkInv, AddrInv, NetlinkThread, Len(ribq) + 2 <= RibRing
  PROVE  AddrInv'
<1>1. KernelTyped /\ RouterTyped /\ DevicesOK /\ ribq \in Seq(Msg)
  BY DEF NetlinkInv, TablesTyped, AddrInv
<1>2. UNCHANGED <<site, kernelVars, rif, clean>>
  BY DEF NetlinkThread
<1>3. CASE DumpItem
  BY <1>2, <1>3, AddrByDumpItem
<1>4. CASE ReadEvent
  BY <1>2, <1>4, AddrByReadEvent
<1>5. CASE DumpRefused
  <2>1. pos' = Blocked /\ UNCHANGED <<events, ribq>>
    BY <1>5 DEF DumpRefused
  <2>2. <<>> \in Seq(Msg) /\ ribq' = ribq \o <<>> /\ \A n \in 1 .. Len(<<>>) : FALSE
    BY <1>1, <2>1
  <2>3. PosGrows /\ (pos' >= 0 => \A t, f : ItemAhead(t, f) => ItemAhead(t, f)')
    BY <1>1, <1>2, <2>1, SameAhead
  <2>4. DevicesOK' /\ \A t \in DOMAIN dev', f \in Field : t \in DOMAIN dev /\ Grows(t, f)
    BY <1>1, <1>2, <2>1, SameDevices DEF kernelVars
  <2>5. gone \subseteq gone' /\ Known \subseteq Known'
    BY <1>2 DEF kernelVars, Known
  <2> QED
    BY <1>2, <2>2, <2>3, <2>4, <2>5, AddrByOthers
<1> QED
  BY <1>3, <1>4, <1>5 DEF NetlinkThread

-----------------------------------------------------------------------------
(* rib_manager's handlers.                                                 *)

\* The interface i was followed before, and the message did to its address
\* what the queue says.
Kept(i, f) ==
  /\ i \in clean /\ rif'[i].tap = rif[i].tap /\ rif[i].tap \in DOMAIN dev
  /\ Grows(rif[i].tap, f)
  /\ rif'[i].addr[f] = Change(Head(ribq), rif[i].addr[f],
                              Adds(rif[i].tap, f), Dels(rif[i].tap, f), f)

LEMMA AddrByTaken ==
  ASSUME NetlinkInv, AddrInv, ribq # <<>>, ribq' = Tail(ribq), UNCHANGED <<site, pos>>,
         DevicesOK', gone' = gone, Known \subseteq Known', EventsOK', IfsOK',
         \A i \in clean', f \in Field :
           pos >= 0 /\ rif'[i].tap \in DOMAIN dev' \ gone =>
             Kept(i, f) \/ FlowTo(rif[i].tap, f, rif[i].addr[f])'
  PROVE  AddrInv'
<1>1. KernelTyped /\ RouterTyped /\ ribq \in Seq(Msg)
  BY DEF NetlinkInv, TablesTyped
<1>2. PosGrows /\ (pos' >= 0 => \A t, f : ItemAhead(t, f) => ItemAhead(t, f)')
  BY <1>1, SameAhead
<1>3. RibqOK'
  BY <1>1, <1>2, RibqShrinks DEF AddrInv
<1>4. ASSUME pos >= 0, NEW i \in clean', NEW f \in Field, rif'[i].tap \in DOMAIN dev' \ gone,
             Kept(i, f)
      PROVE  FlowTo(rif[i].tap, f, rif[i].addr[f])'
  <2>1. PICK t : t = rif[i].tap
    OBVIOUS
  <2>2. PICK x : x = rif[i].addr[f]
    OBVIOUS
  <2>3. PICK v : v = rif'[i].addr[f]
    OBVIOUS
  <2>4. /\ i \in clean /\ t = rif'[i].tap /\ t \in DOMAIN dev \ gone /\ Grows(t, f)
        /\ v = Change(Head(ribq), x, Adds(t, f), Dels(t, f), f)
    BY <1>4, <2>1, <2>2, <2>3 DEF Kept
  <2>5. FlowTo(t, f, x)
    BY <1>4, <2>1, <2>2, <2>4 DEF AddrInv, FlowOK
  <2>6. ItemAhead(t, f) => ItemAhead(t, f)'
    BY <1>2, <1>4
  <2>7. FlowTo(t, f, v)'
    BY <1>1, <2>4, <2>5, <2>6, FlowTaken
  <2> QED
    BY <2>3, <2>4, <2>7 DEF FlowTo, ItemAhead
<1>5. FlowOK'
  BY <1>4 DEF FlowOK
<1> QED
  BY <1>3, <1>5 DEF AddrInv

LEMMA CleanFacts ==
  ASSUME NetlinkInv, AddrInv, NEW i \in clean
  PROVE  /\ i \in Slot /\ rif[i].tap \in Tap /\ rif[i].tap # NoName
         /\ rif[i].extent = NameLen[rif[i].tap]
         /\ \A r \in Slot : rif[r].tap = rif[i].tap => r = i
<1>1. Known \subseteq Tap /\ NoName \notin Tap /\ clean \subseteq Slot
  BY AddrAssumption DEF Known, NetlinkInv, KernelTyped, RouterTyped
<1> QED
  BY <1>1 DEF AddrInv, IfsOK

WithAddr(r, g, v) == [r EXCEPT !.addr[g] = v]

LEMMA SetAddr ==
  ASSUME NEW r \in RouterIf, NEW g \in Field, NEW v, NEW q, q = WithAddr(r, g, v)
  PROVE  /\ q.tap = r.tap /\ q.extent = r.extent
         /\ \A f \in Field : q.addr[f] = IF f = g THEN v ELSE r.addr[f]
<1>1. /\ r.addr \in [Field -> Addr \cup {Zero}]
      /\ r = [tap |-> r.tap, extent |-> r.extent, addr |-> r.addr]
  BY DEF RouterIf
<1>2. PICK ad : ad = [r.addr EXCEPT ![g] = v]
  OBVIOUS
<1>3. q = [tap |-> r.tap, extent |-> r.extent, addr |-> ad]
  BY <1>1, <1>2 DEF WithAddr
<1>4. \A f \in Field : ad[f] = IF f = g THEN v ELSE r.addr[f]
  BY <1>1, <1>2
<1>5. q.tap = r.tap /\ q.extent = r.extent /\ q.addr = ad
  <2>1. PICK z : z = [tap |-> r.tap, extent |-> r.extent, addr |-> ad]
    OBVIOUS
  <2>2. z.tap = r.tap /\ z.extent = r.extent /\ z.addr = ad
    BY <2>1
  <2> QED
    BY <1>3, <2>1, <2>2, Zenon
<1> QED
  BY <1>4, <1>5, Zenon

\* The slots named by the message that are followed: the one interface of
\* that name.
LEMMA NamedFacts ==
  ASSUME NetlinkInv, AddrInv, NEW i \in clean, NEW t, t = rif[i].tap
  PROVE  /\ {s \in Slot : Named(s, t)} = {i} /\ FirstSlot({i}) = {i}
         /\ \A name : name # t => ~Named(i, name)
<1>1. /\ i \in Slot /\ t \in Tap /\ t # NoName /\ rif[i].extent = NameLen[t]
      /\ \A r \in Slot : rif[r].tap = t => r = i
  BY CleanFacts
<1>2. i \in Int
  BY <1>1, SlotAssumption, FS_CardinalityType
<1>3. FirstSlot({i}) = {i}
  BY <1>2 DEF FirstSlot
<1> QED
  BY <1>1, <1>3 DEF Named

LEMMA AddrByAddrMsg ==
  ASSUME NetlinkInv, AddrInv, IfMessage, Head(ribq).op \in {"addr_add", "addr_del"}
  PROVE  AddrInv'
<1>0. /\ KernelTyped /\ RouterTyped /\ DevicesOK /\ EventsOK /\ IfsOK
      /\ rif \in [Slot -> RouterIf]
  BY DEF NetlinkInv, AddrInv, RouterTyped
<1>1. PICK m : m = Head(ribq)
  OBVIOUS
<1>2. /\ ribq # <<>> /\ ribq' = Tail(ribq) /\ ~IsDelta(m) /\ UNCHANGED <<site, pos>>
  BY <1>1 DEF IfMessage
<1>3. m.op \in {"addr_add", "addr_del"} /\ m \in AddrMsg
  <2>1. m \in Msg
    BY <1>1, <1>2 DEF NetlinkInv, TablesTyped
  <2>2. m \in Other
    BY <1>2, <2>1, DeltaFacts
  <2> QED
    BY <1>1, <2>2 DEF Other, IfMsg
<1>4. m.field \in Field
  BY <1>3 DEF AddrMsg
<1>5. /\ m.op = "addr_add" => rif' = AddrAdd(m)
      /\ m.op = "addr_del" => rif' = AddrDel(m)
      /\ UNCHANGED <<clean, kernelVars, events>>
  BY <1>1, <1>3 DEF IfMessage
<1>6. UNCHANGED <<dev, gone, lastIdx, Known>> /\ PosGrows
  BY <1>2, <1>5 DEF kernelVars, Known, PosGrows
<1>7. DevicesOK' /\ \A t \in DOMAIN dev', f \in Field : t \in DOMAIN dev /\ Grows(t, f)
  BY <1>0, <1>2, <1>5, <1>6, SameDevices
<1>8. EventsOK'
  BY <1>0, <1>2, <1>6, <1>7, EventsStayOK
<1> DEFINE Hit(H, v) ==
        /\ \A s \in Slot : rif'[s] = IF s \in H THEN [rif[s] EXCEPT !.addr[m.field] = v] ELSE rif[s]
        /\ \A i \in clean, f \in Field :
             (IF i \in H /\ f = m.field THEN v ELSE rif[i].addr[f])
               = Change(m, rif[i].addr[f], Adds(rif[i].tap, f), Dels(rif[i].tap, f), f)
<1>9. \E H \in SUBSET Slot : \E v : Hit(H, v)
  <2>1. CASE m.op = "addr_add"
    <3> DEFINE H == FirstSlot({s \in Slot : Named(s, m.name)})
    <3>1. \A s \in Slot : rif'[s] = IF s \in H THEN [rif[s] EXCEPT !.addr[m.field] = m.val] ELSE rif[s]
      BY <1>5, <2>1 DEF AddrAdd
    <3>2. H \in SUBSET Slot
      BY DEF FirstSlot
    <3>3. ASSUME NEW i \in clean, NEW f \in Field
          PROVE  (IF i \in H /\ f = m.field THEN m.val ELSE rif[i].addr[f])
                   = Change(m, rif[i].addr[f], Adds(rif[i].tap, f), Dels(rif[i].tap, f), f)
      <4>1. PICK t : t = rif[i].tap
        OBVIOUS
      <4>2. m \notin Dels(t, f) /\ (m \in Adds(t, f) <=> m.name = t /\ f = m.field)
        BY <1>3, <2>1 DEF Adds, Dels
      <4>3. i \in H <=> m.name = t
        <5>1. m.name = t => H = {i}
          BY <4>1, NamedFacts
        <5>2. m.name # t => ~Named(i, m.name)
          BY <4>1, NamedFacts
        <5> QED
          BY <5>1, <5>2 DEF FirstSlot
      <4> HIDE DEF H
      <4> QED
        BY <4>1, <4>2, <4>3 DEF Change
    <3> HIDE DEF H
    <3>4. Hit(H, m.val)
      BY <3>1, <3>3
    <3> HIDE DEF Hit
    <3> QED
      BY <3>2, <3>4
  <2>2. CASE m.op = "addr_del"
    <3> DEFINE named == {s \in Slot : Named(s, m.name)}
               H == IF m.field = "mac"
                    THEN FirstSlot({s \in named : rif[s].addr["mac"] # m.val})
                    ELSE {s \in FirstSlot(named) : rif[s].addr[m.field] = m.val}
    <3>1. \A s \in Slot : rif'[s] = IF s \in H THEN [rif[s] EXCEPT !.addr[m.field] = Zero] ELSE rif[s]
      BY <1>5, <2>2 DEF AddrDel
    <3>2. H \in SUBSET Slot
      BY DEF FirstSlot
    <3>3. ASSUME NEW i \in clean, NEW f \in Field
          PROVE  (IF i \in H /\ f = m.field THEN Zero ELSE rif[i].addr[f])
                   = Change(m, rif[i].addr[f], Adds(rif[i].tap, f), Dels(rif[i].tap, f), f)
      <4>1. PICK t : t = rif[i].tap
        OBVIOUS
      <4>2. m \notin Adds(t, f) /\ (m \in Dels(t, f) <=> m.name = t /\ f = m.field)
        BY <1>3, <2>2 DEF Adds, Dels
      <4>3. i \in H <=> m.name = t /\ (m.val = rif[i].addr[m.field] <=> m.field # "mac")
        <5>1. CASE m.name = t
          <6>1. named = {i} /\ FirstSlot({i}) = {i}
            BY <4>1, <5>1, NamedFacts
          <6> HIDE DEF named
          <6>2. CASE m.field = "mac"
            <7>1. CASE rif[i].addr["mac"] # m.val
              <8>1. {s \in named : rif[s].addr["mac"] # m.val} = {i}
                BY <6>1, <7>1
              <8>2. H = {i}
                BY <6>1, <6>2, <8>1
              <8> QED
                BY <5>1, <6>2, <7>1, <8>2
            <7>2. CASE rif[i].addr["mac"] = m.val
              <8>1. {s \in named : rif[s].addr["mac"] # m.val} = {}
                BY <6>1, <7>2
              <8>2. H = {}
                BY <6>2, <8>1 DEF FirstSlot
              <8> QED
                BY <6>2, <7>2, <8>2
            <7> QED
              BY <7>1, <7>2
          <6>3. CASE m.field # "mac"
            <7>1. H = {s \in {i} : rif[s].addr[m.field] = m.val}
              BY <6>1, <6>3
            <7> QED
              BY <5>1, <6>3, <7>1
          <6> QED
            BY <6>2, <6>3
        <5>2. CASE m.name # t
          <6>1. i \notin named
            BY <4>1, <5>2, NamedFacts
          <6> HIDE DEF named
          <6>2. i \notin H
            BY <6>1 DEF FirstSlot
          <6> QED
            BY <5>2, <6>2
        <5> QED
          BY <5>1, <5>2
      <4> HIDE DEF H
      <4>4. CASE f = m.field
        BY <4>1, <4>2, <4>3, <4>4 DEF Change
      <4>5. CASE f # m.field
        BY <4>1, <4>2, <4>5 DEF Change
      <4> QED
        BY <4>4, <4>5
    <3> HIDE DEF H
    <3>4. Hit(H, Zero)
      BY <3>1, <3>3
    <3> HIDE DEF Hit
    <3> QED
      BY <3>2, <3>4
  <2> QED
    BY <1>3, <2>1, <2>2
<1>10. PICK H, v : H \in SUBSET Slot /\ Hit(H, v)
  <2> HIDE DEF Hit
  <2> QED
    BY <1>9, Zenon
<1>11. ASSUME NEW s \in Slot
       PROVE  /\ rif'[s].tap = rif[s].tap /\ rif'[s].extent = rif[s].extent
              /\ \A f \in Field : rif'[s].addr[f] = IF s \in H /\ f = m.field THEN v ELSE rif[s].addr[f]
  <2>1. rif[s] \in RouterIf
    BY <1>0
  <2>2. CASE s \in H
    <3>1. PICK r : r = rif[s]
      OBVIOUS
    <3>2. PICK g : g = m.field
      OBVIOUS
    <3>3. PICK q : q = WithAddr(r, g, v)
      OBVIOUS
    <3>4. rif'[s] = q /\ r \in RouterIf /\ g \in Field
      BY <1>4, <1>10, <2>1, <2>2, <3>1, <3>2, <3>3 DEF WithAddr
    <3> HIDE DEF Hit
    <3>5. /\ q.tap = r.tap /\ q.extent = r.extent
          /\ \A f \in Field : q.addr[f] = IF f = g THEN v ELSE r.addr[f]
      BY <3>3, <3>4, SetAddr
    <3> QED
      BY <2>2, <3>1, <3>2, <3>4, <3>5
  <2>3. CASE s \notin H
    BY <1>10, <2>3
  <2> QED
    BY <2>2, <2>3
<1>12. clean \subseteq Slot
  BY <1>0 DEF RouterTyped
<1>13. IfsOK'
  BY <1>0, <1>5, <1>6, <1>11, <1>12 DEF IfsOK
<1>14. ASSUME NEW i \in clean, NEW f \in Field, rif'[i].tap \in DOMAIN dev' \ gone
       PROVE  Kept(i, f)
  <2>1. rif'[i].tap = rif[i].tap /\ rif[i].tap \in DOMAIN dev
    BY <1>6, <1>11, <1>12, <1>14
  <2>2. Grows(rif[i].tap, f)
    BY <1>6, <1>7, <2>1
  <2>3. rif'[i].addr[f] = Change(m, rif[i].addr[f], Adds(rif[i].tap, f), Dels(rif[i].tap, f), f)
    BY <1>10, <1>11, <1>12
  <2> QED
    BY <1>1, <2>1, <2>2, <2>3 DEF Kept
<1> QED
  BY <1>2, <1>5, <1>6, <1>7, <1>8, <1>13, <1>14, AddrByTaken

\* A message that is about no address.
LEMMA NoChange ==
  ASSUME NEW m, m \notin AddrMsg
  PROVE  \A x, t, f : Change(m, x, Adds(t, f), Dels(t, f), f) = x
BY DEF Change, Adds, Dels

LEMMA AddrByNoSet ==
  ASSUME NetlinkInv, AddrInv, IfMessage, Head(ribq).op = "if_no_set"
  PROVE  AddrInv'
<1>0. /\ KernelTyped /\ RouterTyped /\ DevicesOK /\ EventsOK /\ IfsOK
      /\ rif \in [Slot -> RouterIf] /\ clean \subseteq Slot
  BY DEF NetlinkInv, AddrInv, RouterTyped
<1>1. PICK m : m = Head(ribq)
  OBVIOUS
<1>2. PICK u : u = m.tap
  OBVIOUS
<1>3. /\ ribq # <<>> /\ ribq' = Tail(ribq) /\ UNCHANGED <<site, pos>>
      /\ rif' = [s \in Slot |-> IF rif[s].tap = u THEN ZeroIf ELSE rif[s]]
      /\ clean' = {s \in clean : rif[s].tap # u}
      /\ UNCHANGED <<kernelVars, events>>
  BY <1>1, <1>2 DEF IfMessage, IfNoSet
<1>4. UNCHANGED <<dev, gone, lastIdx, Known>> /\ PosGrows
  BY <1>3 DEF kernelVars, Known, PosGrows
<1>5. DevicesOK' /\ \A t \in DOMAIN dev', f \in Field : t \in DOMAIN dev /\ Grows(t, f)
  BY <1>0, <1>3, <1>4, SameDevices
<1>6. EventsOK'
  BY <1>0, <1>3, <1>4, <1>5, EventsStayOK
<1>7. \A i \in clean' : i \in clean /\ rif'[i] = rif[i]
  BY <1>0, <1>3
<1>8. \A r \in Slot : rif'[r].tap \in {rif[r].tap, NoName}
  BY <1>3 DEF ZeroIf
<1>9. IfsOK'
  <2> SUFFICES ASSUME NEW i \in clean'
               PROVE  /\ rif'[i].tap \in Known' /\ rif'[i].extent = NameLen[rif'[i].tap]
                      /\ \A r \in Slot : rif'[r].tap = rif'[i].tap => r = i
    BY DEF IfsOK
  <2>1. i \in clean /\ rif'[i] = rif[i]
    BY <1>7
  <2>2. /\ rif[i].tap \in Known /\ rif[i].extent = NameLen[rif[i].tap] /\ rif[i].tap # NoName
        /\ \A r \in Slot : rif[r].tap = rif[i].tap => r = i
    BY <1>0, <2>1, CleanFacts DEF IfsOK
  <2> QED
    BY <1>4, <1>8, <2>1, <2>2
<1>10. m \notin AddrMsg
  BY <1>1 DEF AddrMsg
<1>11. ASSUME NEW i \in clean', NEW f \in Field, rif'[i].tap \in DOMAIN dev' \ gone
       PROVE  Kept(i, f)
  <2>1. i \in clean /\ rif'[i] = rif[i] /\ rif[i].tap \in DOMAIN dev
    BY <1>4, <1>7, <1>11
  <2>2. Grows(rif[i].tap, f)
    BY <1>4, <1>5, <2>1
  <2>3. rif[i].addr[f] = Change(m, rif[i].addr[f], Adds(rif[i].tap, f), Dels(rif[i].tap, f), f)
    BY <1>10, NoChange
  <2> QED
    BY <1>1, <2>1, <2>2, <2>3 DEF Kept
<1> QED
  BY <1>3, <1>4, <1>5, <1>6, <1>9, <1>11, AddrByTaken

\* The devices after ROUTER_IF_SET, which may have created u.
LEMMA SetDevices ==
  ASSUME NetlinkInv, AddrInv, UNCHANGED <<site, pos>>, NEW u \in site.tap,
         IF u \in DOMAIN dev THEN UNCHANGED <<kernelVars, events>>
         ELSE \E a \in site.addr : TapOpen(u, a)
  PROVE  /\ DevicesOK' /\ gone' = gone /\ Known' = Known \cup {u} /\ EventsOK'
         /\ DOMAIN dev' = DOMAIN dev \cup {u}
         /\ \A t \in DOMAIN dev, f \in Field : Grows(t, f)
         /\ u \notin DOMAIN dev =>
              \A f \in Field : Announced(events', Zero, dev'[u].addr[f], dev'[u].idx, f)
<1>0. KernelTyped /\ RouterTyped /\ DevicesOK /\ EventsOK /\ PosGrows
  BY DEF NetlinkInv, AddrInv, PosGrows
<1>1. CASE u \in DOMAIN dev
  <2>1. UNCHANGED <<dev, gone, lastIdx, events>>
    BY <1>1 DEF kernelVars
  <2>2. DevicesOK' /\ \A t \in DOMAIN dev', f \in Field : t \in DOMAIN dev /\ Grows(t, f)
    BY <1>0, <2>1, SameDevices
  <2>3. EventsOK'
    BY <1>0, <2>2, EventsStayOK
  <2> QED
    BY <1>1, <2>1, <2>2, <2>3 DEF Known
<1>2. CASE u \notin DOMAIN dev
  <2>1. PICK a \in site.addr : TapOpen(u, a)
    BY <1>2
  <2>2. /\ DevicesOK' /\ gone' = gone /\ DOMAIN dev' = DOMAIN dev \cup {u}
        /\ \A t \in DOMAIN dev, f \in Field : dev'[t] = dev[t] /\ Grows(t, f)
        /\ \A f \in Field :
             /\ Announced(events', Zero, dev'[u].addr[f], dev'[u].idx, f)
             /\ Consistent(events', dev'[u].addr[f], dev'[u].idx, f)
    BY <1>0, <1>2, <2>1, OpenDevices
  <2>3. EventsOK'
    <3>1. Dump' = Dump
      BY DEF Dump, DumpOf, DumpNeigh
    <3> SUFFICES ASSUME pos' \in 0 .. Len(Dump'), NEW t \in DOMAIN dev', NEW f \in Field
                 PROVE  Consistent(events', dev'[t].addr[f], dev'[t].idx, f)
      BY DEF EventsOK
    <3> HIDE DEF Dump
    <3>2. CASE t = u
      BY <2>2, <3>2
    <3>3. CASE t # u
      <4>1. t \in DOMAIN dev /\ Grows(t, f)
        BY <2>2, <3>3
      <4>2. Consistent(events, dev[t].addr[f], dev[t].idx, f)
        BY <1>0, <3>1, <4>1 DEF EventsOK
      <4> QED
        BY <4>1, <4>2 DEF Grows
    <3> QED
      BY <3>2, <3>3
  <2> QED
    BY <2>2, <2>3 DEF Known
<1> QED
  BY <1>1, <1>2

\* A zeroed slot is given a device whose addresses are still to be announced.
LEMMA NewFlow ==
  ASSUME NetlinkInv, AddrInv, ribq # <<>>, ribq' = Tail(ribq), UNCHANGED <<site, pos>>,
         NEW u \in site.tap, NEW f \in Field, u \notin gone, u \notin DOMAIN dev \/ NotDumped(u),
         u \notin DOMAIN dev => Announced(events', Zero, dev'[u].addr[f], dev'[u].idx, f)
  PROVE  FlowTo(u, f, Zero)'
<1>0. KernelTyped /\ RouterTyped /\ ribq \in Seq(Msg) /\ u \in Tap /\ u # NoName
  BY SiteFacts, AddrAssumption DEF NetlinkInv, TablesTyped, KernelTyped
<1>1. NoneIn(ribq, Adds(u, f) \cup Dels(u, f))
  <2> SUFFICES ASSUME NEW n \in 1 .. Len(ribq), ribq[n] \in Adds(u, f) \cup Dels(u, f)
               PROVE  FALSE
    BY DEF NoneIn
  <2>1. PICK m : m = ribq[n]
    OBVIOUS
  <2>2. MsgOK(m)
    BY <2>1 DEF AddrInv, RibqOK
  <2>3. m \in AddrMsg /\ m.name = u
    BY <2>1 DEF Adds, Dels
  <2> QED
    BY <1>0, <2>2, <2>3 DEF MsgOK, Known
<1>2. NoneIn(ribq', Adds(u, f) \cup Dels(u, f)) /\ Len(ribq') \in Nat
  <2>1. ribq' \in Seq(Msg)
    BY <1>0
  <2> QED
    BY <1>0, <1>1, <2>1, NoneInTail
<1>3. Queued(ribq', Zero, Zero, u, f)
  BY <1>2, LeadsNone DEF Queued
<1>4. u \in DOMAIN dev => ItemAhead(u, f)'
  <2>1. u \in DOMAIN dev => ItemAhead(u, f)
    BY <1>0, AheadFacts
  <2> QED
    BY <2>1 DEF ItemAhead, Dump, DumpOf, DumpNeigh
<1> QED
  BY <1>3, <1>4 DEF FlowTo

LEMMA ZeroRenamed ==
  ASSUME NEW u \in Tap
  PROVE  /\ Renamed(ZeroIf, u).tap = u /\ Renamed(ZeroIf, u).extent = NameLen[u]
         /\ \A f \in Field : Renamed(ZeroIf, u).addr[f] = Zero
<1>1. NameLen[u] \in 1 .. 15
  BY NameAssumption
<1>2. ~(0 > NameLen[u] + 1)
  BY <1>1
<1> QED
  BY <1>2 DEF Renamed, ZeroIf

LEMMA AddrBySet ==
  ASSUME NetlinkInv, AddrInv, IfMessage, Head(ribq).op = "if_set"
  PROVE  AddrInv'
<1>0. /\ KernelTyped /\ RouterTyped /\ DevicesOK /\ EventsOK /\ IfsOK /\ ribq \in Seq(Msg)
      /\ rif \in [Slot -> RouterIf] /\ clean \subseteq Slot
  BY DEF NetlinkInv, AddrInv, RouterTyped, TablesTyped
<1>1. PICK m : m = Head(ribq)
  OBVIOUS
<1>2. PICK u : u = m.tap
  OBVIOUS
<1>3. PICK s : s = m.slot
  OBVIOUS
<1>4. ribq # <<>> /\ ribq' = Tail(ribq) /\ UNCHANGED <<site, pos>> /\ ~IsDelta(m)
  BY <1>1 DEF IfMessage
<1>5. u \in site.tap /\ u \in Tap /\ u # NoName /\ s \in Slot /\ m \notin AddrMsg
  <2>1. Len(ribq) >= 1 /\ Len(ribq) \in Nat /\ m = ribq[1]
    BY <1>0, <1>1, <1>4, TailElements
  <2>2. m \in Msg
    BY <1>0, <2>1
  <2>3. MsgOK(m)
    BY <2>1 DEF AddrInv, RibqOK
  <2>4. m \in Other
    BY <1>4, <2>2, DeltaFacts
  <2>5. s \in Slot /\ m \notin AddrMsg
    BY <1>1, <1>3, <2>4 DEF Other, IfMsg, AddrMsg
  <2>6. site.tap \subseteq Tap
    BY <1>0, SiteFacts DEF KernelTyped
  <2> QED
    BY <1>1, <1>2, <2>3, <2>5, <2>6, AddrAssumption DEF MsgOK
<1>6. PICK pass \in BOOLEAN : IfSet(s, u, pass)
  BY <1>1, <1>2, <1>3 DEF IfMessage
<1> DEFINE same == {r \in Slot : rif[r].tap = u}
           fresh == rif[s] = ZeroIf /\ same = {} /\ (u \notin DOMAIN dev \/ NotDumped(u))
<1>7. /\ ~pass => clean' = clean /\ rif' = rif
      /\ pass /\ fresh => clean' = clean \cup {s}
      /\ pass /\ ~fresh => clean' = clean \ (same \cup {s})
      /\ pass => rif' = [rif EXCEPT ![s] = Renamed(@, u)]
      /\ IF u \in DOMAIN dev THEN UNCHANGED <<kernelVars, events>>
         ELSE \E a \in site.addr : TapOpen(u, a)
  BY <1>6, Zenon DEF IfSet
<1>8. /\ DevicesOK' /\ gone' = gone /\ Known' = Known \cup {u} /\ EventsOK'
      /\ DOMAIN dev' = DOMAIN dev \cup {u}
      /\ \A t \in DOMAIN dev, f \in Field : Grows(t, f)
      /\ u \notin DOMAIN dev =>
           \A f \in Field : Announced(events', Zero, dev'[u].addr[f], dev'[u].idx, f)
  BY <1>4, <1>5, <1>7, SetDevices
<1>9. ASSUME NEW i \in clean, NEW f \in Field, rif'[i] = rif[i], rif'[i].tap \in DOMAIN dev' \ gone
      PROVE  Kept(i, f)
  <2>1. rif[i].tap \in DOMAIN dev
    BY <1>0, <1>8, <1>9 DEF IfsOK, Known
  <2>2. rif[i].addr[f] = Change(m, rif[i].addr[f], Adds(rif[i].tap, f), Dels(rif[i].tap, f), f)
    BY <1>5, NoChange
  <2> QED
    BY <1>1, <1>8, <1>9, <2>1, <2>2 DEF Kept
<1>10. CASE ~pass
  <2>1. IfsOK'
    BY <1>0, <1>7, <1>8, <1>10 DEF IfsOK
  <2>2. \A i \in clean', f \in Field : rif'[i].tap \in DOMAIN dev' \ gone => Kept(i, f)
    BY <1>7, <1>9, <1>10
  <2> QED
    BY <1>4, <1>8, <2>1, <2>2, AddrByTaken
<1>11. CASE pass /\ ~fresh
  <2>1. clean' = clean \ (same \cup {s})
    BY <1>7, <1>11
  <2>2. PICK new : new = Renamed(rif[s], u)
    OBVIOUS
  <2>3. /\ \A r \in Slot : rif'[r] = IF r = s THEN new ELSE rif[r]
        /\ new.tap = u
    BY <1>0, <1>7, <1>11, <2>2 DEF Renamed
  <2>4. \A i \in clean' : i \in clean /\ i \in Slot /\ i # s /\ rif[i].tap # u /\ rif'[i] = rif[i]
    BY <1>0, <2>1, <2>3
  <2> HIDE DEF same, fresh
  <2>5. IfsOK'
    <3> SUFFICES ASSUME NEW i \in clean'
                 PROVE  /\ rif'[i].tap \in Known' /\ rif'[i].extent = NameLen[rif'[i].tap]
                        /\ \A r \in Slot : rif'[r].tap = rif'[i].tap => r = i
      BY DEF IfsOK
    <3>1. i \in clean /\ i # s /\ rif[i].tap # u /\ rif'[i] = rif[i]
      BY <2>4
    <3>2. /\ rif[i].tap \in Known /\ rif[i].extent = NameLen[rif[i].tap]
          /\ \A r \in Slot : rif[r].tap = rif[i].tap => r = i
      BY <1>0, <3>1 DEF IfsOK
    <3> QED
      BY <1>8, <2>3, <3>1, <3>2
  <2>6. \A i \in clean', f \in Field : rif'[i].tap \in DOMAIN dev' \ gone => Kept(i, f)
    BY <1>9, <2>4
  <2> QED
    BY <1>4, <1>8, <2>5, <2>6, AddrByTaken
<1>12. CASE pass /\ fresh
  <2>1. clean' = clean \cup {s} /\ rif[s] = ZeroIf /\ (u \notin DOMAIN dev \/ NotDumped(u))
    BY <1>7, <1>12
  <2>2. PICK new : new = Renamed(ZeroIf, u)
    OBVIOUS
  <2>3. new.tap = u /\ new.extent = NameLen[u] /\ \A f \in Field : new.addr[f] = Zero
    BY <1>5, <2>2, ZeroRenamed
  <2>4. \A r \in Slot : rif'[r] = IF r = s THEN new ELSE rif[r]
    BY <1>0, <1>7, <1>12, <2>1, <2>2
  <2>5. \A r \in Slot : rif[r].tap # u
    BY <1>12
  <2>6. s \notin clean
    <3>1. rif[s].tap = NoName
      BY <2>1 DEF ZeroIf
    <3> QED
      BY <3>1, CleanFacts
  <2> HIDE DEF same, fresh
  <2>7. \A i \in clean : i \in Slot /\ i # s /\ rif'[i] = rif[i]
    BY <1>0, <2>4, <2>6
  <2>8. rif'[s] = new
    BY <1>5, <2>4
  <2>9. IfsOK'
    <3> SUFFICES ASSUME NEW i \in clean'
                 PROVE  /\ rif'[i].tap \in Known' /\ rif'[i].extent = NameLen[rif'[i].tap]
                        /\ \A r \in Slot : rif'[r].tap = rif'[i].tap => r = i
      BY DEF IfsOK
    <3>1. CASE i = s
      BY <1>8, <2>3, <2>4, <2>5, <2>8, <3>1
    <3>2. CASE i # s
      <4>1. i \in clean /\ i \in Slot /\ rif'[i] = rif[i]
        BY <2>1, <2>7, <3>2
      <4>2. /\ rif[i].tap \in Known /\ rif[i].extent = NameLen[rif[i].tap]
            /\ \A r \in Slot : rif[r].tap = rif[i].tap => r = i
        BY <1>0, <4>1 DEF IfsOK
      <4>3. rif[i].tap # u
        BY <2>5, <4>1
      <4> QED
        BY <1>8, <2>3, <2>4, <4>1, <4>2, <4>3
    <3> QED
      BY <3>1, <3>2
  <2>10. ASSUME NEW f \in Field, rif'[s].tap \notin gone
         PROVE  FlowTo(rif[s].tap, f, rif[s].addr[f])'
    <3>1. u \notin gone
      BY <2>3, <2>8, <2>10
    <3>2. FlowTo(u, f, Zero)'
      BY <1>4, <1>5, <1>8, <2>1, <3>1, NewFlow
    <3>3. rif'[s].tap = u /\ rif'[s].addr[f] = Zero
      BY <2>3, <2>8
    <3> QED
      BY <3>2, <3>3 DEF FlowTo, ItemAhead
  <2>11. ASSUME NEW i \in clean', NEW f \in Field, rif'[i].tap \in DOMAIN dev' \ gone
         PROVE  Kept(i, f) \/ FlowTo(rif[i].tap, f, rif[i].addr[f])'
    <3>1. CASE i = s
      BY <2>10, <2>11, <3>1
    <3>2. CASE i # s
      BY <1>9, <2>1, <2>7, <2>11, <3>2
    <3> QED
      BY <3>1, <3>2
  <2> QED
    BY <1>4, <1>8, <2>9, <2>11, AddrByTaken
<1> QED
  BY <1>10, <1>11, <1>12

LEMMA AddrByIfMessage ==
  ASSUME NetlinkInv, AddrInv, IfMessage
  PROVE  AddrInv'
<1>1. PICK m : m = Head(ribq)
  OBVIOUS
<1>2. ribq # <<>> /\ ~IsDelta(m) /\ ribq \in Seq(Msg)
  BY <1>1 DEF IfMessage, NetlinkInv, TablesTyped
<1>3. m \in Msg
  BY <1>1, <1>2
<1>4. m \in Other
  BY <1>2, <1>3, DeltaFacts
<1>5. m.op \in {"addr_add", "addr_del", "if_set", "if_no_set"}
  BY <1>4 DEF Other, AddrMsg, IfMsg
<1> QED
  BY <1>1, <1>5, AddrByAddrMsg, AddrBySet, AddrByNoSet

LEMMA InitAddr == Init => AddrInv
<1> SUFFICES ASSUME Init PROVE AddrInv
  OBVIOUS
<1>1. /\ site \in Site /\ dev = site.dev /\ lastIdx = Cardinality(DOMAIN dev)
      /\ events = <<>> /\ ribq = <<>> /\ clean = {}
  BY DEF Init, NeighInit
<1>2. Len(<<>>) = 0 /\ \A n : n \notin 1 .. 0
  OBVIOUS
<1>3. DevicesOK
  BY <1>1, <1>2, SiteFacts DEF DevicesOK
<1>4. RibqOK
  BY <1>1, <1>2 DEF RibqOK
<1>5. EventsOK
  <2>1. \A c, i, f : Consistent(<<>>, c, i, f)
    BY LeadsEmpty DEF Consistent, Announced
  <2> QED
    BY <1>1, <2>1 DEF EventsOK
<1> QED
  BY <1>1, <1>3, <1>4, <1>5 DEF AddrInv, IfsOK, FlowOK

AddrRoomNow == NetlinkThread => Len(ribq) + 2 <= RibRing

LEMMA NextAddr ==
  ASSUME NetlinkInv, AddrInv, [Next]_vars, [AddrRoomNow]_vars
  PROVE  AddrInv'
<1>1. CASE UNCHANGED vars
  <2>1. KernelTyped /\ RouterTyped /\ DevicesOK /\ ribq \in Seq(Msg)
    BY DEF NetlinkInv, TablesTyped, AddrInv
  <2>2. UNCHANGED <<site, dev, lastIdx, gone, events, pos, rif, clean, ribq, Known>>
    BY <1>1 DEF vars, kernelVars, neighVars, Known
  <2>3. <<>> \in Seq(Msg) /\ ribq' = ribq \o <<>> /\ \A n \in 1 .. Len(<<>>) : FALSE
    BY <2>1, <2>2
  <2>4. PosGrows /\ (pos' >= 0 => \A t, f : ItemAhead(t, f) => ItemAhead(t, f)')
    BY <2>1, <2>2, SameAhead
  <2>5. DevicesOK' /\ \A t \in DOMAIN dev', f \in Field : t \in DOMAIN dev /\ Grows(t, f)
    BY <2>1, <2>2, SameDevices
  <2> QED
    BY <2>2, <2>3, <2>4, <2>5, AddrByOthers
<1>2. CASE Next /\ AddrRoomNow
  BY <1>2, AddrByKernel, AddrByThread, AddrByCommand, AddrByIfMessage, AddrByNeigh
     DEF Next, AddrRoomNow
<1> QED
  BY <1>1, <1>2

LEMMA SettledFollow ==
  ASSUME NetlinkInv, AddrInv
  PROVE  AddressesFollow
<1> SUFFICES ASSUME Settled, NEW s \in Slot, Followed(s)
             PROVE  rif[s].addr = dev[rif[s].tap].addr
  BY DEF AddressesFollow
<1>1. PICK t : t = rif[s].tap
  OBVIOUS
<1>2. s \in clean /\ t \in DOMAIN dev \ gone /\ KernelTyped /\ RouterTyped
  BY <1>1 DEF Followed, NetlinkInv
<1>3. InLoop /\ events = <<>> /\ ribq = <<>>
  BY DEF Settled
<1>4. pos >= 0
  <2>1. Dump \in Seq(DItem) /\ pos = Len(Dump) + 1
    BY <1>2, <1>3, DumpFacts DEF KernelTyped, InLoop
  <2> HIDE DEF Dump
  <2>2. Len(Dump) \in Nat
    BY <2>1
  <2> QED
    BY <2>1, <2>2
<1>5. ASSUME NEW f \in Field PROVE rif[s].addr[f] = dev[t].addr[f]
  <2>1. ~ItemAhead(t, f)
    BY <1>2, <1>3, AheadFacts DEF AddrInv, DevicesOK
  <2>2. FlowTo(t, f, rif[s].addr[f])
    BY <1>1, <1>2, <1>4 DEF AddrInv, FlowOK
  <2>3. PICK y : /\ Queued(<<>>, rif[s].addr[f], y, t, f)
                 /\ Announced(<<>>, y, dev[t].addr[f], dev[t].idx, f)
    BY <1>3, <2>1, <2>2 DEF FlowTo
  <2> QED
    BY <2>3, LeadsEmpty DEF Queued, Announced
<1>6. rif[s].addr \in [Field -> Addr \cup {Zero}]
  BY <1>2 DEF RouterTyped, RouterIf
<1>7. dev[t].addr \in [Field -> Addr \cup {Zero}]
  BY <1>2, DeviceFacts
<1> QED
  BY <1>1, <1>5, <1>6, <1>7

\* With nothing under way a router interface has the addresses of its device,
\* for any number of devices, interfaces and changes, and wherever in the dump
\* the changes fell: if msg_queue_rib had room for what netlink_thread sent.
THEOREM AddressesAreFollowed == Spec /\ AddrRoom => []AddressesFollow
<1>1. Init => AddrInv
  BY InitAddr
<1>2. NetlinkInv /\ AddrInv /\ [Next]_vars /\ [AddrRoomNow]_vars => AddrInv'
  BY NextAddr
<1>3. AddrRoom <=> [][AddrRoomNow]_vars
  BY DEF AddrRoom, AddrRoomNow
<1>4. NetlinkInv /\ AddrInv => AddressesFollow
  BY SettledFollow
<1> QED
  BY <1>1, <1>2, <1>3, <1>4, InvHolds, PTL DEF Spec
=============================================================================
