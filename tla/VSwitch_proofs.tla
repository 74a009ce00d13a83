--------------------------- MODULE VSwitch_proofs ---------------------------
(***************************************************************************)
(* Theorems about VSwitch: for any number of vswitches, links, ports,      *)
(* tags and taps, workers find the live vswitch, floods stay inside it,    *)
(* no handler follows a NULL vswitch, and while nothing is deleted frames  *)
(* are accepted as configured; deletions leave the other links alone.      *)
(***************************************************************************)
EXTENDS VSwitch, Induction_proofs, SequenceTheorems

-----------------------------------------------------------------------------
(* Sets, sequences and ribs.                                               *)

LEMMA MinFacts ==
  ASSUME NEW S \in SUBSET Nat, S # {}
  PROVE  Min(S) \in S /\ \A y \in S : Min(S) <= y
<1>1. \E x \in S : \A y \in S : x <= y
  BY LeastNat
<1>2. \E x : x \in S /\ \A y \in S : x <= y
  BY <1>1, Zenon
<1> QED
  BY <1>2, Zenon DEF Min

LEMMA FirstInFacts ==
  ASSUME NEW S \in SUBSET (Nat \ {0})
  PROVE  /\ FirstIn(S) = 0 <=> S = {}
         /\ FirstIn(S) # 0 => /\ FirstIn(S) \in S
                              /\ \A y \in S : FirstIn(S) <= y
<1>1. CASE S = {}
  BY <1>1 DEF FirstIn
<1>2. CASE S # {}
  <2>1. S \in SUBSET Nat
    OBVIOUS
  <2>2. Min(S) \in S /\ \A y \in S : Min(S) <= y
    BY <1>2, <2>1, MinFacts
  <2>3. FirstIn(S) = Min(S)
    BY <1>2 DEF FirstIn
  <2> QED
    BY <1>2, <2>2, <2>3
<1> QED
  BY <1>1, <1>2

LEMMA SameLength ==
  ASSUME NEW X, NEW seq \in Seq(X), NEW q \in [DOMAIN seq -> X]
  PROVE  q \in Seq(X) /\ Len(q) = Len(seq) /\ DOMAIN q = DOMAIN seq
<1>1. Len(seq) \in Nat /\ DOMAIN seq = 1 .. Len(seq)
  OBVIOUS
<1>2. q \in [1 .. Len(seq) -> X]
  BY <1>1
<1>3. q \in Seq(X)
  BY <1>1, <1>2
<1>4. DOMAIN q = 1 .. Len(seq)
  BY <1>2
<1> QED
  BY <1>1, <1>3, <1>4

LEMMA AppendedFacts ==
  ASSUME NEW X, NEW seq \in Seq(X), NEW x \in X
  PROVE  /\ Append(seq, x) \in Seq(X)
         /\ Len(seq) \in Nat
         /\ DOMAIN Append(seq, x) = DOMAIN seq \cup {Len(seq) + 1}
         /\ Len(Append(seq, x)) = Len(seq) + 1
         /\ Append(seq, x)[Len(seq) + 1] = x
         /\ \A j \in DOMAIN seq : Append(seq, x)[j] = seq[j]
<1>1. Len(seq) \in Nat /\ DOMAIN seq = 1 .. Len(seq)
  OBVIOUS
<1>2. Append(seq, x) \in Seq(X) /\ Len(Append(seq, x)) = Len(seq) + 1
  OBVIOUS
<1>3. DOMAIN Append(seq, x) = 1 .. (Len(seq) + 1)
  BY <1>1, <1>2
<1>4. DOMAIN Append(seq, x) = DOMAIN seq \cup {Len(seq) + 1}
  BY <1>1, <1>3
<1> QED
  BY <1>1, <1>2, <1>4

\* RemoveFirst takes one occurrence out, the only one of a sequence that
\* has no element twice.
LEMMA RemoveFirstFacts ==
  ASSUME NEW X, NEW seq \in Seq(X), NEW e
  PROVE  /\ RemoveFirst(seq, e) \in Seq(X)
         /\ \A j \in DOMAIN seq : seq[j] # e =>
              \E i \in DOMAIN RemoveFirst(seq, e) :
                RemoveFirst(seq, e)[i] = seq[j]
         /\ IsInjective(seq) =>
              /\ IsInjective(RemoveFirst(seq, e))
              /\ \A i \in DOMAIN RemoveFirst(seq, e) :
                   /\ RemoveFirst(seq, e)[i] # e
                   /\ \E j \in DOMAIN seq : RemoveFirst(seq, e)[i] = seq[j]
<1> DEFINE I == {i \in 1 .. Len(seq) : seq[i] = e}
           m == Min(I)
           a == SubSeq(seq, 1, m - 1)
           b == SubSeq(seq, m + 1, Len(seq))
           q == a \o b
<1>0. Len(seq) \in Nat /\ DOMAIN seq = 1 .. Len(seq)
  OBVIOUS
<1>1. CASE I = {}
  <2>1. RemoveFirst(seq, e) = seq
    BY <1>1 DEF RemoveFirst
  <2>2. \A j \in DOMAIN seq : seq[j] # e
    BY <1>0, <1>1
  <2> QED
    BY <2>1, <2>2
<1>2. CASE I # {}
  <2>1. m \in I
    <3>1. I \in SUBSET Nat
      OBVIOUS
    <3> HIDE DEF I
    <3> QED
      BY <1>2, <3>1, MinFacts
  <2>2. RemoveFirst(seq, e) = q
    BY <1>2 DEF RemoveFirst, SelectInSeq, RemoveAt
  <2>3. m \in 1 .. Len(seq) /\ seq[m] = e
    BY <2>1
  <2> HIDE DEF m
  <2>4. /\ a \in Seq(X) /\ Len(a) = m - 1
        /\ b \in Seq(X) /\ Len(b) = Len(seq) - m
        /\ \A i \in 1 .. (m - 1) : a[i] = seq[i]
        /\ \A i \in 1 .. (Len(seq) - m) : b[i] = seq[m + i]
    <3>1. a \in Seq(X) /\ b \in Seq(X)
      BY <1>0, <2>3, SubSeqProperties
    <3>2. Len(a) = m - 1
      <4>1. \A i \in 1 .. (m - 1) : seq[i] \in X
        BY <1>0, <2>3
      <4>2. 1 \in Int /\ m - 1 \in Int
        BY <2>3
      <4>3. Len(a) = IF 1 <= m - 1 THEN (m - 1) - 1 + 1 ELSE 0
        BY <4>1, <4>2, SubSeqProperties
      <4> HIDE DEF a
      <4> QED
        BY <1>0, <2>3, <4>3
    <3>3. Len(b) = Len(seq) - m
      <4>1. \A i \in (m + 1) .. Len(seq) : seq[i] \in X
        BY <1>0, <2>3
      <4>2. m + 1 \in Int /\ Len(seq) \in Int
        BY <1>0, <2>3
      <4>3. Len(b) = IF m + 1 <= Len(seq) THEN Len(seq) - (m + 1) + 1 ELSE 0
        BY <4>1, <4>2, SubSeqProperties
      <4>4. \A n \in Nat : \A k \in 1 .. n :
              (IF k + 1 <= n THEN n - (k + 1) + 1 ELSE 0) = n - k
        OBVIOUS
      <4>5. Len(seq) \in Nat /\ m \in 1 .. Len(seq)
        BY <1>0, <2>3
      <4> HIDE DEF b
      <4> QED
        BY <4>3, <4>4, <4>5
    <3>4. \A i \in 1 .. (m - 1) : a[i] = seq[i]
      BY <1>0, <2>3
    <3>5. \A i \in 1 .. (Len(seq) - m) : b[i] = seq[m + i]
      BY <1>0, <2>3
    <3> QED
      BY <3>1, <3>2, <3>3, <3>4, <3>5
  <2> HIDE DEF a, b
  <2>5. q \in Seq(X) /\ Len(q) = Len(seq) - 1
    <3>1. q \in Seq(X) /\ Len(q) = Len(a) + Len(b)
      BY <2>4
    <3>2. (m - 1) + (Len(seq) - m) = Len(seq) - 1
      BY <1>0, <2>3
    <3> QED
      BY <2>4, <3>1, <3>2
  <2>6. DOMAIN q = 1 .. (Len(seq) - 1)
    <3> HIDE DEF q
    <3> QED
      BY <2>5
  <2>7. \A i \in 1 .. (Len(seq) - 1) :
          q[i] = IF i < m THEN seq[i] ELSE seq[i + 1]
    <3> SUFFICES ASSUME NEW i \in 1 .. (Len(seq) - 1)
                 PROVE  q[i] = IF i < m THEN seq[i] ELSE seq[i + 1]
      OBVIOUS
    <3>1. CASE i < m
      BY <1>0, <2>3, <2>4, <3>1
    <3>2. CASE ~(i < m)
      <4>1. i - (m - 1) \in 1 .. (Len(seq) - m) /\ m + (i - (m - 1)) = i + 1
        BY <1>0, <2>3, <3>2
      <4>2. q[i] = b[i - (m - 1)]
        BY <1>0, <2>3, <2>4, <3>2
      <4> QED
        BY <2>4, <3>2, <4>1, <4>2
    <3> QED
      BY <3>1, <3>2
  <2> HIDE DEF q
  <2>8. ASSUME NEW j \in DOMAIN seq, seq[j] # e
        PROVE  \E i \in DOMAIN q : q[i] = seq[j]
    <3>1. CASE j < m
      <4>1. j \in 1 .. (Len(seq) - 1)
        BY <1>0, <2>3, <3>1
      <4> QED
        BY <2>6, <2>7, <3>1, <4>1
    <3>2. CASE ~(j < m)
      <4>1. j # m
        BY <2>3, <2>8
      <4>2. j - 1 \in 1 .. (Len(seq) - 1) /\ ~(j - 1 < m) /\ (j - 1) + 1 = j
        BY <1>0, <2>3, <3>2, <4>1
      <4> QED
        BY <2>6, <2>7, <4>2
    <3> QED
      BY <3>1, <3>2
  <2>9. ASSUME IsInjective(seq)
        PROVE  /\ IsInjective(q)
               /\ \A i \in DOMAIN q :
                    q[i] # e /\ \E j \in DOMAIN seq : q[i] = seq[j]
    <3>0. \A k, n \in 1 .. Len(seq) : seq[k] = seq[n] => k = n
      BY <1>0, <2>9 DEF IsInjective
    <3>1. \A k, n \in 1 .. (Len(seq) - 1) : q[k] = q[n] => k = n
      BY <1>0, <2>3, <2>7, <3>0
    <3>2. \A i \in 1 .. (Len(seq) - 1) :
            q[i] # e /\ \E j \in DOMAIN seq : q[i] = seq[j]
      BY <1>0, <2>3, <2>7, <3>0
    <3>3. IsInjective(q)
      BY <2>6, <3>1 DEF IsInjective
    <3> QED
      BY <2>6, <3>2, <3>3
  <2> QED
    BY <2>2, <2>5, <2>8, <2>9
<1> QED
  BY <1>1, <1>2

-----------------------------------------------------------------------------
(* Lookups and vswitches.                                                  *)

Good(r) == site \in Site /\ Sized(r) /\ Unique(r) /\ Listed(r) /\ Closed(r)

LEMMA RibFacts ==
  ASSUME NEW r \in Rib
  PROVE  /\ r.vs \in Seq(VswitchConf) /\ DOMAIN r.vs = 1 .. Len(r.vs)
         /\ Len(r.vs) \in Nat
         /\ \A i \in DOMAIN r.vs : r.vs[i] \in VswitchConf
         /\ r.link \in Seq(Link) /\ DOMAIN r.link = 1 .. Len(r.link)
         /\ Len(r.link) \in Nat
         /\ \A l \in DOMAIN r.link : r.link[l] \in Link
         /\ r.port \in [Port -> PortConf]
<1>1. /\ r.vs \in Seq(VswitchConf) /\ r.link \in Seq(Link)
      /\ r.port \in [Port -> PortConf]
  BY DEF Rib
<1>2. /\ DOMAIN r.vs = 1 .. Len(r.vs) /\ Len(r.vs) \in Nat
      /\ \A i \in DOMAIN r.vs : r.vs[i] \in VswitchConf
  BY <1>1
<1>3. /\ DOMAIN r.link = 1 .. Len(r.link) /\ Len(r.link) \in Nat
      /\ \A l \in DOMAIN r.link : r.link[l] \in Link
  BY <1>1
<1> QED
  BY <1>1, <1>2, <1>3

LEMMA LookupFacts ==
  ASSUME NEW r \in Rib, NEW id
  PROVE  /\ VswitchLookup(r, id) = 0 =>
              \A i \in DOMAIN r.vs : r.vs[i].deleted \/ r.vs[i].id # id
         /\ VswitchLookup(r, id) # 0 =>
              /\ VswitchLookup(r, id) \in DOMAIN r.vs
              /\ ~r.vs[VswitchLookup(r, id)].deleted
              /\ r.vs[VswitchLookup(r, id)].id = id
         /\ VswitchLookup(r, id) \in Nat
<1> DEFINE S == {s \in DOMAIN r.vs : r.vs[s].id = id /\ ~r.vs[s].deleted}
<1>1. S \in SUBSET (Nat \ {0})
  BY RibFacts
<1>2. VswitchLookup(r, id) = FirstIn(S)
  BY DEF VswitchLookup
<1>3. /\ FirstIn(S) = 0 <=> S = {}
      /\ FirstIn(S) # 0 => FirstIn(S) \in S
  <2> HIDE DEF S
  <2> QED
    BY <1>1, FirstInFacts
<1>4. FirstIn(S) \in Nat
  <2> HIDE DEF S
  <2>1. CASE FirstIn(S) = 0
    BY <2>1
  <2>2. CASE FirstIn(S) # 0
    BY <1>1, <1>3, <2>2
  <2> QED
    BY <2>1, <2>2
<1> QED
  BY <1>2, <1>3, <1>4

\* A live vswitch is found by its id.
LEMMA LookupLive ==
  ASSUME NEW r \in Rib, Unique(r), NEW s \in DOMAIN r.vs, ~r.vs[s].deleted
  PROVE  VswitchLookup(r, r.vs[s].id) = s
<1> DEFINE t == VswitchLookup(r, r.vs[s].id)
<1>1. /\ t = 0 => \A i \in DOMAIN r.vs : r.vs[i].deleted \/ r.vs[i].id # r.vs[s].id
      /\ t # 0 => t \in DOMAIN r.vs /\ ~r.vs[t].deleted /\ r.vs[t].id = r.vs[s].id
  BY LookupFacts
<1> HIDE DEF t
<1>2. t \in DOMAIN r.vs /\ ~r.vs[t].deleted /\ r.vs[t].id = r.vs[s].id
  BY <1>1
<1>3. DOMAIN r.vs = 1 .. Len(r.vs) /\ Len(r.vs) \in Nat
  BY RibFacts
<1>4. ~(t < s) /\ ~(s < t)
  <2>1. t < s => t \in 1 .. s - 1
    BY <1>2, <1>3
  <2>2. s < t => s \in 1 .. t - 1
    BY <1>2, <1>3
  <2> QED
    BY <1>2, <2>1, <2>2 DEF Unique
<1>5. t = s
  BY <1>2, <1>3, <1>4
<1> QED
  BY <1>5 DEF t

LEMMA FreshFacts ==
  ASSUME NEW id \in VswitchId, NEW vlan \in Vlan
  PROVE  /\ Fresh(id, vlan) \in VswitchConf
         /\ Fresh(id, vlan).id = id /\ ~Fresh(id, vlan).deleted
         /\ Fresh(id, vlan).links = <<>>
         /\ \A k \in IfKind : Fresh(id, vlan).ifs[k] = NoIf
<1>1. NoIf \in TapIf
  BY SizeAssumption DEF NoIf, TapIf
<1>2. [k \in IfKind |-> NoIf] \in [IfKind -> TapIf]
  BY <1>1
<1>3. <<>> \in Seq(1 .. MaxLink)
  OBVIOUS
<1> QED
  BY <1>2, <1>3 DEF Fresh, VswitchConf

\* vswitch_new either finds no slot, or fills the first that is not in use.
LEMMA NewShape ==
  ASSUME NEW r, Sized(r), NEW id \in VswitchId, NEW vlan \in Vlan
  PROVE  LET q == VswitchNew(r, id, vlan) IN
         \/ q = r
         \/ /\ Sized(q) /\ q.link = r.link /\ q.port = r.port
            /\ \E d \in DOMAIN q.vs :
                 /\ q.vs[d] = Fresh(id, vlan)
                 /\ DOMAIN q.vs = DOMAIN r.vs \cup {d}
                 /\ d \in DOMAIN r.vs => r.vs[d].deleted
                 /\ \A i \in DOMAIN r.vs : i # d => q.vs[i] = r.vs[i]
                 /\ \A i \in 1 .. d - 1 : i \in DOMAIN r.vs /\ ~r.vs[i].deleted
<1> DEFINE dead == {s \in DOMAIN r.vs : r.vs[s].deleted}
           x == Fresh(id, vlan)
<1>0. /\ r \in Rib /\ Len(r.vs) <= MaxVswitch /\ Len(r.link) <= MaxLink
      /\ x \in VswitchConf /\ MaxVswitch \in Nat
  BY FreshFacts, SizeAssumption DEF Sized
<1>1. /\ r.vs \in Seq(VswitchConf) /\ DOMAIN r.vs = 1 .. Len(r.vs)
      /\ Len(r.vs) \in Nat
      /\ r.link \in Seq(Link) /\ r.port \in [Port -> PortConf]
  BY <1>0, RibFacts
<1>2. ASSUME NEW v \in Seq(VswitchConf), Len(v) <= MaxVswitch
      PROVE  /\ Sized([r EXCEPT !.vs = v]) /\ [r EXCEPT !.vs = v].vs = v
             /\ [r EXCEPT !.vs = v].link = r.link
             /\ [r EXCEPT !.vs = v].port = r.port
  BY <1>0, <1>1, <1>2 DEF Sized, Rib
<1>3. CASE dead # {}
  <2> DEFINE d == Min(dead)
             v == [r.vs EXCEPT ![d] = x]
  <2>1. d \in dead /\ \A y \in dead : d <= y
    <3>1. dead \in SUBSET Nat
      BY <1>1
    <3> HIDE DEF dead
    <3> QED
      BY <1>3, <3>1, MinFacts
  <2>2. d \in DOMAIN r.vs /\ r.vs[d].deleted
    BY <2>1
  <2>3. \A i \in 1 .. d - 1 : i \in DOMAIN r.vs /\ ~r.vs[i].deleted
    <3> SUFFICES ASSUME NEW i \in 1 .. d - 1
                 PROVE  i \in DOMAIN r.vs /\ ~r.vs[i].deleted
      OBVIOUS
    <3>1. i \in DOMAIN r.vs /\ ~(d <= i)
      BY <1>1, <2>2
    <3> QED
      BY <2>1, <3>1
  <2> HIDE DEF d
  <2>4. /\ v \in Seq(VswitchConf) /\ DOMAIN v = DOMAIN r.vs
        /\ Len(v) = Len(r.vs)
        /\ \A j \in DOMAIN r.vs : v[j] = IF j = d THEN x ELSE r.vs[j]
    <3> HIDE DEF x
    <3>1. v \in [DOMAIN r.vs -> VswitchConf]
      <4>1. r.vs \in [DOMAIN r.vs -> VswitchConf]
        BY <1>1
      <4> QED
        BY <1>0, <4>1
    <3>2. \A j \in DOMAIN r.vs : v[j] = IF j = d THEN x ELSE r.vs[j]
      OBVIOUS
    <3> HIDE DEF v
    <3> QED
      BY <1>1, <3>1, <3>2, SameLength
  <2>5. VswitchNew(r, id, vlan) = [r EXCEPT !.vs = v]
    BY <1>0, <1>3 DEF VswitchNew, d, Rib
  <2> HIDE DEF v, dead, x
  <2>6. Len(v) <= MaxVswitch
    BY <1>0, <2>4
  <2>7. /\ Sized([r EXCEPT !.vs = v]) /\ [r EXCEPT !.vs = v].vs = v
        /\ [r EXCEPT !.vs = v].link = r.link
        /\ [r EXCEPT !.vs = v].port = r.port
    BY <1>2, <2>4, <2>6
  <2>8. DOMAIN v = DOMAIN r.vs \cup {d} /\ d \in DOMAIN v /\ v[d] = x
    BY <2>2, <2>4
  <2> QED
    BY <2>2, <2>3, <2>4, <2>5, <2>7, <2>8 DEF x
<1>4. CASE dead = {} /\ Len(r.vs) < MaxVswitch
  <2> DEFINE d == Len(r.vs) + 1
             v == Append(r.vs, x)
  <2>1. VswitchNew(r, id, vlan) = [r EXCEPT !.vs = v]
    BY <1>0, <1>4 DEF VswitchNew, Rib
  <2>2. /\ v \in Seq(VswitchConf) /\ DOMAIN v = DOMAIN r.vs \cup {d}
        /\ Len(v) = d /\ v[d] = x
        /\ \A j \in DOMAIN r.vs : v[j] = r.vs[j]
    <3> HIDE DEF x
    <3> QED
      BY <1>0, <1>1, AppendedFacts
  <2>3. d <= MaxVswitch
    <3>1. Len(r.vs) \in Nat /\ Len(r.vs) < MaxVswitch /\ MaxVswitch \in Nat
      BY <1>0, <1>1, <1>4
    <3> QED
      BY <3>1
  <2>4. \A i \in 1 .. d - 1 : i \in DOMAIN r.vs /\ ~r.vs[i].deleted
    BY <1>1, <1>4
  <2>5. d \notin DOMAIN r.vs
    BY <1>1
  <2> HIDE DEF v, dead, x, d
  <2>6. /\ Sized([r EXCEPT !.vs = v]) /\ [r EXCEPT !.vs = v].vs = v
        /\ [r EXCEPT !.vs = v].link = r.link
        /\ [r EXCEPT !.vs = v].port = r.port
    BY <1>2, <2>2, <2>3
  <2>7. d \in DOMAIN v
    BY <2>2
  <2> QED
    BY <2>1, <2>2, <2>4, <2>5, <2>6, <2>7 DEF x
<1>5. CASE dead = {} /\ ~(Len(r.vs) < MaxVswitch)
  BY <1>5 DEF VswitchNew
<1> QED
  BY <1>3, <1>4, <1>5

\* What ports and links say of each other, with no rib around them.
PortedWith(link, port) ==
  /\ \A l \in DOMAIN link : ~link[l].deleted
  /\ \A p \in Port : \A i \in DOMAIN port[p].vlans :
       /\ port[p].vlans[i] \in DOMAIN link
       /\ link[port[p].vlans[i]].port = p
  /\ \A l \in DOMAIN link : LET conf == port[link[l].port] IN
       /\ link[l].tag # 0 => \E i \in DOMAIN conf.vlans : conf.vlans[i] = l
       /\ link[l].tag = 0 => /\ conf.native \in DOMAIN link
                             /\ link[conf.native].port = link[l].port
                             /\ link[conf.native].tag = 0

LEMMA PortedFrame ==
  ASSUME NEW r, NEW q, q.link = r.link, q.port = r.port, Ported(r)
  PROVE  Ported(q)
<1>1. PortedWith(r.link, r.port)
  BY DEF Ported, PortedWith
<1>2. PortedWith(q.link, q.port)
  BY <1>1
<1> QED
  BY <1>2 DEF Ported, PortedWith

LEMMA NewGood ==
  ASSUME NEW r, Good(r), NEW id \in VswitchId, NEW vlan \in Vlan,
         VswitchLookup(r, id) = 0
  PROVE  LET q == VswitchNew(r, id, vlan) IN
         /\ Good(q)
         /\ Named(r) => Named(q)
         /\ Complete(r) => Complete(q)
         /\ Ported(r) => Ported(q)
         /\ \A rg : Ringed(r, rg) => Ringed(q, rg)
<1> DEFINE q == VswitchNew(r, id, vlan)
           x == Fresh(id, vlan)
<1> SUFFICES /\ Good(q)
             /\ Named(r) => Named(q)
             /\ Complete(r) => Complete(q)
             /\ Ported(r) => Ported(q)
             /\ \A rg : Ringed(r, rg) => Ringed(q, rg)
  OBVIOUS
<1>0. /\ site \in Site /\ Sized(r) /\ Unique(r) /\ Listed(r) /\ Closed(r)
      /\ r \in Rib
      /\ DOMAIN r.vs = 1 .. Len(r.vs) /\ Len(r.vs) \in Nat
      /\ \A i \in DOMAIN r.vs : r.vs[i].deleted \/ r.vs[i].id # id
  BY RibFacts, LookupFacts DEF Good, Sized
<1>1. /\ x.id = id /\ ~x.deleted /\ x.links = <<>>
      /\ \A k \in IfKind : x.ifs[k] = NoIf
  BY FreshFacts
<1>2. CASE q = r
  BY <1>2 DEF Good
<1>3. CASE q # r
  <2>1. Sized(q) /\ q.link = r.link /\ q.port = r.port
    BY <1>0, <1>3, NewShape
  <2>2. PICK d \in DOMAIN q.vs :
          /\ q.vs[d] = x
          /\ DOMAIN q.vs = DOMAIN r.vs \cup {d}
          /\ d \in DOMAIN r.vs => r.vs[d].deleted
          /\ \A i \in DOMAIN r.vs : i # d => q.vs[i] = r.vs[i]
          /\ \A i \in 1 .. d - 1 : i \in DOMAIN r.vs /\ ~r.vs[i].deleted
    BY <1>0, <1>3, NewShape
  <2>3. DOMAIN q.vs = 1 .. Len(q.vs) /\ Len(q.vs) \in Nat
    BY <2>1, RibFacts DEF Sized
  <2> HIDE DEF q, x
  <2>4. Unique(q)
    <3> SUFFICES ASSUME NEW s \in DOMAIN q.vs, ~q.vs[s].deleted,
                        NEW i \in 1 .. s - 1
                 PROVE  q.vs[i].id # q.vs[s].id
      BY DEF Unique
    <3>1. i \in DOMAIN q.vs /\ i # s
      BY <2>3
    <3>2. CASE s = d
      <4>1. i \in DOMAIN r.vs /\ ~r.vs[i].deleted /\ i # d
        BY <2>2, <3>1, <3>2
      <4> QED
        BY <1>0, <1>1, <2>2, <3>2, <4>1
    <3>3. CASE s # d
      <4>1. s \in DOMAIN r.vs /\ q.vs[s] = r.vs[s]
        BY <2>2, <3>3
      <4>2. CASE i = d
        BY <1>0, <1>1, <2>2, <4>1, <4>2
      <4>3. CASE i # d
        <5>1. i \in DOMAIN r.vs /\ q.vs[i] = r.vs[i]
          BY <2>2, <3>1, <4>3
        <5> QED
          BY <1>0, <4>1, <5>1 DEF Unique
      <4> QED
        BY <4>2, <4>3
    <3> QED
      BY <3>2, <3>3
  <2>5. IsInjective(<<>>) /\ DOMAIN <<>> = {}
    BY DEF IsInjective
  <2>6. LiveLinks(q) = LiveLinks(r)
    BY <2>1 DEF LiveLinks
  <2>7. Listed(q)
    BY <1>0, <1>1, <2>1, <2>2, <2>5, <2>6 DEF Listed
  <2>8. ~NoIf.open /\ NoIf.tap = NoTap
    BY DEF NoIf
  <2>9. Closed(q)
    BY <1>0, <1>1, <2>2 DEF Closed
  <2>10. Named(r) => Named(q)
    BY <1>1, <2>2, <2>8 DEF Named
  <2>11. Complete(r) => Complete(q)
    <3> SUFFICES ASSUME Complete(r), NEW l \in LiveLinks(r)
                 PROVE  \E s \in DOMAIN q.vs :
                          /\ ~q.vs[s].deleted /\ q.vs[s].id = r.link[l].vs
                          /\ \E i \in DOMAIN q.vs[s].links : q.vs[s].links[i] = l
      BY <2>1, <2>6 DEF Complete
    <3>1. PICK s \in DOMAIN r.vs :
            /\ ~r.vs[s].deleted /\ r.vs[s].id = r.link[l].vs
            /\ \E i \in DOMAIN r.vs[s].links : r.vs[s].links[i] = l
      BY DEF Complete
    <3>2. s # d /\ s \in DOMAIN q.vs /\ q.vs[s] = r.vs[s]
      BY <2>2, <3>1
    <3> QED
      BY <3>1, <3>2
  <2>12. Ported(r) => Ported(q)
    BY <2>1, PortedFrame
  <2>13. ASSUME NEW rg, Ringed(r, rg) PROVE Ringed(q, rg)
    <3> SUFFICES ASSUME NEW s \in DOMAIN q.vs, NEW k \in IfKind,
                        q.vs[s].ifs[k].open
                 PROVE  rg[k][s - 1] = [alive |-> TRUE, gen |-> q.vs[s].ifs[k].ring]
      BY DEF Ringed
    <3>1. s # d
      BY <1>1, <2>2, <2>8
    <3>2. s \in DOMAIN r.vs /\ q.vs[s] = r.vs[s]
      BY <2>2, <3>1
    <3> QED
      BY <2>13, <3>2 DEF Ringed
  <2> QED
    BY <1>0, <2>1, <2>4, <2>7, <2>9, <2>10, <2>11, <2>12, <2>13 DEF Good
<1> QED
  BY <1>2, <1>3

-----------------------------------------------------------------------------
(* Links are deleted.                                                      *)

LEMMA PortRemoveType ==
  ASSUME site \in Site, NEW conf \in PortConf, NEW l
  PROVE  PortRemove(conf, l) \in PortConf
<1>1. conf.vlans \in Seq(1 .. MaxLink)
  BY DEF PortConf
<1>2. RemoveFirst(conf.vlans, l) \in Seq(1 .. MaxLink)
  BY <1>1, RemoveFirstFacts
<1>3. 0 \in 0 .. MaxLink
  BY SiteAssumption DEF MaxLink
<1> QED
  BY <1>2, <1>3 DEF PortRemove, PortConf

\* A port with configuration conf leads frames with the tag to link m.
Knows(conf, tag, m) ==
  IF tag = 0 THEN conf.native = m
  ELSE \E i \in DOMAIN conf.vlans : conf.vlans[i] = m

LEMMA PortRemoveKeeps ==
  ASSUME NEW conf \in PortConf, NEW l, NEW m, m # l, NEW tag, Knows(conf, tag, m)
  PROVE  Knows(PortRemove(conf, l), tag, m)
<1> DEFINE v == conf.vlans
           w == RemoveFirst(v, l)
<1>1. v \in Seq(1 .. MaxLink)
  BY DEF PortConf
<1>2. \A j \in DOMAIN v : v[j] # l => \E i \in DOMAIN w : w[i] = v[j]
  <2> HIDE DEF v
  <2> QED
    BY <1>1, RemoveFirstFacts
<1>3. CASE v = <<>>
  BY <1>3 DEF PortRemove
<1>4. CASE v # <<>> /\ Head(v) # l /\ conf.native = l
  <2>1. PortRemove(conf, l).vlans = v
    BY <1>4 DEF PortRemove, PortConf
  <2> QED
    BY <1>4, <2>1 DEF Knows
<1>5. CASE v # <<>> /\ ~(Head(v) # l /\ conf.native = l)
  <2>1. /\ PortRemove(conf, l).vlans = w
        /\ PortRemove(conf, l).native = conf.native
    BY <1>5 DEF PortRemove, PortConf
  <2> HIDE DEF w
  <2> QED
    BY <1>2, <2>1 DEF Knows
<1> QED
  BY <1>3, <1>4, <1>5

LEMMA DeleteShape ==
  ASSUME site \in Site, NEW r, Sized(r), NEW l \in DOMAIN r.link
  PROVE  LET q == LinkDelete(r, l)
             s == VswitchLookup(r, r.link[l].vs)
         IN  /\ Sized(q)
             /\ DOMAIN q.vs = DOMAIN r.vs /\ DOMAIN q.link = DOMAIN r.link
             /\ \A i \in DOMAIN r.vs :
                  q.vs[i] = IF i = s
                            THEN [r.vs[i] EXCEPT !.links = RemoveFirst(@, l)]
                            ELSE r.vs[i]
             /\ \A m \in DOMAIN r.link :
                  q.link[m] = IF m = l THEN [r.link[m] EXCEPT !.deleted = TRUE]
                              ELSE r.link[m]
             /\ q.port = [r.port EXCEPT ![r.link[l].port] = PortRemove(@, l)]
<1> DEFINE q == LinkDelete(r, l)
           s == VswitchLookup(r, r.link[l].vs)
           p == r.link[l].port
           cut(x) == [x EXCEPT !.links = RemoveFirst(@, l)]
           v == [i \in DOMAIN r.vs |-> IF i = s THEN cut(r.vs[i]) ELSE r.vs[i]]
           k == [r.link EXCEPT ![l] = [@ EXCEPT !.deleted = TRUE]]
           pt == [r.port EXCEPT ![p] = PortRemove(@, l)]
<1>0. r \in Rib /\ Len(r.vs) <= MaxVswitch /\ Len(r.link) <= MaxLink
  BY DEF Sized
<1>1. /\ r.vs \in Seq(VswitchConf) /\ r.link \in Seq(Link)
      /\ r.vs \in [DOMAIN r.vs -> VswitchConf]
      /\ r.link \in [DOMAIN r.link -> Link]
      /\ r.port \in [Port -> PortConf]
  BY <1>0, RibFacts
<1>2. \A x \in VswitchConf : cut(x) \in VswitchConf
  <2> SUFFICES ASSUME NEW x \in VswitchConf PROVE cut(x) \in VswitchConf
    OBVIOUS
  <2>1. x.links \in Seq(1 .. MaxLink)
    BY DEF VswitchConf
  <2>2. RemoveFirst(x.links, l) \in Seq(1 .. MaxLink)
    BY <2>1, RemoveFirstFacts
  <2> QED
    BY <2>2 DEF VswitchConf
<1>3. \A x \in Link : [x EXCEPT !.deleted = TRUE] \in Link
  BY DEF Link
<1>4. \A c \in PortConf : PortRemove(c, l) \in PortConf
  BY PortRemoveType
<1>5. v \in [DOMAIN r.vs -> VswitchConf]
  <2> HIDE DEF s, cut
  <2> QED
    BY <1>1, <1>2
<1>6. k \in [DOMAIN r.link -> Link]
  BY <1>1, <1>3
<1>7. pt \in [Port -> PortConf]
  <2> HIDE DEF p
  <2> QED
    BY <1>1, <1>4
<1>8. \A i \in DOMAIN r.vs :
        v[i] = IF i = s THEN [r.vs[i] EXCEPT !.links = RemoveFirst(@, l)]
               ELSE r.vs[i]
  <2> HIDE DEF s
  <2> QED
    OBVIOUS
<1>9. \A m \in DOMAIN r.link :
        k[m] = IF m = l THEN [r.link[m] EXCEPT !.deleted = TRUE] ELSE r.link[m]
  OBVIOUS
<1>10. q = [r EXCEPT !.vs = v, !.link = k, !.port = pt]
  <2> HIDE DEF s
  <2>1. q = [r EXCEPT !.vs[s].links = RemoveFirst(@, l),
                      !.port[r.link[l].port] = PortRemove(@, l),
                      !.link[l].deleted = TRUE]
    BY DEF LinkDelete, s
  <2>2. [r.vs EXCEPT ![s].links = RemoveFirst(@, l)] = v
    OBVIOUS
  <2>3. [r.link EXCEPT ![l].deleted = TRUE] = k
    OBVIOUS
  <2>4. q = [r EXCEPT !.vs = [r.vs EXCEPT ![s].links = RemoveFirst(@, l)],
                      !.link = [r.link EXCEPT ![l].deleted = TRUE],
                      !.port = pt]
    BY <1>0, <1>1, <2>1 DEF Rib
  <2> QED
    BY <2>2, <2>3, <2>4
<1> HIDE DEF q, v, k, pt, s, p
<1>11. v \in Seq(VswitchConf) /\ Len(v) = Len(r.vs) /\ DOMAIN v = DOMAIN r.vs
  BY <1>1, <1>5, SameLength
<1>12. k \in Seq(Link) /\ Len(k) = Len(r.link) /\ DOMAIN k = DOMAIN r.link
  BY <1>1, <1>6, SameLength
<1>13. Sized(q) /\ q.vs = v /\ q.link = k /\ q.port = pt
  <2>1. Len(v) <= MaxVswitch /\ Len(k) <= MaxLink
    BY <1>0, <1>11, <1>12
  <2> QED
    BY <1>0, <1>7, <1>10, <1>11, <1>12, <2>1 DEF Sized, Rib
<1>14. /\ Sized(q)
       /\ DOMAIN q.vs = DOMAIN r.vs /\ DOMAIN q.link = DOMAIN r.link
       /\ \A i \in DOMAIN r.vs :
            q.vs[i] = IF i = s THEN [r.vs[i] EXCEPT !.links = RemoveFirst(@, l)]
                      ELSE r.vs[i]
       /\ \A m \in DOMAIN r.link :
            q.link[m] = IF m = l THEN [r.link[m] EXCEPT !.deleted = TRUE]
                        ELSE r.link[m]
  BY <1>8, <1>9, <1>11, <1>12, <1>13
<1> QED
  BY <1>13, <1>14 DEF q, s, pt, p

\* The links in use in q are links of r, and q's ports still know them.
Holds(q, r) ==
  /\ DOMAIN q.link = DOMAIN r.link
  /\ \A m \in DOMAIN r.link : ~q.link[m].deleted =>
       /\ q.link[m] = r.link[m]
       /\ Heard(r, m) => Heard(q, m)

LEMMA HoldsTransitive ==
  ASSUME NEW x, NEW y, NEW z, Holds(x, y), Holds(y, z)
  PROVE  Holds(x, z)
BY DEF Holds

LEMMA HoldsSame ==
  ASSUME NEW q, NEW r, q.link = r.link, q.port = r.port
  PROVE  Holds(q, r)
BY DEF Holds, Heard

LEMMA DeleteHolds ==
  ASSUME site \in Site, NEW r, Sized(r), NEW l \in DOMAIN r.link
  PROVE  Holds(LinkDelete(r, l), r)
<1> DEFINE q == LinkDelete(r, l)
<1>1. /\ DOMAIN q.link = DOMAIN r.link
      /\ \A m \in DOMAIN r.link :
           q.link[m] = IF m = l THEN [r.link[m] EXCEPT !.deleted = TRUE]
                       ELSE r.link[m]
      /\ q.port = [r.port EXCEPT ![r.link[l].port] = PortRemove(@, l)]
  BY DeleteShape
<1> HIDE DEF q
<1>2. /\ \A m \in DOMAIN r.link : r.link[m] \in Link
      /\ r.port \in [Port -> PortConf]
  BY RibFacts DEF Sized
<1>3. q.link[l].deleted
  BY <1>1, <1>2 DEF Link
<1>4. ASSUME NEW m \in DOMAIN r.link, m # l, Heard(r, m)
      PROVE  Heard(q, m)
  <2> DEFINE p == r.link[m].port
             conf == r.port[p]
  <2>1. p \in Port /\ conf \in PortConf /\ q.link[m] = r.link[m]
    BY <1>1, <1>2, <1>4 DEF Link
  <2>2. q.port[p] = conf \/ q.port[p] = PortRemove(conf, l)
    <3> HIDE DEF p
    <3> QED
      BY <1>1, <1>2, <2>1
  <2>3. Knows(conf, r.link[m].tag, m)
    BY <1>4 DEF Heard, Knows
  <2> HIDE DEF p, conf
  <2>4. Knows(q.port[p], r.link[m].tag, m)
    BY <1>4, <2>1, <2>2, <2>3, PortRemoveKeeps
  <2> QED
    BY <2>1, <2>4 DEF Heard, Knows, p
<1>5. Holds(q, r)
  BY <1>1, <1>3, <1>4 DEF Holds
<1> QED
  BY <1>5 DEF q

\* q is r with some of its links deleted.
Fewer(q, r) ==
  /\ Holds(q, r)
  /\ DOMAIN q.vs = DOMAIN r.vs /\ DOMAIN q.link = DOMAIN r.link
  /\ \A i \in DOMAIN r.vs :
       /\ q.vs[i].id = r.vs[i].id /\ q.vs[i].deleted = r.vs[i].deleted
       /\ q.vs[i].ifs = r.vs[i].ifs
       /\ \A a \in DOMAIN q.vs[i].links : \E b \in DOMAIN r.vs[i].links :
            q.vs[i].links[a] = r.vs[i].links[b]
  /\ \A m \in DOMAIN r.link : r.link[m].deleted => q.link[m].deleted

LEMMA DeleteGood ==
  ASSUME NEW r, Good(r), NEW l \in DOMAIN r.link
  PROVE  LET q == LinkDelete(r, l) IN
         /\ Good(q) /\ Fewer(q, r) /\ q.link[l].deleted
         /\ Named(r) => Named(q)
         /\ Complete(r) => Complete(q)
<1> DEFINE q == LinkDelete(r, l)
           s == VswitchLookup(r, r.link[l].vs)
<1> SUFFICES /\ Good(q) /\ Fewer(q, r) /\ q.link[l].deleted
             /\ Named(r) => Named(q)
             /\ Complete(r) => Complete(q)
  OBVIOUS
<1>0. /\ site \in Site /\ Sized(r) /\ Unique(r) /\ Listed(r) /\ Closed(r)
      /\ r \in Rib
  BY DEF Good, Sized
<1>1. /\ \A i \in DOMAIN r.vs : r.vs[i] \in VswitchConf
      /\ \A m \in DOMAIN r.link : r.link[m] \in Link
      /\ DOMAIN r.vs = 1 .. Len(r.vs) /\ Len(r.vs) \in Nat
  BY <1>0, RibFacts
<1>2. /\ Sized(q)
      /\ DOMAIN q.vs = DOMAIN r.vs /\ DOMAIN q.link = DOMAIN r.link
      /\ \A i \in DOMAIN r.vs :
           q.vs[i] = IF i = s
                     THEN [r.vs[i] EXCEPT !.links = RemoveFirst(@, l)]
                     ELSE r.vs[i]
      /\ \A m \in DOMAIN r.link :
           q.link[m] = IF m = l THEN [r.link[m] EXCEPT !.deleted = TRUE]
                       ELSE r.link[m]
  BY <1>0, DeleteShape
<1> HIDE DEF q, s
<1>3. /\ \A i \in DOMAIN r.vs :
           /\ q.vs[i].id = r.vs[i].id /\ q.vs[i].deleted = r.vs[i].deleted
           /\ q.vs[i].ifs = r.vs[i].ifs
           /\ q.vs[i].links = IF i = s THEN RemoveFirst(r.vs[i].links, l)
                              ELSE r.vs[i].links
  BY <1>1, <1>2 DEF VswitchConf
<1>4. /\ \A m \in DOMAIN r.link :
           /\ q.link[m].vs = r.link[m].vs
           /\ q.link[m].deleted = (r.link[m].deleted \/ m = l)
  BY <1>1, <1>2 DEF Link
<1>5. \A i \in DOMAIN r.vs :
        /\ IsInjective(r.vs[i].links) /\ r.vs[i].links \in Seq(1 .. MaxLink)
  BY <1>0, <1>1 DEF Listed, VswitchConf
<1>6. ASSUME NEW i \in DOMAIN r.vs
      PROVE  LET old == r.vs[i].links  now == RemoveFirst(old, l) IN
             /\ IsInjective(now)
             /\ \A a \in DOMAIN now :
                  now[a] # l /\ \E b \in DOMAIN old : now[a] = old[b]
             /\ \A b \in DOMAIN old : old[b] # l =>
                  \E a \in DOMAIN now : now[a] = old[b]
  <2> DEFINE old == r.vs[i].links
  <2>1. old \in Seq(1 .. MaxLink) /\ IsInjective(old)
    BY <1>5
  <2> HIDE DEF old
  <2>2. /\ IsInjective(RemoveFirst(old, l))
        /\ \A a \in DOMAIN RemoveFirst(old, l) :
             /\ RemoveFirst(old, l)[a] # l
             /\ \E b \in DOMAIN old : RemoveFirst(old, l)[a] = old[b]
        /\ \A b \in DOMAIN old : old[b] # l =>
             \E a \in DOMAIN RemoveFirst(old, l) :
               RemoveFirst(old, l)[a] = old[b]
    BY <2>1, RemoveFirstFacts
  <2> QED
    BY <2>2 DEF old
<1>7. \A i \in DOMAIN r.vs :
        /\ IsInjective(q.vs[i].links)
        /\ \A a \in DOMAIN q.vs[i].links : \E b \in DOMAIN r.vs[i].links :
             q.vs[i].links[a] = r.vs[i].links[b]
        /\ \A b \in DOMAIN r.vs[i].links : r.vs[i].links[b] # l =>
             \E a \in DOMAIN q.vs[i].links : q.vs[i].links[a] = r.vs[i].links[b]
  <2> SUFFICES ASSUME NEW i \in DOMAIN r.vs
        PROVE
        /\ IsInjective(q.vs[i].links)
        /\ \A a \in DOMAIN q.vs[i].links : \E b \in DOMAIN r.vs[i].links :
             q.vs[i].links[a] = r.vs[i].links[b]
        /\ \A b \in DOMAIN r.vs[i].links : r.vs[i].links[b] # l =>
             \E a \in DOMAIN q.vs[i].links : q.vs[i].links[a] = r.vs[i].links[b]
    OBVIOUS
  <2>1. CASE i = s
    BY <1>3, <1>6, <2>1
  <2>2. CASE i # s
    <3>1. q.vs[i].links = r.vs[i].links
      BY <1>3, <2>2
    <3> QED
      BY <1>5, <3>1
  <2> QED
    BY <2>1, <2>2
<1>8. Unique(q)
  <2> SUFFICES ASSUME NEW t \in DOMAIN q.vs, ~q.vs[t].deleted,
                      NEW i \in 1 .. t - 1
               PROVE  q.vs[i].id # q.vs[t].id
    BY DEF Unique
  <2>1. i \in DOMAIN r.vs /\ t \in DOMAIN r.vs
    BY <1>1, <1>2
  <2> QED
    BY <1>0, <1>3, <2>1 DEF Unique
<1>9. LiveLinks(q) = LiveLinks(r) \ {l}
  BY <1>2, <1>4 DEF LiveLinks
<1>10. ASSUME NEW t \in DOMAIN r.vs, ~r.vs[t].deleted,
              NEW a \in DOMAIN q.vs[t].links
       PROVE  /\ q.vs[t].links[a] \in LiveLinks(q)
              /\ q.link[q.vs[t].links[a]].vs = q.vs[t].id
  <2>1. PICK b \in DOMAIN r.vs[t].links : q.vs[t].links[a] = r.vs[t].links[b]
    BY <1>7
  <2> DEFINE x == r.vs[t].links[b]
  <2>2. x \in LiveLinks(r) /\ r.link[x].vs = r.vs[t].id
    BY <1>0, <1>10, <2>1 DEF Listed
  <2>3. x \in DOMAIN r.link
    BY <2>2 DEF LiveLinks
  <2> HIDE DEF x
  <2>4. x # l
    <3> SUFFICES ASSUME x = l PROVE FALSE
      OBVIOUS
    <3>1. r.link[l].vs = r.vs[t].id
      BY <2>2
    <3>2. s = t
      BY <1>0, <1>10, <3>1, LookupLive DEF s
    <3> QED
      BY <1>3, <1>6, <2>1, <3>2, SMTT(30) DEF x
  <2> QED
    BY <1>3, <1>4, <1>9, <2>1, <2>2, <2>3, <2>4 DEF x
<1>11. Listed(q)
  BY <1>2, <1>3, <1>7, <1>10 DEF Listed
<1>12. Closed(q)
  BY <1>0, <1>2, <1>3 DEF Closed
<1>13. Fewer(q, r) /\ q.link[l].deleted
  <2>1. Holds(q, r)
    BY <1>0, DeleteHolds DEF q
  <2> QED
    BY <1>2, <1>3, <1>4, <1>7, <2>1 DEF Fewer
<1>14. Named(r) => Named(q)
  BY <1>2, <1>3 DEF Named
<1>15. ASSUME Complete(r) PROVE Complete(q)
  <2> SUFFICES ASSUME NEW m \in LiveLinks(q)
               PROVE  \E t \in DOMAIN q.vs :
                        /\ ~q.vs[t].deleted /\ q.vs[t].id = q.link[m].vs
                        /\ \E i \in DOMAIN q.vs[t].links : q.vs[t].links[i] = m
    BY DEF Complete
  <2>1. m \in LiveLinks(r) /\ m # l /\ m \in DOMAIN r.link
    BY <1>9 DEF LiveLinks
  <2>2. PICK t \in DOMAIN r.vs :
          /\ ~r.vs[t].deleted /\ r.vs[t].id = r.link[m].vs
          /\ \E i \in DOMAIN r.vs[t].links : r.vs[t].links[i] = m
    BY <1>15, <2>1 DEF Complete
  <2>3. \E i \in DOMAIN q.vs[t].links : q.vs[t].links[i] = m
    BY <1>7, <2>1, <2>2
  <2>4. t \in DOMAIN q.vs /\ ~q.vs[t].deleted /\ q.vs[t].id = q.link[m].vs
    BY <1>2, <1>3, <1>4, <2>1, <2>2
  <2> QED
    BY <2>3, <2>4
<1> QED
  BY <1>0, <1>2, <1>8, <1>11, <1>12, <1>13, <1>14, <1>15 DEF Good

LEMMA FewerTransitive ==
  ASSUME NEW x, NEW y, NEW z, Fewer(x, y), Fewer(y, z)
  PROVE  Fewer(x, z)
<1>1. ASSUME NEW i \in DOMAIN z.vs, NEW a \in DOMAIN x.vs[i].links
      PROVE  \E b \in DOMAIN z.vs[i].links : x.vs[i].links[a] = z.vs[i].links[b]
  <2>1. i \in DOMAIN y.vs
    BY DEF Fewer
  <2>2. PICK c \in DOMAIN y.vs[i].links : x.vs[i].links[a] = y.vs[i].links[c]
    BY <2>1 DEF Fewer
  <2> QED
    BY <2>2 DEF Fewer
<1>2. Holds(x, z)
  BY HoldsTransitive DEF Fewer
<1> QED
  BY <1>1, <1>2 DEF Fewer

\* The loop of vswitch_delete, for a vswitch without open interfaces.
LEMMA LoopGood ==
  ASSUME NEW r, Good(r), NEW s \in DOMAIN r.vs, ~r.vs[s].deleted,
         \A k \in IfKind : ~r.vs[s].ifs[k].open
  PROVE  LET q == DeleteWithLinks(r, s) IN
         /\ Good(q) /\ Holds(q, r)
         /\ Named(r) => Named(q)
         /\ Complete(r) => Complete(q)
<1> DEFINE links == r.vs[s].links
           N == Len(links)
           S == {x \in Rib : Good(x) /\ DOMAIN x.link = DOMAIN r.link}
           step == [p \in Nat \X S |->
                      IF p[1] \in 1 .. N THEN LinkDelete(p[2], links[p[1]])
                                         ELSE p[2]]
           Body(f) == [n \in 0 .. N |->
                         IF n = 0 THEN r ELSE LinkDelete(f[n - 1], links[n])]
           after == CHOOSE f : f = Body(f)
<1>0. r \in Rib /\ Sized(r) /\ Listed(r) /\ r \in S
  BY DEF Good, Sized
<1>1. links \in Seq(1 .. MaxLink) /\ N \in Nat /\ DOMAIN links = 1 .. N
  <2>1. r.vs[s] \in VswitchConf
    BY <1>0, RibFacts
  <2>2. links \in Seq(1 .. MaxLink)
    BY <2>1 DEF VswitchConf
  <2> QED
    BY <2>2
<1>2. \A i \in 1 .. N : links[i] \in DOMAIN r.link
  BY <1>0, <1>1 DEF Listed, LiveLinks
<1>3. \A x \in S : \A i \in 1 .. N : LinkDelete(x, links[i]) \in S
  <2> SUFFICES ASSUME NEW x \in S, NEW i \in 1 .. N
               PROVE  LinkDelete(x, links[i]) \in S
    OBVIOUS
  <2>1. Good(x) /\ links[i] \in DOMAIN x.link /\ DOMAIN x.link = DOMAIN r.link
    BY <1>2
  <2>2. Good(LinkDelete(x, links[i])) /\ Fewer(LinkDelete(x, links[i]), x)
    BY <2>1, DeleteGood
  <2>3. LinkDelete(x, links[i]) \in Rib
    BY <2>2 DEF Good, Sized
  <2> QED
    BY <2>1, <2>2, <2>3 DEF Fewer
<1> HIDE DEF S, links, N
<1>4. step \in [Nat \X S -> S]
  BY <1>3
<1>5. PICK f : IsRun(f, r, step, S, N)
  <2> HIDE DEF step
  <2> QED
    BY <1>0, <1>1, <1>4, RunExists
<1>6. f \in [0 .. N -> S] /\ f[0] = r
  BY <1>5 DEF IsRun
<1>7. \A n \in 1 .. N : f[n] = LinkDelete(f[n - 1], links[n])
  <2> SUFFICES ASSUME NEW n \in 1 .. N
               PROVE  f[n] = LinkDelete(f[n - 1], links[n])
    OBVIOUS
  <2>1. n \in Nat /\ n - 1 \in 0 .. N
    BY <1>1
  <2>2. <<n, f[n - 1]>> \in Nat \X S
    BY <1>6, <2>1
  <2>3. f[n] = step[<<n, f[n - 1]>>]
    BY <1>5 DEF IsRun
  <2> QED
    BY <2>2, <2>3
<1> HIDE DEF step
<1>8. f = Body(f)
  <2>1. \A n \in 0 .. N : f[n] = Body(f)[n]
    <3> SUFFICES ASSUME NEW n \in 0 .. N
                 PROVE  f[n] = IF n = 0 THEN r ELSE LinkDelete(f[n - 1], links[n])
      OBVIOUS
    <3>1. n # 0 => n \in 1 .. N
      BY <1>1
    <3> QED
      BY <1>6, <1>7, <3>1
  <2>2. DOMAIN f = 0 .. N /\ DOMAIN Body(f) = 0 .. N
    BY <1>6
  <2>3. f = [n \in 0 .. N |-> f[n]]
    BY <1>6
  <2> QED
    BY <2>1, <2>3
<1>9. after = Body(after)
  <2>1. \E g : g = Body(g)
    BY <1>8
  <2> QED
    BY <2>1, Zenon
<1> HIDE DEF after
<1>10. /\ after[0] = r
       /\ \A n \in 1 .. N : after[n] = LinkDelete(after[n - 1], links[n])
  <2>1. after[0] = r
    <3>1. 0 \in 0 .. N
      BY <1>1
    <3> QED
      BY <1>9, <3>1
  <2>2. ASSUME NEW n \in 1 .. N
        PROVE  after[n] = LinkDelete(after[n - 1], links[n])
    <3>1. n \in 0 .. N /\ n # 0
      BY <1>1
    <3> QED
      BY <1>9, <3>1
  <2> QED
    BY <2>1, <2>2
<1> DEFINE Claim(x, m) == /\ Good(x) /\ Fewer(x, r)
                          /\ Named(r) => Named(x)
                          /\ Complete(r) => Complete(x)
                          /\ \A j \in 1 .. m : x.link[links[j]].deleted
           P == {m \in Nat : m <= N => Claim(after[m], m)}
<1>11. 0 \in P
  BY <1>10, HoldsSame DEF Fewer
<1>12. ASSUME NEW m \in P PROVE m + 1 \in P
  <2>1. m \in Nat
    OBVIOUS
  <2> SUFFICES ASSUME m + 1 <= N PROVE Claim(after[m + 1], m + 1)
    BY <2>1
  <2>2. m <= N /\ m + 1 \in 1 .. N /\ (m + 1) - 1 = m
    BY <1>1, <2>1
  <2>3. Claim(after[m], m)
    BY <2>2
  <2> DEFINE x == after[m]
             y == LinkDelete(x, links[m + 1])
  <2>4. after[m + 1] = y
    BY <1>10, <2>2
  <2>5. links[m + 1] \in DOMAIN x.link /\ Good(x)
    BY <1>2, <2>2, <2>3 DEF Fewer
  <2>6. /\ Good(y) /\ Fewer(y, x) /\ y.link[links[m + 1]].deleted
        /\ Named(x) => Named(y)
        /\ Complete(x) => Complete(y)
    BY <2>5, DeleteGood
  <2>7. Fewer(x, r)
    BY <2>3
  <2> HIDE DEF x, y
  <2>8. Fewer(y, r)
    BY <2>6, <2>7, FewerTransitive
  <2>9. ASSUME NEW j \in 1 .. (m + 1) PROVE y.link[links[j]].deleted
    <3>1. CASE j = m + 1
      BY <2>6, <3>1
    <3>2. CASE j # m + 1
      <4>1. j \in 1 .. m /\ j \in 1 .. N
        BY <1>1, <2>1, <2>2, <3>2
      <4>2. x.link[links[j]].deleted /\ links[j] \in DOMAIN x.link
        BY <1>2, <2>3, <2>7, <4>1 DEF x, Fewer
      <4> QED
        BY <2>6, <4>2 DEF Fewer
    <3> QED
      BY <3>1, <3>2
  <2>10. (Named(r) => Named(y)) /\ (Complete(r) => Complete(y))
    BY <2>3, <2>6 DEF x
  <2> QED
    BY <2>4, <2>6, <2>8, <2>9, <2>10
<1>13. Claim(after[N], N)
  <2> HIDE DEF Claim
  <2>1. P = Nat
    <3>1. P \in SUBSET Nat
      OBVIOUS
    <3> HIDE DEF P
    <3> QED
      BY <1>11, <1>12, <3>1, NatSetInduction
  <2>2. N \in P
    BY <1>1, <2>1
  <2> QED
    BY <1>1, <2>2
<1> DEFINE x == after[N]
           q == [x EXCEPT !.vs[s].deleted = TRUE]
           v == [x.vs EXCEPT ![s].deleted = TRUE]
<1>14. DeleteWithLinks(r, s) = q
  BY DEF DeleteWithLinks, after, N, links
<1>15. /\ Good(x) /\ Fewer(x, r)
       /\ Named(r) => Named(x)
       /\ Complete(r) => Complete(x)
       /\ \A j \in 1 .. N : x.link[links[j]].deleted
  BY <1>13
<1> HIDE DEF x, Claim, P
<1>16. /\ site \in Site /\ Sized(x) /\ Unique(x) /\ Listed(x) /\ Closed(x)
       /\ x \in Rib /\ DOMAIN x.vs = 1 .. Len(x.vs) /\ Len(x.vs) \in Nat
       /\ \A i \in DOMAIN x.vs : x.vs[i] \in VswitchConf
       /\ x.vs \in Seq(VswitchConf)
  BY <1>15, RibFacts DEF Good, Sized
<1>17. s \in DOMAIN x.vs /\ ~x.vs[s].deleted /\ x.vs[s].ifs = r.vs[s].ifs
  BY <1>15 DEF Fewer
<1>18. \A a \in DOMAIN x.vs[s].links : FALSE
  <2> SUFFICES ASSUME NEW a \in DOMAIN x.vs[s].links PROVE FALSE
    OBVIOUS
  <2>1. x.vs[s].links[a] \in LiveLinks(x)
    BY <1>16, <1>17 DEF Listed
  <2>2. PICK b \in DOMAIN links : x.vs[s].links[a] = links[b]
    BY <1>15 DEF Fewer, links
  <2>3. x.link[links[b]].deleted
    BY <1>1, <1>15, <2>2
  <2> QED
    BY <2>1, <2>2, <2>3 DEF LiveLinks
<1>19. v \in [DOMAIN x.vs -> VswitchConf]
  <2>1. \A y \in VswitchConf : [y EXCEPT !.deleted = TRUE] \in VswitchConf
    BY DEF VswitchConf
  <2>2. x.vs \in [DOMAIN x.vs -> VswitchConf]
    BY <1>16
  <2> QED
    BY <2>1, <2>2
<1>20. \A i \in DOMAIN x.vs :
         v[i] = IF i = s THEN [x.vs[i] EXCEPT !.deleted = TRUE] ELSE x.vs[i]
  OBVIOUS
<1>21. q = [x EXCEPT !.vs = v]
  BY <1>16 DEF Rib
<1> HIDE DEF q, v
<1>22. v \in Seq(VswitchConf) /\ Len(v) = Len(x.vs) /\ DOMAIN v = DOMAIN x.vs
  BY <1>16, <1>19, SameLength
<1>23. /\ Sized(q) /\ q.vs = v /\ q.link = x.link /\ q.port = x.port
  <2>1. Len(v) <= MaxVswitch /\ Len(x.link) <= MaxLink
    BY <1>16, <1>22 DEF Sized
  <2> QED
    BY <1>16, <1>21, <1>22, <2>1 DEF Sized, Rib
<1>24. /\ DOMAIN q.vs = DOMAIN x.vs
       /\ \A i \in DOMAIN x.vs :
            /\ q.vs[i].id = x.vs[i].id /\ q.vs[i].links = x.vs[i].links
            /\ q.vs[i].ifs = x.vs[i].ifs
            /\ q.vs[i].deleted = (x.vs[i].deleted \/ i = s)
  BY <1>16, <1>20, <1>22, <1>23 DEF VswitchConf
<1>25. Unique(q)
  <2> SUFFICES ASSUME NEW t \in DOMAIN q.vs, ~q.vs[t].deleted,
                      NEW i \in 1 .. t - 1
               PROVE  q.vs[i].id # q.vs[t].id
    BY DEF Unique
  <2>1. i \in DOMAIN x.vs /\ t \in DOMAIN x.vs
    BY <1>16, <1>24
  <2> QED
    BY <1>16, <1>24, <2>1, ZenonT(60) DEF Unique
<1>26. LiveLinks(q) = LiveLinks(x)
  BY <1>23 DEF LiveLinks
<1>27. Listed(q)
  <2> SUFFICES ASSUME NEW i \in DOMAIN q.vs
               PROVE  /\ IsInjective(q.vs[i].links)
                      /\ ~q.vs[i].deleted => \A a \in DOMAIN q.vs[i].links :
                           /\ q.vs[i].links[a] \in LiveLinks(x)
                           /\ x.link[q.vs[i].links[a]].vs = q.vs[i].id
    BY <1>23, <1>26 DEF Listed
  <2>1. i \in DOMAIN x.vs /\ q.vs[i].links = x.vs[i].links
        /\ (~q.vs[i].deleted => ~x.vs[i].deleted) /\ q.vs[i].id = x.vs[i].id
    BY <1>24
  <2> QED
    BY <1>16, <2>1 DEF Listed
<1>28. Closed(q)
  <2> SUFFICES ASSUME NEW i \in DOMAIN q.vs, NEW k \in IfKind, q.vs[i].deleted
               PROVE  ~q.vs[i].ifs[k].open
    BY DEF Closed
  <2>1. CASE i = s
    BY <1>17, <1>24, <2>1
  <2>2. CASE i # s
    <3>1. i \in DOMAIN x.vs /\ x.vs[i].deleted /\ q.vs[i].ifs = x.vs[i].ifs
      BY <1>24, <2>2
    <3> QED
      BY <1>16, <3>1 DEF Closed
  <2> QED
    BY <2>1, <2>2
<1>29. Named(x) => Named(q)
  BY <1>24 DEF Named
<1>30. ASSUME Complete(x) PROVE Complete(q)
  <2> SUFFICES ASSUME NEW m \in LiveLinks(x)
               PROVE  \E t \in DOMAIN q.vs :
                        /\ ~q.vs[t].deleted /\ q.vs[t].id = x.link[m].vs
                        /\ \E i \in DOMAIN q.vs[t].links : q.vs[t].links[i] = m
    BY <1>23, <1>26 DEF Complete
  <2>1. PICK t \in DOMAIN x.vs :
          /\ ~x.vs[t].deleted /\ x.vs[t].id = x.link[m].vs
          /\ \E i \in DOMAIN x.vs[t].links : x.vs[t].links[i] = m
    BY <1>30 DEF Complete
  <2>2. t # s
    BY <1>18, <2>1
  <2> QED
    BY <1>24, <2>1, <2>2, ZenonT(60)
<1>31. /\ Good(q)
       /\ Named(r) => Named(q)
       /\ Complete(r) => Complete(q)
  BY <1>15, <1>16, <1>23, <1>25, <1>27, <1>28, <1>29, <1>30 DEF Good
<1>32. Holds(q, r)
  BY <1>15, <1>23, HoldsSame, HoldsTransitive DEF Fewer
<1> QED
  BY <1>14, <1>31, <1>32

-----------------------------------------------------------------------------
(* Interfaces change.                                                      *)

\* q differs from r in interfaces only.
SameLinks(q, r) ==
  /\ q.link = r.link /\ q.port = r.port /\ DOMAIN q.vs = DOMAIN r.vs
  /\ \A i \in DOMAIN r.vs :
       /\ q.vs[i].id = r.vs[i].id /\ q.vs[i].deleted = r.vs[i].deleted
       /\ q.vs[i].links = r.vs[i].links

LEMMA SameLinksGood ==
  ASSUME NEW r, Good(r), NEW q, Sized(q), Closed(q), SameLinks(q, r)
  PROVE  /\ Good(q)
         /\ Complete(r) => Complete(q)
         /\ Ported(r) => Ported(q)
<1>1. /\ site \in Site /\ Unique(r) /\ Listed(r) /\ r \in Rib
      /\ DOMAIN r.vs = 1 .. Len(r.vs) /\ Len(r.vs) \in Nat
  BY RibFacts DEF Good, Sized
<1>2. Unique(q)
  <2> SUFFICES ASSUME NEW t \in DOMAIN q.vs, ~q.vs[t].deleted,
                      NEW i \in 1 .. t - 1
               PROVE  q.vs[i].id # q.vs[t].id
    BY DEF Unique
  <2>1. i \in DOMAIN r.vs /\ t \in DOMAIN r.vs
    BY <1>1 DEF SameLinks
  <2> QED
    BY <1>1, <2>1 DEF Unique, SameLinks
<1>3. LiveLinks(q) = LiveLinks(r)
  BY DEF LiveLinks, SameLinks
<1>4. Listed(q)
  <2> SUFFICES ASSUME NEW i \in DOMAIN q.vs
               PROVE  /\ IsInjective(q.vs[i].links)
                      /\ ~q.vs[i].deleted => \A a \in DOMAIN q.vs[i].links :
                           /\ q.vs[i].links[a] \in LiveLinks(r)
                           /\ r.link[q.vs[i].links[a]].vs = q.vs[i].id
    BY <1>3 DEF Listed, SameLinks
  <2>1. /\ i \in DOMAIN r.vs /\ q.vs[i].links = r.vs[i].links
        /\ q.vs[i].deleted = r.vs[i].deleted /\ q.vs[i].id = r.vs[i].id
    BY DEF SameLinks
  <2> QED
    BY <1>1, <2>1 DEF Listed
<1>5. ASSUME Complete(r) PROVE Complete(q)
  <2> SUFFICES ASSUME NEW m \in LiveLinks(r)
               PROVE  \E t \in DOMAIN q.vs :
                        /\ ~q.vs[t].deleted /\ q.vs[t].id = r.link[m].vs
                        /\ \E i \in DOMAIN q.vs[t].links : q.vs[t].links[i] = m
    BY <1>3 DEF Complete, SameLinks
  <2>1. PICK t \in DOMAIN r.vs :
          /\ ~r.vs[t].deleted /\ r.vs[t].id = r.link[m].vs
          /\ \E i \in DOMAIN r.vs[t].links : r.vs[t].links[i] = m
    BY <1>5 DEF Complete
  <2> QED
    BY <2>1 DEF SameLinks
<1>6. Ported(r) => Ported(q)
  BY PortedFrame DEF SameLinks
<1> QED
  BY <1>1, <1>2, <1>4, <1>5, <1>6 DEF Good

\* A rib whose vswitches were given other interfaces.
LEMMA NewIfs ==
  ASSUME NEW r, Sized(r), NEW v \in [DOMAIN r.vs -> VswitchConf],
         \A i \in DOMAIN r.vs :
           /\ v[i].id = r.vs[i].id /\ v[i].deleted = r.vs[i].deleted
           /\ v[i].links = r.vs[i].links,
         NEW q, q = [vs |-> v, link |-> r.link, port |-> r.port]
  PROVE  Sized(q) /\ SameLinks(q, r) /\ q.vs = v
<1>1. /\ r \in Rib /\ Len(r.vs) <= MaxVswitch /\ Len(r.link) <= MaxLink
      /\ r.vs \in Seq(VswitchConf) /\ r.link \in Seq(Link)
      /\ r.port \in [Port -> PortConf]
  BY RibFacts DEF Sized
<1>2. v \in Seq(VswitchConf) /\ Len(v) = Len(r.vs) /\ DOMAIN v = DOMAIN r.vs
  BY <1>1, SameLength
<1>3. /\ q \in Rib /\ q.vs = v /\ q.link = r.link /\ q.port = r.port
  BY <1>1, <1>2 DEF Rib
<1>4. Len(v) <= MaxVswitch
  BY <1>1, <1>2
<1>5. Sized(q)
  BY <1>1, <1>3, <1>4 DEF Sized
<1> QED
  BY <1>2, <1>3, <1>5 DEF SameLinks

LEMMA IfDeleteFacts ==
  ASSUME NEW x \in VswitchConf, NEW kinds
  PROVE  LET y == IfDelete(x, kinds) IN
         /\ y \in VswitchConf /\ y.id = x.id /\ y.deleted = x.deleted
         /\ y.links = x.links
         /\ \A k \in IfKind : y.ifs[k] = IF k \in kinds THEN NoIf ELSE x.ifs[k]
<1> DEFINE f == [k \in IfKind |-> IF k \in kinds THEN NoIf ELSE x.ifs[k]]
           y == IfDelete(x, kinds)
<1>1. NoIf \in TapIf
  BY SizeAssumption DEF NoIf, TapIf
<1>2. x.ifs \in [IfKind -> TapIf]
  BY DEF VswitchConf
<1>3. f \in [IfKind -> TapIf]
  BY <1>1, <1>2
<1>4. y = [x EXCEPT !.ifs = f]
  BY DEF IfDelete
<1>5. \A k \in IfKind : f[k] = IF k \in kinds THEN NoIf ELSE x.ifs[k]
  OBVIOUS
<1> HIDE DEF y, f
<1>6. /\ y \in VswitchConf /\ y.id = x.id /\ y.deleted = x.deleted
      /\ y.links = x.links /\ y.ifs = f
  BY <1>3, <1>4 DEF VswitchConf
<1>7. \A k \in IfKind : y.ifs[k] = IF k \in kinds THEN NoIf ELSE x.ifs[k]
  BY <1>5, <1>6
<1> QED
  BY <1>6, <1>7 DEF y

\* Interfaces are deleted: of every slot i those in kinds[i].
LEMMA IfsDeleted ==
  ASSUME NEW r, Good(r), NEW kinds, NEW v,
         v = [i \in DOMAIN r.vs |-> v[i]],
         \A i \in DOMAIN r.vs : v[i] = IfDelete(r.vs[i], kinds[i]),
         NEW q, q = [vs |-> v, link |-> r.link, port |-> r.port]
  PROVE  /\ Good(q) /\ SameLinks(q, r)
         /\ \A i \in DOMAIN r.vs, k \in IfKind :
              q.vs[i].ifs[k] = IF k \in kinds[i] THEN NoIf ELSE r.vs[i].ifs[k]
         /\ Named(r) => Named(q)
         /\ Complete(r) => Complete(q)
<1>1. /\ Sized(r) /\ Closed(r)
      /\ \A i \in DOMAIN r.vs : r.vs[i] \in VswitchConf
  BY RibFacts DEF Good, Sized
<1>2. \A i \in DOMAIN r.vs :
        /\ v[i] \in VswitchConf
        /\ v[i].id = r.vs[i].id /\ v[i].deleted = r.vs[i].deleted
        /\ v[i].links = r.vs[i].links
        /\ \A k \in IfKind :
             v[i].ifs[k] = IF k \in kinds[i] THEN NoIf ELSE r.vs[i].ifs[k]
  BY <1>1, IfDeleteFacts
<1>3. v \in [DOMAIN r.vs -> VswitchConf]
  BY <1>2
<1>6. Sized(q) /\ SameLinks(q, r) /\ q.vs = v
  BY <1>1, <1>2, <1>3, NewIfs
<1>7. \A i \in DOMAIN r.vs, k \in IfKind :
        q.vs[i].ifs[k] = IF k \in kinds[i] THEN NoIf ELSE r.vs[i].ifs[k]
  BY <1>2, <1>6
<1>8. ~NoIf.open /\ NoIf.tap = NoTap
  BY DEF NoIf
<1>9. Closed(q)
  <2> SUFFICES ASSUME NEW i \in DOMAIN r.vs, NEW k \in IfKind, q.vs[i].deleted
               PROVE  ~q.vs[i].ifs[k].open
    BY <1>6 DEF Closed, SameLinks
  <2>1. ~r.vs[i].ifs[k].open
    BY <1>1, <1>6 DEF Closed, SameLinks
  <2>2. CASE k \in kinds[i]
    BY <1>7, <1>8, <2>2
  <2>3. CASE k \notin kinds[i]
    BY <1>7, <2>1, <2>3
  <2> QED
    BY <2>2, <2>3
<1>10. ASSUME Named(r) PROVE Named(q)
  <2> SUFFICES ASSUME NEW i \in DOMAIN r.vs, NEW k \in IfKind,
                      ~q.vs[i].ifs[k].open
               PROVE  q.vs[i].ifs[k].tap = NoTap
    BY <1>6 DEF Named, SameLinks
  <2>2. CASE k \in kinds[i]
    BY <1>7, <1>8, <2>2
  <2>3. CASE k \notin kinds[i]
    BY <1>7, <1>10, <2>3, ZenonT(60) DEF Named
  <2> QED
    BY <2>2, <2>3
<1> QED
  BY <1>6, <1>7, <1>9, <1>10, SameLinksGood

Rings == [IfKind -> [0 .. MaxVswitch - 1 -> [alive : BOOLEAN, gen : 0 .. MaxGen]]]

LEMMA CheckRingsFacts ==
  ASSUME NEW r, Sized(r), NEW rg \in Rings, Bounded(CheckRings(r, rg))
  PROVE  LET now == CheckRings(r, rg) IN
         /\ now \in Rings
         /\ \A i \in DOMAIN r.vs, k \in IfKind : r.vs[i].ifs[k].open =>
              /\ now[k][i - 1].alive /\ now[k][i - 1].gen \in 0 .. MaxGen
         /\ \A x : Sized(x) /\ Ringed(x, rg) => Ringed(x, now)
<1> DEFINE now == CheckRings(r, rg)
<1>1. \A k \in IfKind, i \in 0 .. MaxVswitch - 1 :
        now[k][i] = IF Missing(r, rg, k, i)
                    THEN [alive |-> TRUE, gen |-> rg[k][i].gen + 1]
                    ELSE rg[k][i]
  BY DEF CheckRings
<1>2. \A k \in IfKind, i \in 0 .. MaxVswitch - 1 :
        /\ rg[k][i] \in [alive : BOOLEAN, gen : 0 .. MaxGen]
        /\ now[k][i].gen <= MaxGen
  BY DEF Rings, Bounded
<1>3. now = [k \in IfKind |-> [i \in 0 .. MaxVswitch - 1 |-> now[k][i]]]
  BY DEF CheckRings
<1>4. MaxGen \in Nat /\ MaxVswitch \in Nat
  BY SizeAssumption
<1> SUFFICES /\ now \in Rings
             /\ \A i \in DOMAIN r.vs, k \in IfKind : r.vs[i].ifs[k].open =>
                  /\ now[k][i - 1].alive /\ now[k][i - 1].gen \in 0 .. MaxGen
             /\ \A x : Sized(x) /\ Ringed(x, rg) => Ringed(x, now)
  OBVIOUS
<1> HIDE DEF now
<1>5. ASSUME NEW k \in IfKind, NEW i \in 0 .. MaxVswitch - 1
      PROVE  now[k][i] \in [alive : BOOLEAN, gen : 0 .. MaxGen]
  <2>1. CASE Missing(r, rg, k, i)
    <3> DEFINE g == rg[k][i].gen
    <3>1. g \in 0 .. MaxGen /\ now[k][i] = [alive |-> TRUE, gen |-> g + 1]
      BY <1>1, <1>2, <2>1
    <3> HIDE DEF g
    <3>2. g + 1 <= MaxGen
      BY <1>2, <3>1
    <3>3. g + 1 \in 0 .. MaxGen
      BY <1>4, <3>1, <3>2
    <3> QED
      BY <3>1, <3>3
  <2>2. CASE ~Missing(r, rg, k, i)
    BY <1>1, <1>2, <2>2
  <2> QED
    BY <2>1, <2>2
<1>6. now \in Rings
  BY <1>3, <1>5 DEF Rings
<1>7. ASSUME NEW x, Sized(x), NEW i \in DOMAIN x.vs
      PROVE  i - 1 \in 0 .. MaxVswitch - 1 /\ (i - 1) + 1 = i
  <2>1. DOMAIN x.vs = 1 .. Len(x.vs) /\ Len(x.vs) \in Nat /\ Len(x.vs) <= MaxVswitch
    BY <1>7, RibFacts DEF Sized
  <2>2. \A n \in Nat : n <= MaxVswitch =>
          \A j \in 1 .. n : j - 1 \in 0 .. MaxVswitch - 1 /\ (j - 1) + 1 = j
    BY <1>4
  <2> QED
    BY <2>1, <2>2
<1>8. ASSUME NEW i \in DOMAIN r.vs, NEW k \in IfKind, r.vs[i].ifs[k].open
      PROVE  now[k][i - 1].alive /\ now[k][i - 1].gen \in 0 .. MaxGen
  <2>1. i - 1 \in 0 .. MaxVswitch - 1 /\ (i - 1) + 1 = i
    BY <1>7
  <2> DEFINE j == i - 1
  <2> HIDE DEF j
  <2>2. j \in 0 .. MaxVswitch - 1 /\ j + 1 = i
    BY <2>1 DEF j
  <2>3. Missing(r, rg, k, j) \/ rg[k][j].alive
    BY <1>8, <2>2 DEF Missing
  <2>4. now[k][j].alive
    <3>1. CASE Missing(r, rg, k, j)
      <4>1. now[k][j] = [alive |-> TRUE, gen |-> rg[k][j].gen + 1]
        BY <1>1, <2>2, <3>1
      <4> QED
        BY <4>1
    <3>2. CASE ~Missing(r, rg, k, j)
      <4>1. now[k][j] = rg[k][j]
        BY <1>1, <2>2, <3>2
      <4> QED
        BY <2>3, <3>2, <4>1
    <3> QED
      BY <3>1, <3>2
  <2>5. now[k][j].gen \in 0 .. MaxGen
    BY <1>5, <2>2
  <2> QED
    BY <2>4, <2>5 DEF j
<1>9. ASSUME NEW x, Sized(x), Ringed(x, rg) PROVE Ringed(x, now)
  <2> SUFFICES ASSUME NEW i \in DOMAIN x.vs, NEW k \in IfKind,
                      x.vs[i].ifs[k].open
               PROVE  now[k][i - 1] = [alive |-> TRUE, gen |-> x.vs[i].ifs[k].ring]
    BY DEF Ringed
  <2>1. i - 1 \in 0 .. MaxVswitch - 1
    BY <1>7, <1>9
  <2>2. rg[k][i - 1] = [alive |-> TRUE, gen |-> x.vs[i].ifs[k].ring]
    BY <1>9 DEF Ringed
  <2>3. ~Missing(r, rg, k, i - 1)
    BY <2>2 DEF Missing
  <2> QED
    BY <1>1, <2>1, <2>2, <2>3
<1> QED
  BY <1>6, <1>8, <1>9

\* The interfaces get the rings that are there.
LEMMA RefreshFacts ==
  ASSUME NEW r, Good(r), NEW rg \in Rings,
         \A i \in DOMAIN r.vs, k \in IfKind : r.vs[i].ifs[k].open =>
              rg[k][i - 1].alive /\ rg[k][i - 1].gen \in 0 .. MaxGen
  PROVE  LET q == Refresh(r, rg) IN
         /\ Good(q) /\ Ringed(q, rg)
         /\ Named(r) => Named(q)
         /\ Complete(r) => Complete(q)
         /\ Ported(r) => Ported(q)
<1> DEFINE new1(i, k) == IF r.vs[i].ifs[k].open
                         THEN [r.vs[i].ifs[k] EXCEPT !.ring = rg[k][i - 1].gen]
                         ELSE r.vs[i].ifs[k]
           v == [i \in DOMAIN r.vs |->
                   [r.vs[i] EXCEPT !.ifs = [k \in IfKind |-> new1(i, k)]]]
           q == Refresh(r, rg)
<1>1. /\ Sized(r) /\ Closed(r) /\ r \in Rib
      /\ \A i \in DOMAIN r.vs : r.vs[i] \in VswitchConf
  BY RibFacts DEF Good, Sized
<1>2. \A i \in DOMAIN r.vs, k \in IfKind : r.vs[i].ifs[k] \in TapIf
  BY <1>1 DEF VswitchConf
<1>3. ASSUME NEW i \in DOMAIN r.vs, NEW k \in IfKind
      PROVE  /\ new1(i, k) \in TapIf
             /\ new1(i, k).open = r.vs[i].ifs[k].open
             /\ new1(i, k).tap = r.vs[i].ifs[k].tap
             /\ new1(i, k).open => new1(i, k).ring = rg[k][i - 1].gen
  <2> DEFINE x == r.vs[i].ifs[k]
             g == rg[k][i - 1].gen
  <2>1. x \in TapIf /\ (x.open => g \in 0 .. MaxGen)
    BY <1>2
  <2> HIDE DEF x, g
  <2>2. \A y \in TapIf : \A n \in 0 .. MaxGen :
          /\ [y EXCEPT !.ring = n] \in TapIf /\ [y EXCEPT !.ring = n].ring = n
          /\ [y EXCEPT !.ring = n].open = y.open
          /\ [y EXCEPT !.ring = n].tap = y.tap
    BY DEF TapIf
  <2>3. new1(i, k) = IF x.open THEN [x EXCEPT !.ring = g] ELSE x
    BY DEF x, g
  <2>4. CASE x.open
    BY <2>1, <2>3, <2>4 DEF x, g, TapIf
  <2>5. CASE ~x.open
    BY <2>1, <2>3, <2>5 DEF x
  <2> QED
    BY <2>4, <2>5
<1>4. q = [vs |-> v, link |-> r.link, port |-> r.port]
  <2>1. q = [r EXCEPT !.vs = v]
    BY DEF Refresh
  <2> HIDE DEF q, v
  <2> QED
    BY <1>1, <2>1 DEF Rib
<1> SUFFICES /\ Good(q) /\ Ringed(q, rg)
             /\ Named(r) => Named(q)
             /\ Complete(r) => Complete(q)
             /\ Ported(r) => Ported(q)
  OBVIOUS
<1> HIDE DEF q, new1
<1>5. \A i \in DOMAIN r.vs :
        /\ v[i] \in VswitchConf
        /\ v[i].id = r.vs[i].id /\ v[i].deleted = r.vs[i].deleted
        /\ v[i].links = r.vs[i].links
        /\ \A k \in IfKind : v[i].ifs[k] = new1(i, k)
  <2> SUFFICES ASSUME NEW i \in DOMAIN r.vs
        PROVE
        /\ v[i] \in VswitchConf
        /\ v[i].id = r.vs[i].id /\ v[i].deleted = r.vs[i].deleted
        /\ v[i].links = r.vs[i].links
        /\ \A k \in IfKind : v[i].ifs[k] = new1(i, k)
    OBVIOUS
  <2> DEFINE f == [k \in IfKind |-> new1(i, k)]
  <2>1. f \in [IfKind -> TapIf] /\ \A k \in IfKind : f[k] = new1(i, k)
    BY <1>3
  <2>2. v[i] = [r.vs[i] EXCEPT !.ifs = f]
    OBVIOUS
  <2> HIDE DEF f, v
  <2>3. /\ v[i] \in VswitchConf /\ v[i].ifs = f
        /\ v[i].id = r.vs[i].id /\ v[i].deleted = r.vs[i].deleted
        /\ v[i].links = r.vs[i].links
    BY <1>1, <2>1, <2>2 DEF VswitchConf
  <2> QED
    BY <2>1, <2>3
<1>6. v \in [DOMAIN r.vs -> VswitchConf]
  BY <1>5
<1> HIDE DEF v
<1>7. Sized(q) /\ SameLinks(q, r) /\ q.vs = v
  BY <1>1, <1>4, <1>5, <1>6, NewIfs
<1>8. \A i \in DOMAIN q.vs : /\ i \in DOMAIN r.vs
                             /\ q.vs[i].deleted = r.vs[i].deleted
                             /\ \A k \in IfKind : q.vs[i].ifs[k] = new1(i, k)
  BY <1>5, <1>7 DEF SameLinks
<1>9. Closed(q)
  BY <1>1, <1>3, <1>8 DEF Closed
<1>10. Named(r) => Named(q)
  BY <1>3, <1>8 DEF Named
<1>11. Ringed(q, rg)
  <2> SUFFICES ASSUME NEW i \in DOMAIN q.vs, NEW k \in IfKind,
                      q.vs[i].ifs[k].open
               PROVE  rg[k][i - 1] = [alive |-> TRUE, gen |-> q.vs[i].ifs[k].ring]
    BY DEF Ringed
  <2> DEFINE g == rg[k][i - 1]
  <2>1. /\ i \in DOMAIN r.vs /\ r.vs[i].ifs[k].open
        /\ q.vs[i].ifs[k].ring = g.gen
    BY <1>3, <1>8
  <2>2. g.alive
    BY <2>1
  <2>3. g \in [alive : BOOLEAN, gen : 0 .. MaxGen]
    <3>1. DOMAIN r.vs = 1 .. Len(r.vs) /\ Len(r.vs) \in Nat
          /\ Len(r.vs) <= MaxVswitch /\ MaxVswitch \in Nat
      BY <1>1, RibFacts, SizeAssumption DEF Sized
    <3>2. \A n, m \in Nat : n <= m => \A j \in 1 .. n : j - 1 \in 0 .. m - 1
      OBVIOUS
    <3>3. i - 1 \in 0 .. MaxVswitch - 1
      BY <2>1, <3>1, <3>2
    <3> QED
      BY <3>3 DEF Rings
  <2> HIDE DEF g
  <2>4. g = [alive |-> TRUE, gen |-> g.gen]
    BY <2>2, <2>3
  <2> QED
    BY <2>1, <2>4 DEF g
<1> QED
  BY <1>7, <1>9, <1>10, <1>11, SameLinksGood

\* router_if_set and capture_if_set, before rib_check.
WithIf(r, s, k, tap, opened) ==
  [r EXCEPT !.vs[s].ifs[k] = [@ EXCEPT !.open = opened, !.tap = tap]]

LEMMA IfSetFacts ==
  ASSUME NEW r, Good(r), NEW s \in DOMAIN r.vs, ~r.vs[s].deleted,
         NEW k \in IfKind, NEW tap \in Tap, NEW opened \in BOOLEAN
  PROVE  LET q == WithIf(r, s, k, tap, opened) IN
         /\ Good(q)
         /\ opened /\ Named(r) => Named(q)
         /\ Complete(r) => Complete(q)
         /\ Ported(r) => Ported(q)
<1> DEFINE q == WithIf(r, s, k, tap, opened)
           x == r.vs[s]
           i1 == [open |-> opened, tap |-> tap, ring |-> x.ifs[k].ring]
           f == [x.ifs EXCEPT ![k] = i1]
           y == [x EXCEPT !.ifs = f]
           v == [r.vs EXCEPT ![s] = y]
<1>1. /\ Sized(r) /\ Closed(r) /\ r \in Rib
      /\ \A i \in DOMAIN r.vs : r.vs[i] \in VswitchConf
      /\ r.vs \in [DOMAIN r.vs -> VswitchConf]
  BY RibFacts DEF Good, Sized
<1>2. x \in VswitchConf /\ x.ifs \in [IfKind -> TapIf] /\ x.ifs[k] \in TapIf
  BY <1>1 DEF VswitchConf
<1>3. i1 \in TapIf /\ i1.open = opened /\ i1.tap = tap
  BY <1>2 DEF TapIf
<1>4. q = [vs |-> v, link |-> r.link, port |-> r.port]
  <2> DEFINE y1 == [x EXCEPT !.ifs[k] = [@ EXCEPT !.open = opened, !.tap = tap]]
  <2>1. [x.ifs[k] EXCEPT !.open = opened, !.tap = tap] = i1
    <3> DEFINE z == x.ifs[k]
    <3>1. z \in TapIf
      BY <1>2
    <3> HIDE DEF z
    <3>2. [z EXCEPT !.open = opened, !.tap = tap]
            = [open |-> opened, tap |-> tap, ring |-> z.ring]
      <4> DEFINE z1 == [z EXCEPT !.open = opened]
                 z2 == [z1 EXCEPT !.tap = tap]
      <4>1. z1 = [open |-> opened, tap |-> z.tap, ring |-> z.ring]
        BY <3>1 DEF TapIf
      <4> HIDE DEF z1
      <4>2. z2 = [open |-> opened, tap |-> tap, ring |-> z.ring]
        BY <4>1
      <4>3. [z EXCEPT !.open = opened, !.tap = tap] = z2
        BY DEF z1
      <4> HIDE DEF z2
      <4> QED
        BY <4>2, <4>3
    <3> QED
      BY <3>2 DEF z
  <2>2. y1 = y
    BY <2>1
  <2>3. q = [r EXCEPT !.vs = [r.vs EXCEPT ![s] = y1]]
    BY DEF WithIf
  <2>4. q = [r EXCEPT !.vs = v]
    BY <2>2, <2>3
  <2> HIDE DEF v, q
  <2> QED
    BY <1>1, <2>4 DEF Rib
<1> SUFFICES /\ Good(q)
             /\ opened /\ Named(r) => Named(q)
             /\ Complete(r) => Complete(q)
             /\ Ported(r) => Ported(q)
  OBVIOUS
<1> HIDE DEF q
<1> HIDE DEF i1, x
<1>5. f \in [IfKind -> TapIf] /\ f[k] = i1
      /\ \A j \in IfKind : j # k => f[j] = x.ifs[j]
  BY <1>2, <1>3
<1> HIDE DEF f
<1>6. /\ y \in VswitchConf /\ y.id = x.id /\ y.deleted = x.deleted
      /\ y.links = x.links /\ y.ifs = f
  BY <1>2, <1>5 DEF VswitchConf
<1> HIDE DEF y
<1>7. /\ v \in [DOMAIN r.vs -> VswitchConf] /\ v[s] = y
      /\ \A i \in DOMAIN r.vs : i # s => v[i] = r.vs[i]
  BY <1>1, <1>6
<1> HIDE DEF v
<1>8. \A i \in DOMAIN r.vs :
        /\ v[i].id = r.vs[i].id /\ v[i].deleted = r.vs[i].deleted
        /\ v[i].links = r.vs[i].links
  BY <1>6, <1>7 DEF x
<1>9. Sized(q) /\ SameLinks(q, r) /\ q.vs = v
  BY <1>1, <1>4, <1>7, <1>8, NewIfs
<1>10. /\ DOMAIN q.vs = DOMAIN r.vs
       /\ \A i \in DOMAIN r.vs, j \in IfKind :
            /\ i = s /\ j = k => q.vs[i].ifs[j] = i1
            /\ ~(i = s /\ j = k) => q.vs[i].ifs[j] = r.vs[i].ifs[j]
  <2> SUFFICES ASSUME NEW i \in DOMAIN r.vs, NEW j \in IfKind
               PROVE  /\ i = s /\ j = k => q.vs[i].ifs[j] = i1
                      /\ ~(i = s /\ j = k) => q.vs[i].ifs[j] = r.vs[i].ifs[j]
    BY <1>9 DEF SameLinks
  <2>1. CASE i = s
    BY <1>5, <1>6, <1>7, <1>9, <2>1 DEF x
  <2>2. CASE i # s
    BY <1>7, <1>9, <2>2
  <2> QED
    BY <2>1, <2>2
<1>11. Closed(q)
  <2> SUFFICES ASSUME NEW i \in DOMAIN r.vs, NEW j \in IfKind, q.vs[i].deleted
               PROVE  ~q.vs[i].ifs[j].open
    BY <1>10 DEF Closed
  <2>1. r.vs[i].deleted /\ i # s
    BY <1>9 DEF SameLinks
  <2> QED
    BY <1>1, <1>10, <2>1 DEF Closed
<1>12. ASSUME opened, Named(r) PROVE Named(q)
  <2> SUFFICES ASSUME NEW i \in DOMAIN r.vs, NEW j \in IfKind,
                      ~q.vs[i].ifs[j].open
               PROVE  q.vs[i].ifs[j].tap = NoTap
    BY <1>10 DEF Named
  <2>1. ~(i = s /\ j = k)
    BY <1>3, <1>10, <1>12
  <2>2. q.vs[i].ifs[j] = r.vs[i].ifs[j]
    BY <1>10, <2>1
  <2> QED
    BY <1>12, <2>2 DEF Named
<1> QED
  BY <1>9, <1>11, <1>12, SameLinksGood

-----------------------------------------------------------------------------
(* Links are added.                                                        *)

LEMMA SlotFacts ==
  ASSUME site \in Site, NEW r, Sized(r)
  PROVE  LET l == LinkSlot(r) IN
         l # 0 => /\ l \in 1 .. MaxLink
                  /\ l \in DOMAIN r.link => r.link[l].deleted
                  /\ l \notin DOMAIN r.link =>
                       /\ l = Len(r.link) + 1 /\ Len(r.link) < MaxLink
                       /\ \A m \in DOMAIN r.link : ~r.link[m].deleted
<1> DEFINE dead == {l \in DOMAIN r.link : r.link[l].deleted}
<1>1. /\ DOMAIN r.link = 1 .. Len(r.link) /\ Len(r.link) \in Nat
      /\ Len(r.link) <= MaxLink /\ MaxLink \in Nat
  BY RibFacts, SiteAssumption DEF Sized, MaxLink
<1>2. CASE dead # {}
  <2>1. Min(dead) \in dead
    <3>1. dead \in SUBSET Nat
      BY <1>1
    <3> HIDE DEF dead
    <3> QED
      BY <1>2, <3>1, MinFacts
  <2>2. LinkSlot(r) = Min(dead)
    BY <1>2 DEF LinkSlot
  <2>3. \A n, m \in Nat : n <= m => \A i \in 1 .. n : i \in 1 .. m
    OBVIOUS
  <2>4. Min(dead) \in 1 .. MaxLink
    <3>1. Min(dead) \in 1 .. Len(r.link)
      BY <1>1, <2>1
    <3> QED
      BY <1>1, <2>3, <3>1
  <2> QED
    BY <2>1, <2>2, <2>4
<1>3. CASE dead = {} /\ Len(r.link) < MaxLink
  <2>1. LinkSlot(r) = Len(r.link) + 1
    BY <1>3 DEF LinkSlot
  <2>2. \A n, m \in Nat : n < m => n + 1 \in 1 .. m
    OBVIOUS
  <2> QED
    BY <1>1, <1>3, <2>1, <2>2
<1>4. CASE dead = {} /\ ~(Len(r.link) < MaxLink)
  BY <1>4 DEF LinkSlot
<1> QED
  BY <1>2, <1>3, <1>4

LEMMA PortAddFacts ==
  ASSUME site \in Site, NEW conf \in PortConf, NEW l \in 1 .. MaxLink, NEW tag
  PROVE  LET c == PortAdd(conf, l, tag) IN
         /\ c \in PortConf
         /\ tag = 0 => c.native = l /\ c.vlans = conf.vlans
         /\ tag # 0 =>
              /\ c.native = conf.native
              /\ c.vlans = IF Len(conf.vlans) < MaxVlan THEN Append(conf.vlans, l)
                                                        ELSE conf.vlans
<1>1. conf.vlans \in Seq(1 .. MaxLink) /\ conf.native \in 0 .. MaxLink
  BY DEF PortConf
<1>2. MaxLink \in Nat
  BY SiteAssumption DEF MaxLink
<1>3. l \in 0 .. MaxLink
  BY <1>2
<1>4. Append(conf.vlans, l) \in Seq(1 .. MaxLink)
  BY <1>1
<1>5. CASE tag = 0
  <2>1. PortAdd(conf, l, tag) = [conf EXCEPT !.native = l]
    BY <1>5 DEF PortAdd
  <2> QED
    BY <1>3, <1>5, <2>1 DEF PortConf
<1>6. CASE tag # 0 /\ Len(conf.vlans) < MaxVlan
  <2> DEFINE x == Append(conf.vlans, l)
  <2>1. PortAdd(conf, l, tag) = [conf EXCEPT !.vlans = x]
    BY <1>6 DEF PortAdd
  <2> HIDE DEF x
  <2>2. x \in Seq(1 .. MaxLink)
    BY <1>4 DEF x
  <2>3. /\ [conf EXCEPT !.vlans = x] \in PortConf
        /\ [conf EXCEPT !.vlans = x].vlans = x
        /\ [conf EXCEPT !.vlans = x].native = conf.native
    BY <2>2 DEF PortConf
  <2> QED
    BY <1>6, <2>1, <2>3 DEF x
<1>7. CASE tag # 0 /\ ~(Len(conf.vlans) < MaxVlan)
  BY <1>7 DEF PortAdd
<1> QED
  BY <1>5, <1>6, <1>7

LEMMA AddShape ==
  ASSUME site \in Site, known \in BOOLEAN, NEW r, Sized(r),
         NEW s \in DOMAIN r.vs, NEW p \in Port, NEW tag \in AllTags \cup {0},
         LinkSlot(r) # 0
  PROVE  LET q == AddLink(r, s, p, tag)
             l == LinkSlot(r)
         IN  /\ Sized(q)
             /\ DOMAIN q.link = DOMAIN r.link \cup {l}
             /\ q.link[l] = [vs |-> r.vs[s].id, port |-> IF known THEN p ELSE 0,
                             tag |-> tag, deleted |-> FALSE]
             /\ \A m \in DOMAIN r.link : m # l => q.link[m] = r.link[m]
             /\ DOMAIN q.vs = DOMAIN r.vs
             /\ \A i \in DOMAIN r.vs :
                  /\ q.vs[i].id = r.vs[i].id /\ q.vs[i].deleted = r.vs[i].deleted
                  /\ q.vs[i].ifs = r.vs[i].ifs
                  /\ q.vs[i].links =
                       IF i = s /\ Len(r.vs[s].links) < MaxPorts
                       THEN Append(r.vs[i].links, l) ELSE r.vs[i].links
             /\ \A x \in Port :
                  q.port[x] = IF x = p THEN PortAdd(r.port[x], l, tag)
                              ELSE r.port[x]
<1> DEFINE q == AddLink(r, s, p, tag)
           l == LinkSlot(r)
           lk == [vs |-> r.vs[s].id, port |-> IF known THEN p ELSE 0,
                  tag |-> tag, deleted |-> FALSE]
           room == Len(r.vs[s].links) < MaxPorts
           k == IF l \in DOMAIN r.link THEN [r.link EXCEPT ![l] = lk]
                                       ELSE Append(r.link, lk)
           y == [r.vs[s] EXCEPT !.links = Append(r.vs[s].links, l)]
           v == IF room THEN [r.vs EXCEPT ![s] = y] ELSE r.vs
           pt == [r.port EXCEPT ![p] = PortAdd(@, l, tag)]
<1>1. /\ r \in Rib /\ r.vs \in Seq(VswitchConf) /\ r.link \in Seq(Link)
      /\ r.vs \in [DOMAIN r.vs -> VswitchConf]
      /\ r.link \in [DOMAIN r.link -> Link]
      /\ r.port \in [Port -> PortConf]
      /\ Len(r.vs) <= MaxVswitch /\ Len(r.link) <= MaxLink
      /\ Len(r.link) \in Nat
      /\ r.vs[s] \in VswitchConf
  BY RibFacts DEF Sized
<1>2. /\ l \in 1 .. MaxLink /\ MaxLink \in Nat
      /\ l \notin DOMAIN r.link => l = Len(r.link) + 1
  BY SlotFacts, SiteAssumption DEF MaxLink
<1>3. lk \in Link
  <2>1. r.vs[s].id \in VswitchId
    BY <1>1 DEF VswitchConf
  <2>2. (IF known THEN p ELSE 0) \in Port
    BY IdAssumption
  <2> QED
    BY <2>1, <2>2 DEF Link
<1>4. q = [vs |-> v, link |-> k, port |-> pt]
  <2> DEFINE r1 == PutLink(r, l, lk)
             r2 == IF room THEN [r1 EXCEPT !.vs[s].links = Append(@, l)] ELSE r1
  <2>1. q = [r2 EXCEPT !.port[p] = PortAdd(@, l, tag)]
    BY DEF AddLink
  <2> HIDE DEF lk, l, room, q
  <2>2. r1 = [vs |-> r.vs, link |-> k, port |-> r.port]
    BY <1>1 DEF PutLink, Rib
  <2> HIDE DEF r1, k
  <2>3. r2 = [vs |-> v, link |-> k, port |-> r.port]
    BY <2>2
  <2> HIDE DEF r2, v
  <2>4. q = [r2 EXCEPT !.port = pt]
    BY <2>1, <2>3
  <2> HIDE DEF pt
  <2> QED
    BY <2>3, <2>4
<1> HIDE DEF q, l, lk, room
<1>5. /\ k \in Seq(Link) /\ Len(k) <= MaxLink
      /\ DOMAIN k = DOMAIN r.link \cup {l}
      /\ k[l] = lk /\ \A m \in DOMAIN r.link : m # l => k[m] = r.link[m]
  <2>1. CASE l \in DOMAIN r.link
    <3>1. /\ k \in [DOMAIN r.link -> Link] /\ k[l] = lk
          /\ \A m \in DOMAIN r.link : m # l => k[m] = r.link[m]
      BY <1>1, <1>3, <2>1
    <3> HIDE DEF k
    <3>2. k \in Seq(Link) /\ Len(k) = Len(r.link) /\ DOMAIN k = DOMAIN r.link
      BY <1>1, <3>1, SameLength
    <3>3. Len(k) <= MaxLink
      BY <1>1, <3>2
    <3> QED
      BY <2>1, <3>1, <3>2, <3>3
  <2>2. CASE l \notin DOMAIN r.link
    <3>1. k = Append(r.link, lk) /\ l = Len(r.link) + 1
      BY <1>2, <2>2
    <3>2. /\ Append(r.link, lk) \in Seq(Link)
          /\ DOMAIN Append(r.link, lk) = DOMAIN r.link \cup {Len(r.link) + 1}
          /\ Len(Append(r.link, lk)) = Len(r.link) + 1
          /\ Append(r.link, lk)[Len(r.link) + 1] = lk
          /\ \A j \in DOMAIN r.link : Append(r.link, lk)[j] = r.link[j]
      BY <1>1, <1>3, AppendedFacts
    <3>3. Len(r.link) + 1 <= MaxLink
      BY <1>2, <3>1
    <3> HIDE DEF k
    <3> QED
      BY <3>1, <3>2, <3>3
  <2> QED
    BY <2>1, <2>2
<1>6. /\ y \in VswitchConf /\ y.id = r.vs[s].id /\ y.deleted = r.vs[s].deleted
      /\ y.ifs = r.vs[s].ifs /\ y.links = Append(r.vs[s].links, l)
  <2> DEFINE x == r.vs[s]
             L == Append(x.links, l)
  <2>1. x \in VswitchConf /\ x.links \in Seq(1 .. MaxLink)
    BY <1>1 DEF VswitchConf
  <2>2. L \in Seq(1 .. MaxLink)
    BY <1>2, <2>1
  <2>3. y = [x EXCEPT !.links = L]
    OBVIOUS
  <2> HIDE DEF x, L, y
  <2>4. /\ y \in VswitchConf /\ y.id = x.id /\ y.deleted = x.deleted
        /\ y.ifs = x.ifs /\ y.links = L
    BY <2>1, <2>2, <2>3 DEF VswitchConf
  <2> QED
    BY <2>4 DEF x, L
<1> HIDE DEF y
<1>7. /\ v \in [DOMAIN r.vs -> VswitchConf]
      /\ \A i \in DOMAIN r.vs : v[i] = IF i = s /\ room THEN y ELSE r.vs[i]
  BY <1>1, <1>6
<1> HIDE DEF v, k
<1>8. v \in Seq(VswitchConf) /\ Len(v) = Len(r.vs) /\ DOMAIN v = DOMAIN r.vs
  BY <1>1, <1>7, SameLength
<1>9. /\ pt \in [Port -> PortConf]
      /\ \A x \in Port : pt[x] = IF x = p THEN PortAdd(r.port[x], l, tag)
                                 ELSE r.port[x]
  <2>1. PortAdd(r.port[p], l, tag) \in PortConf
    BY <1>1, <1>2, PortAddFacts
  <2> QED
    BY <1>1, <2>1
<1> HIDE DEF pt
<1>10. Sized(q) /\ q.vs = v /\ q.link = k /\ q.port = pt
  <2>1. Len(v) <= MaxVswitch
    BY <1>1, <1>8
  <2>2. q \in Rib /\ q.vs = v /\ q.link = k /\ q.port = pt
    BY <1>4, <1>5, <1>8, <1>9 DEF Rib
  <2> QED
    BY <1>5, <2>1, <2>2 DEF Sized
<1>11. \A i \in DOMAIN r.vs :
         /\ v[i].id = r.vs[i].id /\ v[i].deleted = r.vs[i].deleted
         /\ v[i].ifs = r.vs[i].ifs
         /\ v[i].links = IF i = s /\ room THEN Append(r.vs[i].links, l)
                         ELSE r.vs[i].links
  <2> SUFFICES ASSUME NEW i \in DOMAIN r.vs
       PROVE
         /\ v[i].id = r.vs[i].id /\ v[i].deleted = r.vs[i].deleted
         /\ v[i].ifs = r.vs[i].ifs
         /\ v[i].links = IF i = s /\ room THEN Append(r.vs[i].links, l)
                         ELSE r.vs[i].links
    OBVIOUS
  <2>1. CASE i = s /\ room
    BY <1>6, <1>7, <2>1
  <2>2. CASE ~(i = s /\ room)
    BY <1>7, <2>2
  <2> QED
    BY <2>1, <2>2
<1>12. /\ Sized(q)
       /\ DOMAIN q.link = DOMAIN r.link \cup {l}
       /\ q.link[l] = lk
       /\ \A m \in DOMAIN r.link : m # l => q.link[m] = r.link[m]
       /\ DOMAIN q.vs = DOMAIN r.vs
       /\ \A i \in DOMAIN r.vs :
            /\ q.vs[i].id = r.vs[i].id /\ q.vs[i].deleted = r.vs[i].deleted
            /\ q.vs[i].ifs = r.vs[i].ifs
            /\ q.vs[i].links = IF i = s /\ room THEN Append(r.vs[i].links, l)
                               ELSE r.vs[i].links
       /\ \A x \in Port : q.port[x] = IF x = p THEN PortAdd(r.port[x], l, tag)
                                      ELSE r.port[x]
  BY <1>5, <1>8, <1>9, <1>10, <1>11
<1> QED
  BY <1>12 DEF q, l, lk, room

LEMMA AddGood ==
  ASSUME known \in BOOLEAN, NEW r, Good(r), NEW s \in DOMAIN r.vs,
         ~r.vs[s].deleted, NEW p \in Port, NEW tag \in AllTags \cup {0}
  PROVE  LET q == AddLink(r, s, p, tag)
             full == LinkSlot(r) = 0
         IN  /\ Good(q)
             /\ Named(r) => Named(q)
             /\ \A rg : Ringed(r, rg) => Ringed(q, rg)
             /\ Complete(r) /\ (~full => Len(r.vs[s].links) < MaxPorts)
                  => Complete(q)
             /\ /\ Ported(r) /\ known
                /\ ~full /\ tag # 0 => Len(r.port[p].vlans) < MaxVlan
                => Ported(q)
<1> DEFINE q == AddLink(r, s, p, tag)
           l == LinkSlot(r)
           lk == [vs |-> r.vs[s].id, port |-> IF known THEN p ELSE 0,
                  tag |-> tag, deleted |-> FALSE]
           room == Len(r.vs[s].links) < MaxPorts
<1>1. CASE l = 0
  <2>1. q = r
    BY <1>1 DEF AddLink
  <2> QED
    BY <1>1, <2>1
<1>2. CASE l # 0
  <2>1. /\ site \in Site /\ Sized(r) /\ Unique(r) /\ Listed(r) /\ Closed(r)
        /\ r \in Rib /\ DOMAIN r.vs = 1 .. Len(r.vs) /\ Len(r.vs) \in Nat
        /\ DOMAIN r.link = 1 .. Len(r.link) /\ Len(r.link) \in Nat
        /\ \A i \in DOMAIN r.vs : r.vs[i].links \in Seq(1 .. MaxLink)
        /\ \A x \in Port : r.port[x] \in PortConf
    BY RibFacts DEF Good, Sized, VswitchConf
  <2>2. /\ l \in 1 .. MaxLink
        /\ l \in DOMAIN r.link => r.link[l].deleted
        /\ l \notin DOMAIN r.link => \A m \in DOMAIN r.link : ~r.link[m].deleted
    BY <1>2, <2>1, SlotFacts
  <2>3. /\ Sized(q)
        /\ DOMAIN q.link = DOMAIN r.link \cup {l}
        /\ q.link[l] = lk
        /\ \A m \in DOMAIN r.link : m # l => q.link[m] = r.link[m]
        /\ DOMAIN q.vs = DOMAIN r.vs
        /\ \A i \in DOMAIN r.vs :
             /\ q.vs[i].id = r.vs[i].id /\ q.vs[i].deleted = r.vs[i].deleted
             /\ q.vs[i].ifs = r.vs[i].ifs
             /\ q.vs[i].links = IF i = s /\ room THEN Append(r.vs[i].links, l)
                                ELSE r.vs[i].links
        /\ \A x \in Port : q.port[x] = IF x = p THEN PortAdd(r.port[x], l, tag)
                                       ELSE r.port[x]
    <3>1. site \in Site /\ Sized(r) /\ LinkSlot(r) # 0
      BY <1>2, <2>1
    <3> QED
      BY <3>1, AddShape
  <2> SUFFICES /\ Good(q)
               /\ Named(r) => Named(q)
               /\ \A rg : Ringed(r, rg) => Ringed(q, rg)
               /\ Complete(r) /\ room => Complete(q)
               /\ /\ Ported(r) /\ known
                  /\ tag # 0 => Len(r.port[p].vlans) < MaxVlan
                  => Ported(q)
    BY <1>2
  <2>4. /\ lk.vs = r.vs[s].id /\ lk.port = (IF known THEN p ELSE 0)
        /\ lk.tag = tag /\ ~lk.deleted
    OBVIOUS
  <2> HIDE DEF q, l, lk, room
  <2>5. Unique(q)
    <3> SUFFICES ASSUME NEW t \in DOMAIN q.vs, ~q.vs[t].deleted,
                        NEW i \in 1 .. t - 1
                 PROVE  q.vs[i].id # q.vs[t].id
      BY DEF Unique
    <3>1. i \in DOMAIN r.vs /\ t \in DOMAIN r.vs
      BY <2>1, <2>3
    <3> QED
      <4>1. /\ q.vs[i].id = r.vs[i].id /\ q.vs[t].id = r.vs[t].id
            /\ ~r.vs[t].deleted
        BY <2>3, <3>1
      <4>2. r.vs[i].id # r.vs[t].id
        BY <2>1, <3>1, <4>1 DEF Unique
      <4> QED
        BY <4>1, <4>2
  <2>6. /\ LiveLinks(q) = LiveLinks(r) \cup {l} /\ l \notin LiveLinks(r)
        /\ LiveLinks(r) \subseteq DOMAIN r.link
    BY <2>2, <2>3, <2>4 DEF LiveLinks
  <2>7. \A m \in LiveLinks(r) : q.link[m] = r.link[m]
    BY <2>3, <2>6
  <2>8. \A i \in DOMAIN r.vs :
          /\ IsInjective(r.vs[i].links)
          /\ ~r.vs[i].deleted => \A a \in DOMAIN r.vs[i].links :
               /\ r.vs[i].links[a] \in LiveLinks(r)
               /\ r.link[r.vs[i].links[a]].vs = r.vs[i].id
    BY <2>1 DEF Listed
  <2> DEFINE L == r.vs[s].links
  <2>9. /\ DOMAIN Append(L, l) = DOMAIN L \cup {Len(L) + 1}
        /\ Append(L, l)[Len(L) + 1] = l /\ Len(L) + 1 \notin DOMAIN L
        /\ \A j \in DOMAIN L : Append(L, l)[j] = L[j]
    <3>1. L \in Seq(1 .. MaxLink)
      BY <2>1
    <3> HIDE DEF L
    <3>2. Len(L) + 1 \notin DOMAIN L
      BY <3>1
    <3> QED
      BY <2>2, <3>1, <3>2, AppendedFacts
  <2>10. ASSUME NEW i \in DOMAIN r.vs
         PROVE  /\ IsInjective(q.vs[i].links)
                /\ ~r.vs[i].deleted => \A a \in DOMAIN q.vs[i].links :
                     /\ q.vs[i].links[a] \in LiveLinks(q)
                     /\ q.link[q.vs[i].links[a]].vs = r.vs[i].id
    <3>1. CASE i = s /\ room
      <4>1. q.vs[i].links = Append(L, l)
        BY <2>3, <3>1
      <4>2. /\ IsInjective(L)
            /\ \A a \in DOMAIN L : L[a] \in LiveLinks(r) /\ r.link[L[a]].vs = r.vs[s].id
        BY <2>8
      <4> HIDE DEF L
      <4>3. \A a \in DOMAIN L : L[a] # l
        BY <2>6, <4>2
      <4>4. IsInjective(Append(L, l))
        BY <2>9, <4>2, <4>3 DEF IsInjective
      <4>5. \A a \in DOMAIN Append(L, l) :
              /\ Append(L, l)[a] \in LiveLinks(q)
              /\ q.link[Append(L, l)[a]].vs = r.vs[s].id
        <5> SUFFICES ASSUME NEW a \in DOMAIN Append(L, l)
                     PROVE  /\ Append(L, l)[a] \in LiveLinks(q)
                            /\ q.link[Append(L, l)[a]].vs = r.vs[s].id
          OBVIOUS
        <5>1. CASE a = Len(L) + 1
          BY <2>3, <2>4, <2>6, <2>9, <5>1
        <5>2. CASE a # Len(L) + 1
          <6>1. a \in DOMAIN L /\ Append(L, l)[a] = L[a]
            BY <2>9, <5>2
          <6> QED
            BY <2>6, <2>7, <4>2, <6>1
        <5> QED
          BY <5>1, <5>2
      <4> QED
        BY <3>1, <4>1, <4>4, <4>5
    <3>2. CASE ~(i = s /\ room)
      <4>1. q.vs[i].links = r.vs[i].links
        BY <2>3, <3>2
      <4> QED
        BY <2>6, <2>7, <2>8, <4>1
    <3> QED
      BY <3>1, <3>2
  <2>11. Listed(q)
    BY <2>3, <2>10 DEF Listed
  <2>12. Closed(q)
    BY <2>1, <2>3 DEF Closed
  <2>13. Named(r) => Named(q)
    BY <2>3 DEF Named
  <2>14. ASSUME NEW rg, Ringed(r, rg) PROVE Ringed(q, rg)
    <3> SUFFICES ASSUME NEW i \in DOMAIN q.vs, NEW k \in IfKind,
                        q.vs[i].ifs[k].open
                 PROVE  rg[k][i - 1] = [alive |-> TRUE, gen |-> q.vs[i].ifs[k].ring]
      BY DEF Ringed
    <3>1. i \in DOMAIN r.vs /\ q.vs[i].ifs = r.vs[i].ifs
      BY <2>3
    <3> QED
      BY <2>14, <3>1 DEF Ringed
  <2>15. ASSUME Complete(r), room PROVE Complete(q)
    <3> SUFFICES ASSUME NEW m \in LiveLinks(q)
                 PROVE  \E t \in DOMAIN q.vs :
                          /\ ~q.vs[t].deleted /\ q.vs[t].id = q.link[m].vs
                          /\ \E i \in DOMAIN q.vs[t].links : q.vs[t].links[i] = m
      BY DEF Complete
    <3>1. CASE m = l
      <4>1. q.vs[s].links = Append(L, l)
        BY <2>3, <2>15
      <4>2. \E i \in DOMAIN q.vs[s].links : q.vs[s].links[i] = l
        BY <2>9, <4>1
      <4> QED
        BY <2>3, <2>4, <3>1, <4>2
    <3>2. CASE m # l
      <4>1. PICK t \in DOMAIN r.vs :
              /\ ~r.vs[t].deleted /\ r.vs[t].id = r.link[m].vs
              /\ \E i \in DOMAIN r.vs[t].links : r.vs[t].links[i] = m
        BY <2>6, <2>15, <3>2 DEF Complete
      <4>2. q.link[m] = r.link[m]
        BY <2>6, <2>7, <3>2
      <4>3. \E i \in DOMAIN q.vs[t].links : q.vs[t].links[i] = m
        <5>1. CASE t = s
          BY <2>3, <2>9, <2>15, <4>1, <5>1
        <5>2. CASE t # s
          BY <2>3, <4>1, <5>2
        <5> QED
          BY <5>1, <5>2
      <4> QED
        BY <2>3, <4>1, <4>2, <4>3
    <3> QED
      BY <3>1, <3>2
  <2>16. ASSUME Ported(r), known, tag # 0 => Len(r.port[p].vlans) < MaxVlan
         PROVE  Ported(q)
    <3>1. /\ \A m \in DOMAIN r.link : ~r.link[m].deleted
          /\ l \notin DOMAIN r.link
      BY <2>2, <2>16 DEF Ported
    <3>2. \A m \in DOMAIN r.link : q.link[m] = r.link[m]
      BY <2>3, <3>1
    <3> DEFINE c == PortAdd(r.port[p], l, tag)
               V == r.port[p].vlans
    <3>3. /\ q.port[p] = c
          /\ \A x \in Port : x # p => q.port[x] = r.port[x]
      BY <2>3
    <3>4. /\ tag = 0 => c.native = l /\ c.vlans = V
          /\ tag # 0 => c.native = r.port[p].native /\ c.vlans = Append(V, l)
      <4>1. /\ tag = 0 => c.native = l /\ c.vlans = V
            /\ tag # 0 =>
                 /\ c.native = r.port[p].native
                 /\ c.vlans = IF Len(V) < MaxVlan THEN Append(V, l) ELSE V
        <5>1. r.port[p] \in PortConf
          BY <2>1
        <5> QED
          BY <2>1, <2>2, <5>1, PortAddFacts
      <4>2. tag # 0 => Len(V) < MaxVlan
        BY <2>16
      <4> HIDE DEF c, V
      <4> QED
        BY <4>1, <4>2
    <3>5. /\ DOMAIN Append(V, l) = DOMAIN V \cup {Len(V) + 1}
          /\ Append(V, l)[Len(V) + 1] = l
          /\ \A j \in DOMAIN V : Append(V, l)[j] = V[j]
      <4>1. V \in Seq(1 .. MaxLink)
        BY <2>1 DEF PortConf
      <4> HIDE DEF V
      <4> QED
        BY <2>2, <4>1, AppendedFacts
    <3> HIDE DEF c
    <3>6. lk.port = p /\ q.link[l].port = p /\ q.link[l].tag = tag
      BY <2>3, <2>4, <2>16
    <3>7. \A m \in DOMAIN q.link : ~q.link[m].deleted
      BY <2>3, <2>4, <3>1
    <3>8. ASSUME NEW x \in Port, NEW i \in DOMAIN q.port[x].vlans
          PROVE  /\ q.port[x].vlans[i] \in DOMAIN q.link
                 /\ q.link[q.port[x].vlans[i]].port = x
      <4>1. CASE x # p \/ tag = 0
        <5>1. q.port[x].vlans = r.port[x].vlans
          BY <3>3, <3>4, <4>1
        <5>2. /\ r.port[x].vlans[i] \in DOMAIN r.link
              /\ r.link[r.port[x].vlans[i]].port = x
          BY <2>16, <3>8, <5>1 DEF Ported
        <5> QED
          BY <2>3, <3>2, <5>1, <5>2
      <4>2. CASE x = p /\ tag # 0
        <5>1. q.port[x].vlans = Append(V, l)
          BY <3>3, <3>4, <4>2
        <5>2. CASE i = Len(V) + 1
          BY <2>3, <3>5, <3>6, <4>2, <5>1, <5>2
        <5>3. CASE i # Len(V) + 1
          <6>1. i \in DOMAIN V /\ q.port[x].vlans[i] = V[i]
            BY <3>5, <3>8, <5>1, <5>3
          <6>2. V[i] \in DOMAIN r.link /\ r.link[V[i]].port = x
            BY <2>16, <4>2, <6>1 DEF Ported
          <6> QED
            BY <2>3, <3>2, <6>1, <6>2
        <5> QED
          BY <5>2, <5>3
      <4> QED
        BY <4>1, <4>2
    <3>9. ASSUME NEW m \in DOMAIN q.link
          PROVE  LET conf == q.port[q.link[m].port] IN
                 /\ q.link[m].tag # 0 =>
                      \E i \in DOMAIN conf.vlans : conf.vlans[i] = m
                 /\ q.link[m].tag = 0 =>
                      /\ conf.native \in DOMAIN q.link
                      /\ q.link[conf.native].port = q.link[m].port
                      /\ q.link[conf.native].tag = 0
      <4>1. CASE m = l
        <5>1. q.link[m].port = p /\ q.link[m].tag = tag /\ q.port[p] = c
          BY <3>3, <3>6, <4>1
        <5>2. CASE tag = 0
          BY <2>3, <3>4, <3>6, <4>1, <5>1, <5>2
        <5>3. CASE tag # 0
          BY <3>4, <3>5, <4>1, <5>1, <5>3
        <5> QED
          BY <5>2, <5>3
      <4>2. CASE m # l
        <5> DEFINE x == r.link[m].port
        <5>1. m \in DOMAIN r.link /\ q.link[m] = r.link[m]
          BY <2>3, <3>2, <4>2
        <5>2. x \in Port
          <6>1. r.link[m] \in Link
            BY <2>1, <5>1, RibFacts
          <6> QED
            BY <6>1 DEF Link
        <5>3. /\ r.link[m].tag # 0 =>
                   \E i \in DOMAIN r.port[x].vlans : r.port[x].vlans[i] = m
              /\ r.link[m].tag = 0 =>
                   /\ r.port[x].native \in DOMAIN r.link
                   /\ r.link[r.port[x].native].port = x
                   /\ r.link[r.port[x].native].tag = 0
          BY <2>16, <5>1 DEF Ported
        <5> HIDE DEF x
        <5>4. r.link[m].tag # 0 =>
                \E i \in DOMAIN q.port[x].vlans : q.port[x].vlans[i] = m
          <6>1. CASE x # p \/ tag = 0
            <7>1. q.port[x].vlans = r.port[x].vlans
              BY <3>3, <3>4, <5>2, <6>1
            <7> QED
              BY <5>3, <7>1
          <6>2. CASE x = p /\ tag # 0
            <7>1. q.port[x].vlans = Append(V, l)
              BY <3>3, <3>4, <6>2
            <7> QED
              BY <3>5, <5>3, <6>2, <7>1
          <6> QED
            BY <6>1, <6>2
        <5>5. r.link[m].tag = 0 =>
                /\ q.port[x].native \in DOMAIN q.link
                /\ q.link[q.port[x].native].port = x
                /\ q.link[q.port[x].native].tag = 0
          <6>1. CASE x # p \/ tag # 0
            <7>1. q.port[x].native = r.port[x].native
              BY <3>3, <3>4, <5>2, <6>1
            <7> QED
              BY <2>3, <3>2, <5>3, <7>1
          <6>2. CASE x = p /\ tag = 0
            BY <2>3, <3>3, <3>4, <3>6, <6>2
          <6> QED
            BY <6>1, <6>2
        <5> QED
          BY <5>1, <5>4, <5>5 DEF x
      <4> QED
        BY <4>1, <4>2
    <3> QED
      BY <3>7, <3>8, <3>9 DEF Ported
  <2> QED
    BY <2>1, <2>3, <2>5, <2>11, <2>12, <2>13, <2>14, <2>15, <2>16 DEF Good
<1> QED
  BY <1>1, <1>2

LEMMA HoldsKeeps ==
  ASSUME NEW q, NEW r, Holds(q, r)
  PROVE  Keeps(q, r)
<1>1. LiveLinks(q) \subseteq LiveLinks(r)
  BY DEF Holds, LiveLinks
<1> QED
  BY <1>1 DEF Holds, Keeps, LinkKept, LiveLinks

\* vswitch_link_new takes no slot of a link in use, and the port's entry is
\* the new link's or goes behind the others.
LEMMA AddKeeps ==
  ASSUME site \in Site, known \in BOOLEAN, known, NEW r, Sized(r), NEW s \in DOMAIN r.vs,
         NEW p \in Port, NEW tag \in AllTags \cup {0}
  PROVE  Keeps(AddLink(r, s, p, tag), r)
<1> DEFINE q == AddLink(r, s, p, tag)
           l == LinkSlot(r)
<1>1. CASE l = 0
  <2>1. q = r
    BY <1>1 DEF AddLink
  <2> QED
    BY <2>1, HoldsSame, HoldsKeeps
<1>2. CASE l # 0
  <2>0. /\ DOMAIN q.link = DOMAIN r.link \cup {l}
        /\ q.link[l] = [vs |-> r.vs[s].id, port |-> IF known THEN p ELSE 0,
                        tag |-> tag, deleted |-> FALSE]
        /\ \A m \in DOMAIN r.link : m # l => q.link[m] = r.link[m]
        /\ \A x \in Port : q.port[x] = IF x = p THEN PortAdd(r.port[x], l, tag)
                                       ELSE r.port[x]
    BY <1>2, AddShape
  <2>1. /\ DOMAIN q.link = DOMAIN r.link \cup {l}
        /\ q.link[l].port = p /\ q.link[l].tag = tag /\ ~q.link[l].deleted
        /\ \A m \in DOMAIN r.link : m # l => q.link[m] = r.link[m]
        /\ \A x \in Port : q.port[x] = IF x = p THEN PortAdd(r.port[x], l, tag)
                                       ELSE r.port[x]
    <3> HIDE DEF q, l
    <3> QED
      BY <2>0
  <2>2. l \in 1 .. MaxLink /\ (l \in DOMAIN r.link => r.link[l].deleted)
    BY <1>2, SlotFacts
  <2>3. /\ \A m \in DOMAIN r.link : r.link[m] \in Link
        /\ r.port \in [Port -> PortConf]
    BY RibFacts DEF Sized
  <2> HIDE DEF q, l
  <2>4. /\ LiveLinks(q) = LiveLinks(r) \cup {l} /\ l \notin LiveLinks(r)
        /\ \A m \in LiveLinks(r) : m \in DOMAIN r.link /\ q.link[m] = r.link[m]
    BY <2>1, <2>2 DEF LiveLinks
  <2> DEFINE old == r.port[p]
             now == q.port[p]
  <2>5. old \in PortConf /\ now = PortAdd(old, l, tag)
    BY <2>1, <2>3
  <2>6. old.vlans \in Seq(1 .. MaxLink)
    BY <2>5 DEF PortConf
  <2>7. /\ tag = 0 => now.native = l /\ now.vlans = old.vlans
        /\ tag # 0 =>
             /\ now.native = old.native
             /\ now.vlans = IF Len(old.vlans) < MaxVlan THEN Append(old.vlans, l)
                                                        ELSE old.vlans
    BY <2>2, <2>5, PortAddFacts
  <2> HIDE DEF old, now
  <2>8. /\ \A j \in DOMAIN old.vlans : \E i \in DOMAIN Append(old.vlans, l) :
             Append(old.vlans, l)[i] = old.vlans[j]
        /\ \E i \in DOMAIN Append(old.vlans, l) : Append(old.vlans, l)[i] = l
    BY <2>2, <2>6, AppendedFacts
  <2>9. LinkTaken(q, r, l)
    <3>1. CASE tag = 0
      BY <2>1, <2>7, <3>1 DEF LinkTaken, Heard, now
    <3>2. CASE tag # 0 /\ Len(old.vlans) < MaxVlan
      BY <2>1, <2>7, <2>8, <3>2 DEF LinkTaken, Heard, now
    <3>3. CASE tag # 0 /\ ~(Len(old.vlans) < MaxVlan)
      <4>1. Len(old.vlans) \in Nat /\ MaxVlan \in Nat
        BY <2>6, SizeAssumption
      <4>2. Len(old.vlans) >= MaxVlan
        BY <3>3, <4>1
      <4> QED
        BY <2>1, <3>3, <4>2 DEF LinkTaken, old
    <3> QED
      BY <3>1, <3>2, <3>3
  <2>10. ASSUME NEW m \in LiveLinks(r)
         PROVE  LinkKept(q, r, m)
    <3> DEFINE x == r.link[m].port
    <3>1. x \in Port /\ q.link[m] = r.link[m]
      BY <2>3, <2>4 DEF Link
    <3>2. CASE x # p
      <4>1. q.port[x] = r.port[x]
        BY <2>1, <3>1, <3>2
      <4> QED
        BY <3>1, <4>1 DEF LinkKept, Heard
    <3>3. CASE x = p /\ r.link[m].tag # 0
      <4>1. (\E j \in DOMAIN old.vlans : old.vlans[j] = m) =>
              \E i \in DOMAIN now.vlans : now.vlans[i] = m
        BY <2>7, <2>8
      <4>2. Heard(r, m) => Heard(q, m)
        BY <3>1, <3>3, <4>1 DEF Heard, old, now
      <4> QED
        BY <3>1, <4>2 DEF LinkKept
    <3>4. CASE x = p /\ r.link[m].tag = 0 /\ tag # 0
      <4>1. Heard(r, m) => Heard(q, m)
        BY <2>7, <3>1, <3>4 DEF Heard, old, now
      <4> QED
        BY <3>1, <4>1 DEF LinkKept
    <3>5. CASE x = p /\ r.link[m].tag = 0 /\ tag = 0
      BY <2>1, <2>4, <3>1, <3>5 DEF LinkKept
    <3> QED
      BY <3>2, <3>3, <3>4, <3>5
  <2>11. Keeps(q, r)
    BY <2>4, <2>9, <2>10 DEF Keeps
  <2> QED
    BY <2>11 DEF q
<1> QED
  BY <1>1, <1>2

-----------------------------------------------------------------------------
(* The steps of rib_manager.  Built gathers what the invariant says of a   *)
(* rib, published or under construction.                                   *)

Built(r, rg) ==
  /\ Good(r)
  /\ ~TapOpenFails => Named(r)
  /\ ~site.deletes => Ringed(r, rg)

LEMMA InvBuilt ==
  ASSUME VswitchInv
  PROVE  /\ Built(rib, ring) /\ site \in Site
         /\ new # NoRib => Built(new, ring)
         /\ ring \in Rings /\ known \in BOOLEAN
         /\ fault \in {"none", "bounds", "null"}
BY DEF VswitchInv, TypeOK, Ribs, Built, Good, Rings

LEMMA SiteKept ==
  ASSUME site' = site, NEW r, NEW rg, Built(r, rg)
  PROVE  Built(r, rg)'
BY DEF Built, Good, Sized, Unique, Listed, Closed, Named, Ringed, LiveLinks,
       Rib, VswitchConf, PortConf, Link, MaxLink

LEMMA BuiltInv ==
  ASSUME site' = site, ring' \in Rings, known' \in BOOLEAN,
         fault' \in {"none", "bounds", "null"},
         Built(rib', ring'), new' = NoRib \/ Built(new', ring')
  PROVE  VswitchInv'
<1>1. Built(rib, ring)' /\ (new' = NoRib \/ Built(new, ring)')
  BY SiteKept
<1>2. TypeOK'
  BY <1>1 DEF TypeOK, Built, Good, Sized, Rings
<1> QED
  BY <1>1, <1>2 DEF VswitchInv, Ribs, Built, Good

LEMMA VswitchSetBuilds ==
  ASSUME VswitchInv, NEW id \in VswitchId, NEW vlan \in Vlan,
         VswitchSet(id, vlan)
  PROVE  /\ Built(new', ring)
         /\ Complete(rib) => Complete(new')
         /\ Ported(rib) => Ported(new')
<1> DEFINE q == VswitchNew(rib, id, vlan)
<1>1. Built(rib, ring) /\ VswitchLookup(rib, id) = 0 /\ new' = q
  BY InvBuilt DEF VswitchSet
<1>2. /\ Good(q)
      /\ Named(rib) => Named(q)
      /\ Complete(rib) => Complete(q)
      /\ Ported(rib) => Ported(q)
      /\ \A rg : Ringed(rib, rg) => Ringed(q, rg)
  BY <1>1, NewGood DEF Built
<1> HIDE DEF q
<1> QED
  BY <1>1, <1>2 DEF Built

LEMMA PortSetBuilds ==
  ASSUME VswitchInv, NEW id \in VswitchId, NEW p \in Port,
         NEW tag \in AllTags \cup {0}, VswitchPortSet(id, p, tag)
  PROVE  /\ Built(new', ring)
         /\ Complete(rib) /\ VswitchRoom(id) => Complete(new')
         /\ Ported(rib) /\ known /\ PortRoom(p, tag) => Ported(new')
<1> DEFINE s == VswitchLookup(rib, id)
           q == AddLink(rib, s, p, tag)
<1>1. /\ Built(rib, ring) /\ s # 0 /\ new' = q /\ known \in BOOLEAN
  BY InvBuilt DEF VswitchPortSet
<1>2. Good(rib) /\ rib \in Rib
  BY <1>1 DEF Built, Good, Sized
<1>3. s \in DOMAIN rib.vs /\ ~rib.vs[s].deleted
  BY <1>1, <1>2, LookupFacts
<1>4. VswitchRoom(id) =>
        (LinkSlot(rib) # 0 => Len(rib.vs[s].links) < MaxPorts)
  BY DEF VswitchRoom
<1>5. PortRoom(p, tag) =>
        (LinkSlot(rib) # 0 /\ tag # 0 => Len(rib.port[p].vlans) < MaxVlan)
  BY DEF PortRoom
<1> HIDE DEF s
<1>6. /\ Good(q)
      /\ Named(rib) => Named(q)
      /\ \A rg : Ringed(rib, rg) => Ringed(q, rg)
      /\ Complete(rib) /\ (LinkSlot(rib) # 0 => Len(rib.vs[s].links) < MaxPorts)
           => Complete(q)
      /\ /\ Ported(rib) /\ known
         /\ LinkSlot(rib) # 0 /\ tag # 0 => Len(rib.port[p].vlans) < MaxVlan
         => Ported(q)
  BY <1>1, <1>2, <1>3, AddGood
<1> HIDE DEF q
<1> QED
  BY <1>1, <1>4, <1>5, <1>6 DEF Built

LEMMA PortNoSetBuilds ==
  ASSUME VswitchInv, NEW id \in VswitchId, NEW p \in Port,
         VswitchPortNoSet(id, p)
  PROVE  /\ Built(new', ring)
         /\ Complete(rib) => Complete(new')
         /\ site.deletes
         /\ Holds(new', rib)
<1> DEFINE pid == IF known THEN p ELSE 0
           D == {l \in DOMAIN rib.link :
                   rib.link[l].vs = id /\ rib.link[l].port = pid
                   /\ ~rib.link[l].deleted}
           l == LinkLookup(rib, id, pid)
<1>1. /\ Built(rib, ring) /\ l # 0 /\ new' = LinkDelete(rib, l) /\ site.deletes
  BY InvBuilt DEF VswitchPortNoSet
<1>2. Good(rib) /\ rib \in Rib
  BY <1>1 DEF Built, Good, Sized
<1>3. D \in SUBSET (Nat \ {0}) /\ D \subseteq DOMAIN rib.link
  BY <1>2, RibFacts
<1>4. l = FirstIn(D)
  BY DEF LinkLookup
<1> HIDE DEF D, l
<1>5. l \in DOMAIN rib.link
  BY <1>1, <1>3, <1>4, FirstInFacts
<1>6. /\ Good(LinkDelete(rib, l))
      /\ Named(rib) => Named(LinkDelete(rib, l))
      /\ Complete(rib) => Complete(LinkDelete(rib, l))
  BY <1>2, <1>5, DeleteGood
<1>7. Holds(LinkDelete(rib, l), rib)
  BY <1>2, <1>5, DeleteHolds DEF Good
<1> QED
  BY <1>1, <1>6, <1>7 DEF Built

LEMMA RecheckBuilds ==
  ASSUME NEW rg \in Rings, NEW r, Good(r), Bounded(CheckRings(r, rg))
  PROVE  LET now == CheckRings(r, rg)
             q == Refresh(r, now)
         IN  /\ now \in Rings
             /\ Good(q) /\ Ringed(q, now)
             /\ Named(r) => Named(q)
             /\ Complete(r) => Complete(q)
             /\ Ported(r) => Ported(q)
             /\ \A x : Sized(x) /\ Ringed(x, rg) => Ringed(x, now)
<1> DEFINE now == CheckRings(r, rg)
<1>1. /\ now \in Rings
      /\ \A i \in DOMAIN r.vs, k \in IfKind : r.vs[i].ifs[k].open =>
           /\ now[k][i - 1].alive /\ now[k][i - 1].gen \in 0 .. MaxGen
      /\ \A x : Sized(x) /\ Ringed(x, rg) => Ringed(x, now)
  BY CheckRingsFacts DEF Good
<1> HIDE DEF now
<1>2. /\ Good(Refresh(r, now)) /\ Ringed(Refresh(r, now), now)
      /\ Named(r) => Named(Refresh(r, now))
      /\ Complete(r) => Complete(Refresh(r, now))
      /\ Ported(r) => Ported(Refresh(r, now))
  BY <1>1, RefreshFacts
<1> QED
  BY <1>1, <1>2 DEF now

LEMMA IfSetBuilds ==
  ASSUME VswitchInv, NEW k \in IfKind, NEW id \in VswitchId, NEW tap \in Tap,
         NEW opened \in BOOLEAN, IfSet(k, id, tap, opened)
  PROVE  /\ Built(new', ring') /\ Built(rib, ring') /\ ring' \in Rings
         /\ Complete(rib) => Complete(new')
         /\ Ported(rib) => Ported(new')
<1> DEFINE s == VswitchLookup(rib, id)
           r == WithIf(rib, s, k, tap, opened)
           now == CheckRings(r, ring)
<1>1. /\ Built(rib, ring) /\ s # 0 /\ ring \in Rings
      /\ ring' = now /\ Bounded(now) /\ new' = Refresh(r, now)
      /\ opened \/ TapOpenFails
  BY InvBuilt DEF IfSet, WithIf
<1>2. Good(rib) /\ rib \in Rib /\ Sized(rib)
  BY <1>1 DEF Built, Good, Sized
<1>3. s \in DOMAIN rib.vs /\ ~rib.vs[s].deleted
  BY <1>1, <1>2, LookupFacts
<1> HIDE DEF s
<1>4. /\ Good(r)
      /\ opened /\ Named(rib) => Named(r)
      /\ Complete(rib) => Complete(r)
      /\ Ported(rib) => Ported(r)
  BY <1>2, <1>3, IfSetFacts
<1> HIDE DEF r
<1>5. /\ now \in Rings
      /\ Good(Refresh(r, now)) /\ Ringed(Refresh(r, now), now)
      /\ Named(r) => Named(Refresh(r, now))
      /\ Complete(r) => Complete(Refresh(r, now))
      /\ Ported(r) => Ported(Refresh(r, now))
      /\ \A x : Sized(x) /\ Ringed(x, ring) => Ringed(x, now)
  BY <1>1, <1>4, RecheckBuilds
<1> HIDE DEF now
<1> QED
  BY <1>1, <1>2, <1>4, <1>5 DEF Built

LEMMA RecheckActionBuilds ==
  ASSUME VswitchInv, Recheck
  PROVE  /\ Built(new', ring') /\ Built(rib, ring') /\ ring' \in Rings
         /\ Complete(rib) => Complete(new')
         /\ Ported(rib) => Ported(new')
<1> DEFINE now == CheckRings(rib, ring)
<1>1. /\ Built(rib, ring) /\ ring \in Rings
      /\ ring' = now /\ Bounded(now) /\ new' = Refresh(rib, now)
  BY InvBuilt DEF Recheck
<1>2. Good(rib) /\ Sized(rib)
  BY <1>1 DEF Built, Good
<1>3. /\ now \in Rings
      /\ Good(Refresh(rib, now)) /\ Ringed(Refresh(rib, now), now)
      /\ Named(rib) => Named(Refresh(rib, now))
      /\ Complete(rib) => Complete(Refresh(rib, now))
      /\ Ported(rib) => Ported(Refresh(rib, now))
      /\ \A x : Sized(x) /\ Ringed(x, ring) => Ringed(x, now)
  BY <1>1, <1>2, RecheckBuilds
<1> HIDE DEF now
<1> QED
  BY <1>1, <1>2, <1>3 DEF Built

LEMMA RingFreeType ==
  ASSUME NEW rg \in Rings, NEW kinds, NEW ids
  PROVE  RingFree(rg, kinds, ids) \in Rings
<1>1. \A k \in IfKind, i \in 0 .. MaxVswitch - 1 :
        /\ rg[k][i] \in [alive : BOOLEAN, gen : 0 .. MaxGen]
        /\ [rg[k][i] EXCEPT !.alive = FALSE] \in [alive : BOOLEAN, gen : 0 .. MaxGen]
  <2> SUFFICES ASSUME NEW k \in IfKind, NEW i \in 0 .. MaxVswitch - 1
               PROVE  /\ rg[k][i] \in [alive : BOOLEAN, gen : 0 .. MaxGen]
                      /\ [rg[k][i] EXCEPT !.alive = FALSE]
                           \in [alive : BOOLEAN, gen : 0 .. MaxGen]
    OBVIOUS
  <2>1. rg[k][i] \in [alive : BOOLEAN, gen : 0 .. MaxGen]
    BY DEF Rings
  <2> QED
    BY <2>1
<1> QED
  BY <1>1 DEF RingFree, Rings

LEMMA IfDeleteNone ==
  ASSUME NEW x \in VswitchConf
  PROVE  IfDelete(x, {}) = x
<1> DEFINE f == [k \in IfKind |-> IF k \in {} THEN NoIf ELSE x.ifs[k]]
<1>1. IfDelete(x, {}) = [x EXCEPT !.ifs = f]
  BY DEF IfDelete
<1>2. x.ifs \in [IfKind -> TapIf]
  BY DEF VswitchConf
<1>3. f = x.ifs
  BY <1>2
<1> HIDE DEF f
<1> QED
  BY <1>1, <1>3 DEF VswitchConf

LEMMA NoSetBuilds ==
  ASSUME VswitchInv, NEW id \in VswitchId, VswitchNoSet(id)
  PROVE  /\ Built(new', ring') /\ Built(rib, ring') /\ ring' \in Rings
         /\ Holds(new', rib)
         /\ Complete(rib) => Complete(new')
         /\ site.deletes /\ fault' \in {"none", "bounds", "null"}
         /\ fault' = "null" => fault = "null"
<1> DEFINE s == VswitchLookup(rib, id)
           open == {k \in IfKind : rib.vs[s].ifs[k].open}
           r == [rib EXCEPT !.vs[s] = IfDelete(@, open)]
           v == [rib.vs EXCEPT ![s] = IfDelete(rib.vs[s], open)]
           kinds == [i \in DOMAIN rib.vs |-> IF i = s THEN open ELSE {}]
<1>1. /\ Built(rib, ring) /\ s # 0 /\ ring \in Rings /\ site.deletes
      /\ new' = DeleteWithLinks(r, s) /\ ring' = RingFree(ring, open, {id})
      /\ fault \in {"none", "bounds", "null"} /\ fault' = FaultOf(open, {id})
  BY InvBuilt DEF VswitchNoSet
<1>2. /\ Good(rib) /\ rib \in Rib
      /\ ~TapOpenFails => Named(rib)
  BY <1>1 DEF Built, Good, Sized
<1>3. s \in DOMAIN rib.vs /\ ~rib.vs[s].deleted
  BY <1>1, <1>2, LookupFacts
<1>4. /\ fault' \in {"none", "bounds", "null"}
      /\ fault' = "null" => fault = "null"
  BY <1>1 DEF FaultOf
<1>5. ring' \in Rings
  BY <1>1, RingFreeType
<1>6. open = {k \in IfKind : rib.vs[s].ifs[k].open}
  OBVIOUS
<1> HIDE DEF s, open
<1>7. r = [vs |-> v, link |-> rib.link, port |-> rib.port]
  <2>1. r = [rib EXCEPT !.vs = v]
    OBVIOUS
  <2>2. rib = [vs |-> rib.vs, link |-> rib.link, port |-> rib.port]
    BY <1>2 DEF Rib
  <2> HIDE DEF r, v
  <2> QED
    BY <2>1, <2>2
<1>8. /\ v = [i \in DOMAIN rib.vs |-> v[i]]
      /\ \A i \in DOMAIN rib.vs : v[i] = IfDelete(rib.vs[i], kinds[i])
  <2>1. \A i \in DOMAIN rib.vs : rib.vs[i] \in VswitchConf
    BY <1>2, RibFacts
  <2>2. \A i \in DOMAIN rib.vs : IfDelete(rib.vs[i], {}) = rib.vs[i]
    BY <2>1, IfDeleteNone
  <2>3. \A i \in DOMAIN rib.vs :
          v[i] = IF i = s THEN IfDelete(rib.vs[s], open) ELSE rib.vs[i]
    OBVIOUS
  <2>4. v = [i \in DOMAIN rib.vs |-> v[i]]
    OBVIOUS
  <2> QED
    BY <2>2, <2>3, <2>4
<1>9. /\ s \in DOMAIN rib.vs => kinds[s] = open
  OBVIOUS
<1> HIDE DEF r, v, kinds
<1>10. /\ Good(r) /\ SameLinks(r, rib)
       /\ \A i \in DOMAIN rib.vs, k \in IfKind :
            r.vs[i].ifs[k] = IF k \in kinds[i] THEN NoIf ELSE rib.vs[i].ifs[k]
       /\ Named(rib) => Named(r)
       /\ Complete(rib) => Complete(r)
  <2>1. Good(rib)
    BY <1>2
  <2>2. /\ Good(r)
        /\ Named(rib) => Named(r)
        /\ Complete(rib) => Complete(r)
    BY <1>7, <1>8, <2>1, IfsDeleted, SMTT(30)
  <2>3. SameLinks(r, rib)
    BY <1>7, <1>8, <2>1, IfsDeleted
  <2>4. \A i \in DOMAIN rib.vs, k \in IfKind :
          r.vs[i].ifs[k] = IF k \in kinds[i] THEN NoIf ELSE rib.vs[i].ifs[k]
    <3>1. \A i \in DOMAIN rib.vs : r.vs[i] = IfDelete(rib.vs[i], kinds[i])
      BY <1>7, <1>8
    <3>2. \A i \in DOMAIN rib.vs : rib.vs[i] \in VswitchConf
      BY <1>2, RibFacts
    <3> QED
      BY <3>1, <3>2, IfDeleteFacts
  <2> QED
    BY <2>2, <2>3, <2>4
<1>11. \A k \in IfKind : ~r.vs[s].ifs[k].open
  BY <1>3, <1>6, <1>9, <1>10 DEF NoIf
<1>12. s \in DOMAIN r.vs /\ ~r.vs[s].deleted
  BY <1>3, <1>10 DEF SameLinks
<1>13. /\ Good(DeleteWithLinks(r, s)) /\ Holds(DeleteWithLinks(r, s), r)
       /\ Named(r) => Named(DeleteWithLinks(r, s))
       /\ Complete(r) => Complete(DeleteWithLinks(r, s))
  BY <1>10, <1>11, <1>12, LoopGood
<1>14. Holds(new', rib)
  <2>1. Holds(r, rib)
    BY <1>10, HoldsSame DEF SameLinks
  <2> QED
    BY <1>1, <1>13, <2>1, HoldsTransitive
<1> QED
  BY <1>1, <1>2, <1>4, <1>5, <1>10, <1>13, <1>14 DEF Built

\* The case in which every slot with the tap's name is found.
LEMMA IfNoSetBuilds ==
  ASSUME VswitchInv, NEW k \in IfKind, NEW tap \in Tap, IfNoSet(k, tap)
  PROVE  /\ new' = new \/ Built(new', ring')
         /\ Built(rib, ring') /\ ring' \in Rings
         /\ Complete(rib) => new' = new \/ Complete(new')
         /\ site.deletes /\ fault' \in {"none", "bounds", "null"}
         /\ ~TapOpenFails /\ fault' = "null" => fault = "null"
<1> DEFINE hits == {s \in DOMAIN rib.vs : rib.vs[s].ifs[k].tap = tap}
           ids == {rib.vs[s].id : s \in hits}
           found == {VswitchLookup(rib, id) : id \in ids}
           v == [s \in DOMAIN rib.vs |->
                   IF s \in found THEN IfDelete(rib.vs[s], {k}) ELSE rib.vs[s]]
           kinds == [i \in DOMAIN rib.vs |-> IF i \in found THEN {k} ELSE {}]
<1>1. /\ Built(rib, ring) /\ ring \in Rings /\ site.deletes
      /\ fault \in {"none", "bounds", "null"}
      /\ IF 0 \in found
         THEN fault' = "null" /\ new' = new /\ ring' = ring
         ELSE /\ new' = [rib EXCEPT !.vs = v]
              /\ ring' = RingFree(ring, {k}, ids)
              /\ fault' = FaultOf({k}, ids)
  BY InvBuilt DEF IfNoSet
<1>2. /\ Good(rib) /\ rib \in Rib /\ Closed(rib) /\ Unique(rib)
      /\ ~TapOpenFails => Named(rib)
  BY <1>1 DEF Built, Good, Sized
<1>3. ASSUME ~TapOpenFails PROVE 0 \notin found
  <2> SUFFICES ASSUME NEW s \in hits PROVE VswitchLookup(rib, rib.vs[s].id) # 0
    OBVIOUS
  <2>1. s \in DOMAIN rib.vs /\ rib.vs[s].ifs[k].tap # NoTap
    BY TapAssumption
  <2>2. rib.vs[s].ifs[k].open
    BY <1>2, <1>3, <2>1 DEF Named
  <2>3. ~rib.vs[s].deleted
    BY <1>2, <2>1, <2>2 DEF Closed
  <2>4. VswitchLookup(rib, rib.vs[s].id) = s
    BY <1>2, <2>1, <2>3, LookupLive
  <2>5. s # 0
    BY <1>2, <2>1, RibFacts
  <2> QED
    BY <2>4, <2>5
<1>4. CASE 0 \in found
  BY <1>1, <1>3, <1>4 DEF Built
<1>5. CASE 0 \notin found
  <2>1. /\ new' = [rib EXCEPT !.vs = v] /\ ring' = RingFree(ring, {k}, ids)
        /\ fault' = FaultOf({k}, ids)
    BY <1>1, <1>5
  <2>2. /\ fault' \in {"none", "bounds", "null"}
        /\ fault' = "null" => fault = "null"
    BY <1>1, <2>1 DEF FaultOf
  <2>3. ring' \in Rings
    BY <1>1, <2>1, RingFreeType
  <2> HIDE DEF found, hits, ids
  <2>4. new' = [vs |-> v, link |-> rib.link, port |-> rib.port]
    BY <1>2, <2>1 DEF Rib
  <2>5. /\ v = [i \in DOMAIN rib.vs |-> v[i]]
        /\ \A i \in DOMAIN rib.vs : v[i] = IfDelete(rib.vs[i], kinds[i])
    <3>1. \A i \in DOMAIN rib.vs : rib.vs[i] \in VswitchConf
      BY <1>2, RibFacts
    <3>2. \A i \in DOMAIN rib.vs : IfDelete(rib.vs[i], {}) = rib.vs[i]
      BY <3>1, IfDeleteNone
    <3>3. v = [i \in DOMAIN rib.vs |-> v[i]]
      OBVIOUS
    <3> QED
      BY <3>2, <3>3
  <2> HIDE DEF v, kinds
  <2>6. /\ Good(new')
        /\ Named(rib) => Named(new')
        /\ Complete(rib) => Complete(new')
    BY <1>2, <2>4, <2>5, IfsDeleted, SMTT(30)
  <2> QED
    BY <1>1, <1>2, <2>2, <2>3, <2>6 DEF Built
<1> QED
  BY <1>4, <1>5

\* The steps of Next, with the ports and tags a site uses widened to all.
Commands ==
  \/ \E id \in VswitchId, vlan \in Vlan : VswitchSet(id, vlan)
  \/ \E id \in VswitchId : VswitchNoSet(id)
  \/ \E id \in VswitchId, p \in Port, tag \in AllTags \cup {0} :
       VswitchPortSet(id, p, tag)
  \/ \E id \in VswitchId, p \in Port : VswitchPortNoSet(id, p)
  \/ \E k \in IfKind, tap \in Tap : IfNoSet(k, tap)
  \/ \E k \in IfKind, id \in VswitchId, tap \in Tap, opened \in BOOLEAN :
       IfSet(k, id, tap, opened)

LEMMA NextCases ==
  ASSUME VswitchInv, Next
  PROVE  site' = site /\ (Commands \/ Recheck \/ PortStatus \/ Publish)
<1>1. /\ site.port \subseteq Port /\ site.tag \cup {0} \subseteq AllTags \cup {0}
  BY SiteAssumption DEF VswitchInv, AllTags
<1>2. ASSUME NEW id \in VswitchId, VswitchLookup(rib, id) # 0
      PROVE  rib.vs[VswitchLookup(rib, id)].vlan \in AllTags \cup {0}
  <2>1. rib \in Rib
    BY DEF VswitchInv, TypeOK
  <2>2. VswitchLookup(rib, id) \in DOMAIN rib.vs
    BY <1>2, <2>1, LookupFacts
  <2>3. rib.vs[VswitchLookup(rib, id)] \in VswitchConf
    BY <2>1, <2>2, RibFacts
  <2> QED
    BY <2>3 DEF VswitchConf, AllTags
<1>3. ASSUME Command PROVE Commands
  <2>1. CASE \E id \in VswitchId : VswitchNoSet(id)
                                   \/ \E vlan \in Vlan : VswitchSet(id, vlan)
    BY <2>1 DEF Commands
  <2>2. CASE \E id \in VswitchId, p \in site.port : VswitchPortNoSet(id, p)
    BY <1>1, <2>2 DEF Commands
  <2>3. CASE \E id \in VswitchId, p \in site.port :
               \E tag \in site.tag \cup {0} : VswitchPortSet(id, p, tag)
    BY <1>1, <2>3 DEF Commands
  <2>4. CASE \E id \in VswitchId, p \in site.port :
               /\ VswitchLookup(rib, id) # 0
               /\ VswitchPortSet(id, p, rib.vs[VswitchLookup(rib, id)].vlan)
    <3>1. PICK id \in VswitchId, p \in site.port :
            /\ VswitchLookup(rib, id) # 0
            /\ VswitchPortSet(id, p, rib.vs[VswitchLookup(rib, id)].vlan)
      BY <2>4
    <3>2. rib.vs[VswitchLookup(rib, id)].vlan \in AllTags \cup {0} /\ p \in Port
      BY <1>1, <1>2, <3>1
    <3> QED
      BY <3>1, <3>2 DEF Commands
  <2>5. CASE \E k \in IfKind, tap \in Tap :
               \/ IfNoSet(k, tap)
               \/ \E id \in VswitchId, opened \in BOOLEAN : IfSet(k, id, tap, opened)
    BY <2>5 DEF Commands
  <2> QED
    BY <1>3, <2>1, <2>2, <2>3, <2>4, <2>5 DEF Command
<1> QED
  BY <1>3 DEF Next

LEMMA InitFacts ==
  ASSUME Init
  PROVE  /\ VswitchInv /\ new = NoRib /\ fault = "none"
         /\ Complete(rib) /\ Ported(rib)
<1>1. /\ rib = [vs |-> <<>>, link |-> <<>>,
                port |-> [p \in Port |-> [vlans |-> <<>>, native |-> 1]]]
      /\ site \in Site /\ new = NoRib /\ known = FALSE /\ fault = "none"
      /\ ring = [k \in IfKind |->
                   [i \in 0 .. MaxVswitch - 1 |-> [alive |-> FALSE, gen |-> 0]]]
  BY DEF Init
<1>2. MaxLink \in Nat \ {0} /\ MaxVswitch \in Nat /\ MaxGen \in Nat
  BY <1>1, SiteAssumption, SizeAssumption DEF MaxLink
<1>3. 1 \in 0 .. MaxLink /\ 0 \in 0 .. MaxGen
  BY <1>2
<1>4. [vlans |-> <<>>, native |-> 1] \in PortConf
  BY <1>3 DEF PortConf
<1>5. /\ rib.vs = <<>> /\ rib.link = <<>>
      /\ \A p \in Port : rib.port[p].vlans = <<>>
      /\ rib.port \in [Port -> PortConf]
  BY <1>1, <1>4
<1>6. rib \in Rib
  <2>1. <<>> \in Seq(VswitchConf) /\ <<>> \in Seq(Link)
    OBVIOUS
  <2>2. [p \in Port |-> [vlans |-> <<>>, native |-> 1]] \in [Port -> PortConf]
    BY <1>4
  <2> HIDE DEF VswitchConf, Link, PortConf
  <2> QED
    BY <1>1, <2>1, <2>2 DEF Rib
<1>7. /\ DOMAIN rib.vs = {} /\ DOMAIN rib.link = {}
      /\ Len(rib.vs) = 0 /\ Len(rib.link) = 0
      /\ \A p \in Port : DOMAIN rib.port[p].vlans = {}
  BY <1>5
<1>8. Sized(rib)
  BY <1>2, <1>6, <1>7 DEF Sized
<1>9. Unique(rib) /\ Listed(rib) /\ Closed(rib) /\ Named(rib) /\ Ringed(rib, ring)
  BY <1>7 DEF Unique, Listed, Closed, Named, Ringed
<1>10. Complete(rib) /\ Ported(rib)
  BY <1>7 DEF Complete, Ported, LiveLinks
<1>11. ring \in [IfKind -> [0 .. MaxVswitch - 1 -> [alive : BOOLEAN, gen : 0 .. MaxGen]]]
  BY <1>1, <1>3
<1>12. TypeOK
  BY <1>1, <1>8, <1>11 DEF TypeOK, Sized
<1> QED
  BY <1>1, <1>8, <1>9, <1>10, <1>12 DEF VswitchInv, Ribs

LEMMA VswitchStep ==
  ASSUME VswitchInv, [Next]_vars
  PROVE  /\ VswitchInv'
         /\ ~TapOpenFails /\ NoNullVswitch => NoNullVswitch'
<1>0. /\ Built(rib, ring) /\ site \in Site
      /\ new # NoRib => Built(new, ring)
      /\ ring \in Rings /\ known \in BOOLEAN
      /\ fault \in {"none", "bounds", "null"}
  BY InvBuilt
<1>1. CASE UNCHANGED vars
  <2>1. site' = site /\ rib' = rib /\ new' = new /\ ring' = ring
        /\ known' = known /\ fault' = fault
    BY <1>1 DEF vars
  <2>2. VswitchInv'
    BY <1>0, <2>1, BuiltInv
  <2> QED
    BY <2>1, <2>2 DEF NoNullVswitch
<1>2. CASE Next
  <2>0. site' = site /\ (Commands \/ Recheck \/ PortStatus \/ Publish)
    BY <1>2, NextCases
  <2> SUFFICES /\ ring' \in Rings /\ known' \in BOOLEAN
               /\ fault' \in {"none", "bounds", "null"}
               /\ Built(rib', ring') /\ (new' = NoRib \/ Built(new', ring'))
               /\ ~TapOpenFails /\ NoNullVswitch => NoNullVswitch'
    BY <2>0, BuiltInv
  <2>1. ASSUME NEW id \in VswitchId, NEW vlan \in Vlan, VswitchSet(id, vlan)
        PROVE  /\ ring' \in Rings /\ known' \in BOOLEAN
               /\ fault' \in {"none", "bounds", "null"}
               /\ Built(rib', ring') /\ (new' = NoRib \/ Built(new', ring'))
               /\ ~TapOpenFails /\ NoNullVswitch => NoNullVswitch'
    <3>1. rib' = rib /\ ring' = ring /\ known' = known /\ fault' = fault
      BY <2>1 DEF VswitchSet
    <3>2. Built(new', ring)
      BY <2>1, VswitchSetBuilds
    <3> QED
      BY <1>0, <3>1, <3>2 DEF NoNullVswitch
  <2>2. ASSUME NEW id \in VswitchId, VswitchNoSet(id)
        PROVE  /\ ring' \in Rings /\ known' \in BOOLEAN
               /\ fault' \in {"none", "bounds", "null"}
               /\ Built(rib', ring') /\ (new' = NoRib \/ Built(new', ring'))
               /\ ~TapOpenFails /\ NoNullVswitch => NoNullVswitch'
    <3>1. rib' = rib /\ known' = known
      BY <2>2 DEF VswitchNoSet
    <3>2. /\ Built(new', ring') /\ Built(rib, ring') /\ ring' \in Rings
          /\ fault' \in {"none", "bounds", "null"}
          /\ fault' = "null" => fault = "null"
      BY <2>2, NoSetBuilds
    <3> QED
      BY <1>0, <3>1, <3>2 DEF NoNullVswitch
  <2>3. ASSUME NEW id \in VswitchId, NEW p \in Port, NEW tag \in AllTags \cup {0},
               VswitchPortSet(id, p, tag)
        PROVE  /\ ring' \in Rings /\ known' \in BOOLEAN
               /\ fault' \in {"none", "bounds", "null"}
               /\ Built(rib', ring') /\ (new' = NoRib \/ Built(new', ring'))
               /\ ~TapOpenFails /\ NoNullVswitch => NoNullVswitch'
    <3>1. rib' = rib /\ ring' = ring /\ known' = known /\ fault' = fault
      BY <2>3 DEF VswitchPortSet
    <3>2. Built(new', ring)
      BY <2>3, PortSetBuilds
    <3> QED
      BY <1>0, <3>1, <3>2 DEF NoNullVswitch
  <2>4. ASSUME NEW id \in VswitchId, NEW p \in Port, VswitchPortNoSet(id, p)
        PROVE  /\ ring' \in Rings /\ known' \in BOOLEAN
               /\ fault' \in {"none", "bounds", "null"}
               /\ Built(rib', ring') /\ (new' = NoRib \/ Built(new', ring'))
               /\ ~TapOpenFails /\ NoNullVswitch => NoNullVswitch'
    <3>1. rib' = rib /\ ring' = ring /\ known' = known /\ fault' = fault
      BY <2>4 DEF VswitchPortNoSet
    <3>2. Built(new', ring)
      BY <2>4, PortNoSetBuilds
    <3> QED
      BY <1>0, <3>1, <3>2 DEF NoNullVswitch
  <2>5. ASSUME NEW k \in IfKind, NEW tap \in Tap, IfNoSet(k, tap)
        PROVE  /\ ring' \in Rings /\ known' \in BOOLEAN
               /\ fault' \in {"none", "bounds", "null"}
               /\ Built(rib', ring') /\ (new' = NoRib \/ Built(new', ring'))
               /\ ~TapOpenFails /\ NoNullVswitch => NoNullVswitch'
    <3>1. rib' = rib /\ known' = known /\ new = NoRib
      BY <2>5 DEF IfNoSet, Idle
    <3>2. /\ new' = new \/ Built(new', ring')
          /\ Built(rib, ring') /\ ring' \in Rings
          /\ fault' \in {"none", "bounds", "null"}
          /\ ~TapOpenFails /\ fault' = "null" => fault = "null"
      BY <2>5, IfNoSetBuilds
    <3> QED
      BY <1>0, <3>1, <3>2 DEF NoNullVswitch
  <2>6. ASSUME NEW k \in IfKind, NEW id \in VswitchId, NEW tap \in Tap,
               NEW opened \in BOOLEAN, IfSet(k, id, tap, opened)
        PROVE  /\ ring' \in Rings /\ known' \in BOOLEAN
               /\ fault' \in {"none", "bounds", "null"}
               /\ Built(rib', ring') /\ (new' = NoRib \/ Built(new', ring'))
               /\ ~TapOpenFails /\ NoNullVswitch => NoNullVswitch'
    <3>1. rib' = rib /\ known' = known /\ fault' = fault
      BY <2>6 DEF IfSet
    <3>2. Built(new', ring') /\ Built(rib, ring') /\ ring' \in Rings
      BY <2>6, IfSetBuilds
    <3> QED
      BY <1>0, <3>1, <3>2 DEF NoNullVswitch
  <2>7. CASE Recheck
    <3>1. rib' = rib /\ known' = known /\ fault' = fault
      BY <2>7 DEF Recheck
    <3>2. Built(new', ring') /\ Built(rib, ring') /\ ring' \in Rings
      BY <2>7, RecheckActionBuilds
    <3> QED
      BY <1>0, <3>1, <3>2 DEF NoNullVswitch
  <2>8. CASE PortStatus
    <3>1. rib' = rib /\ new' = new /\ ring' = ring /\ known' = TRUE /\ fault' = fault
      BY <2>8 DEF PortStatus
    <3> QED
      BY <1>0, <3>1 DEF NoNullVswitch
  <2>9. CASE Publish
    <3>1. /\ new # NoRib /\ rib' = new /\ new' = NoRib
          /\ ring' = ring /\ known' = known /\ fault' = fault
      BY <2>9 DEF Publish
    <3> QED
      BY <1>0, <3>1 DEF NoNullVswitch
  <2> QED
    BY <2>0, <2>1, <2>2, <2>3, <2>4, <2>5, <2>6, <2>7, <2>8, <2>9 DEF Commands
<1> QED
  BY <1>1, <1>2

LEMMA CompleteStep ==
  ASSUME VswitchInv, CompleteInv, [Next]_vars,
         [\A id \in VswitchId, p \in Port, tag \in AllTags \cup {0} :
            VswitchPortSet(id, p, tag) => VswitchRoom(id)]_vars
  PROVE  CompleteInv'
<1>0. Complete(rib) /\ (new # NoRib => Complete(new))
  BY DEF CompleteInv, Ribs
<1> SUFFICES Complete(rib') /\ (new' = NoRib \/ Complete(new'))
  BY DEF CompleteInv, Ribs
<1>1. CASE UNCHANGED vars
  BY <1>0, <1>1 DEF vars
<1>2. CASE Next /\ ~UNCHANGED vars
  <2>0. /\ Commands \/ Recheck \/ PortStatus \/ Publish
        /\ \A id \in VswitchId, p \in Port, tag \in AllTags \cup {0} :
             VswitchPortSet(id, p, tag) => VswitchRoom(id)
    BY <1>2, NextCases
  <2>1. ASSUME NEW id \in VswitchId, NEW vlan \in Vlan, VswitchSet(id, vlan)
        PROVE  Complete(rib') /\ (new' = NoRib \/ Complete(new'))
    BY <1>0, <2>1, VswitchSetBuilds DEF VswitchSet
  <2>2. ASSUME NEW id \in VswitchId, VswitchNoSet(id)
        PROVE  Complete(rib') /\ (new' = NoRib \/ Complete(new'))
    <3>1. rib' = rib
      BY <2>2 DEF VswitchNoSet
    <3> QED
      BY <1>0, <2>2, <3>1, NoSetBuilds
  <2>3. ASSUME NEW id \in VswitchId, NEW p \in Port, NEW tag \in AllTags \cup {0},
               VswitchPortSet(id, p, tag)
        PROVE  Complete(rib') /\ (new' = NoRib \/ Complete(new'))
    <3>1. rib' = rib
      BY <2>3 DEF VswitchPortSet
    <3>2. VswitchRoom(id)
      BY <2>0, <2>3
    <3> QED
      BY <1>0, <2>3, <3>1, <3>2, PortSetBuilds
  <2>4. ASSUME NEW id \in VswitchId, NEW p \in Port, VswitchPortNoSet(id, p)
        PROVE  Complete(rib') /\ (new' = NoRib \/ Complete(new'))
    <3>1. rib' = rib
      BY <2>4 DEF VswitchPortNoSet
    <3> QED
      BY <1>0, <2>4, <3>1, PortNoSetBuilds
  <2>5. ASSUME NEW k \in IfKind, NEW tap \in Tap, IfNoSet(k, tap)
        PROVE  Complete(rib') /\ (new' = NoRib \/ Complete(new'))
    <3>1. rib' = rib /\ new = NoRib
      BY <2>5 DEF IfNoSet, Idle
    <3> QED
      BY <1>0, <2>5, <3>1, IfNoSetBuilds
  <2>6. ASSUME NEW k \in IfKind, NEW id \in VswitchId, NEW tap \in Tap,
               NEW opened \in BOOLEAN, IfSet(k, id, tap, opened)
        PROVE  Complete(rib') /\ (new' = NoRib \/ Complete(new'))
    <3>1. rib' = rib
      BY <2>6 DEF IfSet
    <3> QED
      BY <1>0, <2>6, <3>1, IfSetBuilds
  <2>7. CASE Recheck
    <3>1. rib' = rib
      BY <2>7 DEF Recheck
    <3> QED
      BY <1>0, <2>7, <3>1, RecheckActionBuilds
  <2>8. CASE PortStatus
    BY <1>0, <2>8 DEF PortStatus
  <2>9. CASE Publish
    BY <1>0, <2>9 DEF Publish
  <2> QED
    BY <2>0, <2>1, <2>2, <2>3, <2>4, <2>5, <2>6, <2>7, <2>8, <2>9 DEF Commands
<1> QED
  BY <1>1, <1>2

LEMMA PortedStep ==
  ASSUME ~EarlyConfig, VswitchInv, PortedInv, [Next]_vars,
         [\A id \in VswitchId, p \in Port, tag \in AllTags \cup {0} :
            VswitchPortSet(id, p, tag) => PortRoom(p, tag)]_vars
  PROVE  PortedInv'
<1>1. CASE UNCHANGED vars
  BY <1>1 DEF vars, PortedInv, Ribs
<1>2. CASE Next /\ ~UNCHANGED vars
  <2>0. /\ site' = site
        /\ Commands \/ Recheck \/ PortStatus \/ Publish
        /\ \A id \in VswitchId, p \in Port, tag \in AllTags \cup {0} :
             VswitchPortSet(id, p, tag) => PortRoom(p, tag)
    BY <1>2, NextCases
  <2> SUFFICES ASSUME ~site.deletes
               PROVE  Ported(rib') /\ (new' = NoRib \/ Ported(new'))
    BY <2>0 DEF PortedInv, Ribs
  <2>10. Ported(rib) /\ (new # NoRib => Ported(new))
    BY DEF PortedInv, Ribs
  <2>1. ASSUME NEW id \in VswitchId, NEW vlan \in Vlan, VswitchSet(id, vlan)
        PROVE  Ported(rib') /\ (new' = NoRib \/ Ported(new'))
    BY <2>10, <2>1, VswitchSetBuilds DEF VswitchSet
  <2>2. ASSUME NEW id \in VswitchId, VswitchNoSet(id)
        PROVE  FALSE
    BY <2>2 DEF VswitchNoSet
  <2>3. ASSUME NEW id \in VswitchId, NEW p \in Port, NEW tag \in AllTags \cup {0},
               VswitchPortSet(id, p, tag)
        PROVE  Ported(rib') /\ (new' = NoRib \/ Ported(new'))
    <3>1. rib' = rib /\ known
      BY <2>3 DEF VswitchPortSet
    <3>2. PortRoom(p, tag)
      BY <2>0, <2>3
    <3> QED
      BY <2>10, <2>3, <3>1, <3>2, PortSetBuilds
  <2>4. ASSUME NEW id \in VswitchId, NEW p \in Port, VswitchPortNoSet(id, p)
        PROVE  FALSE
    BY <2>4 DEF VswitchPortNoSet
  <2>5. ASSUME NEW k \in IfKind, NEW tap \in Tap, IfNoSet(k, tap)
        PROVE  FALSE
    BY <2>5 DEF IfNoSet
  <2>6. ASSUME NEW k \in IfKind, NEW id \in VswitchId, NEW tap \in Tap,
               NEW opened \in BOOLEAN, IfSet(k, id, tap, opened)
        PROVE  Ported(rib') /\ (new' = NoRib \/ Ported(new'))
    <3>1. rib' = rib
      BY <2>6 DEF IfSet
    <3> QED
      BY <2>10, <2>6, <3>1, IfSetBuilds
  <2>7. CASE Recheck
    <3>1. rib' = rib
      BY <2>7 DEF Recheck
    <3> QED
      BY <2>10, <2>7, <3>1, RecheckActionBuilds
  <2>8. CASE PortStatus
    BY <2>10, <2>8 DEF PortStatus
  <2>9. CASE Publish
    BY <2>10, <2>9 DEF Publish
  <2> QED
    BY <2>0, <2>1, <2>2, <2>3, <2>4, <2>5, <2>6, <2>7, <2>8, <2>9 DEF Commands
<1> QED
  BY <1>1, <1>2

\* The rib that Publish is about to publish keeps the links.
KeptInv == new # NoRib => Keeps(new, rib)

LEMMA KeptStep ==
  ASSUME ~EarlyConfig, VswitchInv, KeptInv, [Next]_vars
  PROVE  KeptInv' /\ Keeps(rib', rib)
<1>0. /\ rib \in Rib /\ Sized(rib) /\ site \in Site
      /\ known \in BOOLEAN
      /\ Keeps(rib, rib)
  <2>1. Keeps(rib, rib)
    BY HoldsSame, HoldsKeeps
  <2> QED
    BY <2>1 DEF VswitchInv, TypeOK, Ribs
<1>1. ASSUME rib' = rib, Keeps(new', rib)
      PROVE  KeptInv' /\ Keeps(rib', rib)
  BY <1>0, <1>1 DEF KeptInv
<1>2. CASE UNCHANGED vars
  BY <1>0, <1>2 DEF vars, KeptInv
<1>3. CASE Next
  <2>0. Commands \/ Recheck \/ PortStatus \/ Publish
    BY <1>3, NextCases
  <2>1. ASSUME NEW id \in VswitchId, NEW vlan \in Vlan, VswitchSet(id, vlan)
        PROVE  KeptInv' /\ Keeps(rib', rib)
    <3>1. rib' = rib /\ new' = VswitchNew(rib, id, vlan)
      BY <2>1 DEF VswitchSet
    <3>2. Keeps(VswitchNew(rib, id, vlan), rib)
      BY <1>0, HoldsSame, HoldsKeeps, NewShape
    <3> QED
      BY <1>1, <3>1, <3>2
  <2>2. ASSUME NEW id \in VswitchId, VswitchNoSet(id)
        PROVE  KeptInv' /\ Keeps(rib', rib)
    <3>1. rib' = rib
      BY <2>2 DEF VswitchNoSet
    <3>2. Keeps(new', rib)
      BY <2>2, NoSetBuilds, HoldsKeeps
    <3> QED
      BY <1>1, <3>1, <3>2
  <2>3. ASSUME NEW id \in VswitchId, NEW p \in Port, NEW tag \in AllTags \cup {0},
               VswitchPortSet(id, p, tag)
        PROVE  KeptInv' /\ Keeps(rib', rib)
    <3> DEFINE s == VswitchLookup(rib, id)
    <3>1. rib' = rib /\ known /\ s # 0 /\ new' = AddLink(rib, s, p, tag)
      BY <2>3 DEF VswitchPortSet
    <3>2. s \in DOMAIN rib.vs
      BY <1>0, <3>1, LookupFacts
    <3> HIDE DEF s
    <3>3. Keeps(new', rib)
      BY <1>0, <3>1, <3>2, AddKeeps
    <3> QED
      BY <1>1, <3>1, <3>3
  <2>4. ASSUME NEW id \in VswitchId, NEW p \in Port, VswitchPortNoSet(id, p)
        PROVE  KeptInv' /\ Keeps(rib', rib)
    <3>1. rib' = rib
      BY <2>4 DEF VswitchPortNoSet
    <3>2. Keeps(new', rib)
      BY <2>4, PortNoSetBuilds, HoldsKeeps
    <3> QED
      BY <1>1, <3>1, <3>2
  <2>5. ASSUME NEW k \in IfKind, NEW tap \in Tap, IfNoSet(k, tap)
        PROVE  KeptInv' /\ Keeps(rib', rib)
    <3>1. /\ rib' = rib /\ new = NoRib
          /\ \/ new' = new
             \/ new'.link = rib.link /\ new'.port = rib.port
      BY <1>0, <2>5 DEF IfNoSet, Idle, Rib
    <3> QED
      BY <1>0, <3>1, HoldsSame, HoldsKeeps DEF KeptInv
  <2>6. ASSUME NEW k \in IfKind, NEW id \in VswitchId, NEW tap \in Tap,
               NEW opened \in BOOLEAN, IfSet(k, id, tap, opened)
        PROVE  KeptInv' /\ Keeps(rib', rib)
    <3>1. rib' = rib /\ new'.link = rib.link /\ new'.port = rib.port
      BY <1>0, <2>6 DEF IfSet, Refresh, Rib
    <3> QED
      BY <1>0, <3>1, HoldsSame, HoldsKeeps DEF KeptInv
  <2>7. CASE Recheck
    <3>1. rib' = rib /\ new'.link = rib.link /\ new'.port = rib.port
      BY <1>0, <2>7 DEF Recheck, Refresh, Rib
    <3> QED
      BY <1>0, <3>1, HoldsSame, HoldsKeeps DEF KeptInv
  <2>8. CASE PortStatus
    BY <1>0, <2>8 DEF PortStatus, Idle, KeptInv
  <2>9. CASE Publish
    BY <2>9 DEF Publish, KeptInv
  <2> QED
    BY <2>0, <2>1, <2>2, <2>3, <2>4, <2>5, <2>6, <2>7, <2>8, <2>9 DEF Commands
<1> QED
  BY <1>2, <1>3

-----------------------------------------------------------------------------
(* What the workers see.                                                   *)

\* The first slot with the id of a link's vswitch is the live one, if any.
LEMMA WorkerFinds ==
  ASSUME NEW r \in Rib, Unique(r), NEW l \in LiveLinks(r), NEW t \in DOMAIN r.vs,
         ~r.vs[t].deleted, r.vs[t].id = r.link[l].vs
  PROVE  WorkerVswitch(r, l) = t /\ t # 0
<1> DEFINE S == {s \in DOMAIN r.vs : r.vs[s].id = r.link[l].vs}
<1>1. DOMAIN r.vs \subseteq Nat \ {0} /\ l # 0
  BY RibFacts DEF LiveLinks
<1>2. WorkerVswitch(r, l) = FirstIn(S)
  BY <1>1 DEF WorkerVswitch
<1>3. S \in SUBSET (Nat \ {0}) /\ t \in S
  BY <1>1
<1>4. \A s \in S : s \in DOMAIN r.vs /\ r.vs[s].id = r.vs[t].id
  OBVIOUS
<1> HIDE DEF S
<1>5. FirstIn(S) \in S /\ FirstIn(S) <= t
  BY <1>3, FirstInFacts
<1> DEFINE f == FirstIn(S)
<1>6. f \in Nat \ {0} /\ t \in Nat \ {0} /\ f <= t
  BY <1>3, <1>5
<1>7. r.vs[f].id = r.vs[t].id
  BY <1>4, <1>5
<1> HIDE DEF f
<1>8. f \notin 1 .. t - 1
  BY <1>7 DEF Unique
<1>9. f = t
  BY <1>6, <1>8
<1> QED
  BY <1>2, <1>6, <1>9 DEF f

\* A frame is flooded only to other links in use of the vswitch of its own
\* link, each of them once.
FloodInside ==
  /\ \A l \in LiveLinks(rib) :
       Flooded(rib, l) \subseteq
         {m \in LiveLinks(rib) \ {l} : rib.link[m].vs = rib.link[l].vs}
  /\ \A s \in DOMAIN rib.vs : IsInjective(rib.vs[s].links)

LEMMA FloodFacts ==
  ASSUME VswitchInv
  PROVE  FloodInside /\ (Complete(rib) => FloodIsolated)
<1>1. rib \in Rib /\ Unique(rib) /\ Listed(rib)
  BY DEF VswitchInv, Ribs, Sized
<1>2. \A s \in DOMAIN rib.vs :
        /\ IsInjective(rib.vs[s].links)
        /\ ~rib.vs[s].deleted => \A i \in DOMAIN rib.vs[s].links :
             /\ rib.vs[s].links[i] \in LiveLinks(rib)
             /\ rib.link[rib.vs[s].links[i]].vs = rib.vs[s].id
  BY <1>1 DEF Listed
<1>3. ASSUME NEW l \in LiveLinks(rib), NEW m \in Flooded(rib, l)
      PROVE  m \in LiveLinks(rib) \ {l} /\ rib.link[m].vs = rib.link[l].vs
  <2> DEFINE S == {s \in DOMAIN rib.vs : rib.vs[s].id = rib.link[l].vs}
             s0 == WorkerVswitch(rib, l)
  <2>1. DOMAIN rib.vs \subseteq Nat \ {0} /\ l # 0
    BY <1>1, RibFacts DEF LiveLinks
  <2>2. s0 = FirstIn(S)
    BY <2>1 DEF WorkerVswitch
  <2>3. /\ s0 # 0 /\ ~rib.vs[s0].deleted
        /\ m \in {rib.vs[s0].links[i] : i \in DOMAIN rib.vs[s0].links} \ {l}
    BY <1>3 DEF Flooded
  <2>4. S \in SUBSET (Nat \ {0})
    BY <2>1
  <2>5. s0 \in S
    <3> HIDE DEF S, s0
    <3> QED
      BY <2>2, <2>3, <2>4, FirstInFacts
  <2>6. s0 \in DOMAIN rib.vs /\ rib.vs[s0].id = rib.link[l].vs
    BY <2>5
  <2> HIDE DEF s0
  <2>7. PICK i \in DOMAIN rib.vs[s0].links : m = rib.vs[s0].links[i]
    BY <2>3
  <2> QED
    BY <1>2, <2>3, <2>6, <2>7
<1>4. ASSUME Complete(rib), NEW l \in LiveLinks(rib), NEW m \in LiveLinks(rib),
             m # l, rib.link[m].vs = rib.link[l].vs
      PROVE  m \in Flooded(rib, l)
  <2>1. PICK t \in DOMAIN rib.vs :
          /\ ~rib.vs[t].deleted /\ rib.vs[t].id = rib.link[m].vs
          /\ \E i \in DOMAIN rib.vs[t].links : rib.vs[t].links[i] = m
    BY <1>4 DEF Complete
  <2>2. WorkerVswitch(rib, l) = t /\ t # 0
    BY <1>1, <1>4, <2>1, WorkerFinds
  <2> QED
    BY <1>4, <2>1, <2>2 DEF Flooded
<1>5. FloodInside
  BY <1>2, <1>3 DEF FloodInside
<1>6. ASSUME Complete(rib), NEW l \in LiveLinks(rib)
      PROVE  Flooded(rib, l)
               = {m \in LiveLinks(rib) \ {l} : rib.link[m].vs = rib.link[l].vs}
  BY <1>3, <1>4, <1>6
<1> QED
  BY <1>2, <1>5, <1>6 DEF FloodIsolated

LEMMA DeliveryFacts ==
  ASSUME rib \in Rib, Ported(rib)
  PROVE  TaggedDelivery /\ UntaggedDelivery
<1>1. /\ \A l \in DOMAIN rib.link : ~rib.link[l].deleted
      /\ \A p \in Port : \A i \in DOMAIN rib.port[p].vlans :
           /\ rib.port[p].vlans[i] \in DOMAIN rib.link
           /\ rib.link[rib.port[p].vlans[i]].port = p
  BY DEF Ported
<1>2. \A l \in DOMAIN rib.link :
        /\ rib.link[l].tag # 0 =>
             \E i \in DOMAIN rib.port[rib.link[l].port].vlans :
               rib.port[rib.link[l].port].vlans[i] = l
        /\ rib.link[l].tag = 0 =>
             /\ rib.port[rib.link[l].port].native \in DOMAIN rib.link
             /\ rib.link[rib.port[rib.link[l].port].native].port = rib.link[l].port
             /\ rib.link[rib.port[rib.link[l].port].native].tag = 0
  BY DEF Ported
<1>3. LiveLinks(rib) = DOMAIN rib.link
  BY <1>1 DEF LiveLinks
<1>4. ASSUME NEW p \in Port, NEW tag \in AllTags
      PROVE  LET l == RxTagged(rib, p, tag)
                 conf == {m \in LiveLinks(rib) :
                            rib.link[m].port = p /\ rib.link[m].tag = tag}
             IN  IF conf = {} THEN l = 0 ELSE l \in conf
  <2> DEFINE conf == {m \in LiveLinks(rib) :
                        rib.link[m].port = p /\ rib.link[m].tag = tag}
             V == rib.port[p].vlans
             hit == {i \in DOMAIN V : rib.link[V[i]].tag = tag}
  <2> SUFFICES IF conf = {} THEN RxTagged(rib, p, tag) = 0
                            ELSE RxTagged(rib, p, tag) \in conf
    OBVIOUS
  <2>1. tag # 0
    BY TagAssumption DEF AllTags
  <2>2. RxTagged(rib, p, tag) = IF hit = {} THEN 0 ELSE V[Min(hit)]
    BY DEF RxTagged
  <2>3. \A i \in hit : V[i] \in conf
    BY <1>1, <1>3
  <2>4. conf # {} => hit # {}
    <3> SUFFICES ASSUME NEW m \in conf PROVE hit # {}
      OBVIOUS
    <3>1. m \in DOMAIN rib.link /\ rib.link[m].port = p /\ rib.link[m].tag = tag
      BY <1>3
    <3>2. \E i \in DOMAIN V : V[i] = m
      BY <1>2, <2>1, <3>1
    <3> QED
      BY <3>1, <3>2
  <2>5. hit \in SUBSET Nat
    <3>1. V \in Seq(1 .. MaxLink)
      BY RibFacts DEF PortConf
    <3> HIDE DEF V
    <3>2. DOMAIN V \subseteq Nat
      BY <3>1
    <3> QED
      BY <3>2
  <2> HIDE DEF hit, conf, V
  <2>6. hit # {} => Min(hit) \in hit
    BY <2>5, MinFacts
  <2> QED
    BY <2>2, <2>3, <2>4, <2>6
<1>5. ASSUME NEW p \in Port,
             NEW m \in {x \in LiveLinks(rib) : rib.link[x].port = p /\ rib.link[x].tag = 0}
      PROVE  RxUntagged(rib, p) \in
               {x \in LiveLinks(rib) : rib.link[x].port = p /\ rib.link[x].tag = 0}
  <2>1. /\ rib.port[p].native \in DOMAIN rib.link
        /\ rib.link[rib.port[p].native].port = p
        /\ rib.link[rib.port[p].native].tag = 0
    BY <1>2, <1>3
  <2> QED
    BY <1>3, <2>1 DEF RxUntagged
<1>6. TaggedDelivery
  BY <1>4 DEF TaggedDelivery
<1>7. UntaggedDelivery
  BY <1>5 DEF UntaggedDelivery
<1> QED
  BY <1>6, <1>7

-----------------------------------------------------------------------------
(* The theorems.                                                           *)

\* Every rib that rib_manager publishes or builds has the shape VswitchInv
\* describes, whatever messages it handles.
THEOREM InvHolds == Spec => []VswitchInv
<1>1. Init => VswitchInv
  BY InitFacts
<1>2. VswitchInv /\ [Next]_vars => VswitchInv'
  BY VswitchStep
<1> QED
  BY <1>1, <1>2, PTL DEF Spec

\* The first slot with an id is the live vswitch, so that the workers, which
\* do not look at is_deleted, find what vswitch_lookup finds.
THEOREM VswitchesFound == Spec => []VswitchFound
<1>1. VswitchInv => VswitchFound
  BY DEF VswitchInv, Ribs, Unique, VswitchFound
<1> QED
  BY <1>1, InvHolds, PTL

\* Configuration that comes after PORT_STATUS: a link in use stays what it is
\* and is found by receivers until an untagged link of its port replaces it,
\* and a new link is found, whatever vswitch_link_delete, vswitch_delete and
\* vswitch_link_new did to the slots and to the port's array.
THEOREM LinksStay ==
  ASSUME ~EarlyConfig PROVE Spec => LinksKept
<1>1. Init => VswitchInv /\ KeptInv
  BY InitFacts DEF KeptInv
<1>2. VswitchInv /\ KeptInv /\ [Next]_vars
        => VswitchInv' /\ KeptInv' /\ Keeps(rib', rib)
  BY VswitchStep, KeptStep
<1>3. VswitchInv /\ KeptInv /\ [Next]_vars => [Keeps(rib', rib)]_vars
  BY <1>2
<1> QED
  BY <1>1, <1>2, <1>3, PTL DEF Spec, LinksKept

\* Where every tap_open succeeds, "no set" of an interface never follows the
\* NULL of a failed vswitch_lookup: a slot with the tap's name is live.
THEOREM NoNullDereference ==
  ASSUME ~TapOpenFails PROVE Spec => []NoNullVswitch
<1>1. Init => VswitchInv /\ NoNullVswitch
  BY InitFacts DEF NoNullVswitch
<1>2. VswitchInv /\ NoNullVswitch /\ [Next]_vars => VswitchInv' /\ NoNullVswitch'
  BY VswitchStep
<1> QED
  BY <1>1, <1>2, PTL DEF Spec

\* _flooding never sends a frame to a link of another vswitch, to a deleted
\* link, or to a link twice, whatever was deleted, reused or did not fit.
THEOREM FloodStaysInside == Spec => []FloodInside
<1>1. VswitchInv => FloodInside
  BY FloodFacts
<1> QED
  BY <1>1, InvHolds, PTL

\* While vswitch_link_new finds room in the vswitch's array, _flooding also
\* misses no link in use.
THEOREM FloodIsolation == Spec /\ LinksFit => []FloodIsolated
<1> DEFINE Fit == \A id \in VswitchId, p \in Port, tag \in AllTags \cup {0} :
                    VswitchPortSet(id, p, tag) => VswitchRoom(id)
<1>1. Init => VswitchInv /\ CompleteInv
  BY InitFacts DEF CompleteInv, Ribs
<1>2. VswitchInv /\ CompleteInv /\ [Next]_vars /\ [Fit]_vars
        => VswitchInv' /\ CompleteInv'
  BY VswitchStep, CompleteStep
<1>3. VswitchInv /\ CompleteInv => FloodIsolated
  BY FloodFacts DEF CompleteInv, Ribs
<1>4. LinksFit <=> [][Fit]_vars
  BY DEF LinksFit
<1> HIDE DEF Fit
<1> QED
  BY <1>1, <1>2, <1>3, <1>4, PTL DEF Spec

\* While nothing is deleted and port_add_tagged_vlan finds room, frames are
\* accepted exactly as the links say, once PORT_STATUS came first.
THEOREM DeliveredAsConfigured ==
  ASSUME ~EarlyConfig PROVE Spec /\ VlansFit => []Delivered
<1> DEFINE Fit == \A id \in VswitchId, p \in Port, tag \in AllTags \cup {0} :
                    VswitchPortSet(id, p, tag) => PortRoom(p, tag)
<1>1. Init => VswitchInv /\ PortedInv
  BY InitFacts DEF PortedInv, Ribs
<1>2. VswitchInv /\ PortedInv /\ [Next]_vars /\ [Fit]_vars
        => VswitchInv' /\ PortedInv'
  BY VswitchStep, PortedStep
<1>3. VswitchInv /\ PortedInv => Delivered
  <2>1. VswitchInv => rib \in Rib
    BY DEF VswitchInv, TypeOK
  <2> QED
    BY <2>1, DeliveryFacts DEF PortedInv, Ribs, Delivered
<1>4. VlansFit <=> [][Fit]_vars
  BY DEF VlansFit
<1> HIDE DEF Fit
<1> QED
  BY <1>1, <1>2, <1>3, <1>4, PTL DEF Spec
=============================================================================
