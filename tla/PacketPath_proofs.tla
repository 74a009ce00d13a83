-------------------------- MODULE PacketPath_proofs --------------------------
(***************************************************************************)
(* Proofs about PacketPath, for any number of ports and vswitches, any     *)
(* configuration of links and routes, any size of the pool, the rings and  *)
(* the transmit buffers, and all six worker programs: every buffer is      *)
(* accounted for, a frame is sent at most once per link, and frames stay   *)
(* in their vswitch.                                                       *)
(***************************************************************************)
EXTENDS PacketPath, Induction_proofs, SequenceTheorems

-----------------------------------------------------------------------------
(* Queues and what they hold.                                              *)

LEMMA HeldEmpty == Held(<<>>) = 0
<1>1. {k \in DOMAIN <<>> : <<>>[k] # Null} = {}
  OBVIOUS
<1> QED
  BY <1>1, FS_EmptySet DEF Held

LEMMA HeldType ==
  ASSUME NEW X, NEW q \in Seq(X)
  PROVE  Held(q) \in Nat
<1>1. {k \in DOMAIN q : q[k] # Null} \in SUBSET (1 .. Len(q))
  OBVIOUS
<1>2. IsFiniteSet(1 .. Len(q))
  BY FS_Interval
<1> QED
  BY <1>1, <1>2, FS_Subset, FS_CardinalityType DEF Held

\* A sequence without NULL holds as many buffers as it is long.
LEMMA HeldAppend ==
  ASSUME NEW X, NEW q \in Seq(X), NEW x
  PROVE  Held(Append(q, x)) = Held(q) + IF x = Null THEN 0 ELSE 1
<1> DEFINE n == Len(q)
           H == {k \in DOMAIN q : q[k] # Null}
           G == {k \in DOMAIN Append(q, x) : Append(q, x)[k] # Null}
<1>1. q \in Seq(X \cup {x}) /\ x \in X \cup {x}
  BY SeqDef
<1>2. /\ DOMAIN Append(q, x) = 1 .. n + 1
      /\ \A k \in 1 .. n : Append(q, x)[k] = q[k]
      /\ Append(q, x)[n + 1] = x
      /\ DOMAIN q = 1 .. n /\ n \in Nat
  BY <1>1, AppendProperties, LenProperties
<1>3. G = IF x = Null THEN H ELSE H \cup {n + 1}
  BY <1>2
<1>4. IsFiniteSet(H) /\ n + 1 \notin H
  <2>1. H \in SUBSET (1 .. n) /\ IsFiniteSet(1 .. n)
    BY <1>2, FS_Interval
  <2> QED
    BY <1>2, <2>1, FS_Subset
<1>5. Cardinality(H) \in Nat
  BY <1>4, FS_CardinalityType
<1> HIDE DEF H, G, n
<1>6. Cardinality(G) = Cardinality(H) + IF x = Null THEN 0 ELSE 1
  <2>1. Cardinality(H \cup {n + 1}) = Cardinality(H) + 1
    BY <1>4, FS_AddElement
  <2> QED
    BY <1>3, <1>5, <2>1
<1> QED
  BY <1>6 DEF Held, H, G

LEMMA HeldTail ==
  ASSUME NEW X, NEW q \in Seq(X), q # <<>>
  PROVE  Held(Tail(q)) = Held(q) - IF Head(q) = Null THEN 0 ELSE 1
<1> DEFINE n == Len(q)
           H == {k \in DOMAIN q : q[k] # Null}
           R == H \ {1}
           G == {k \in DOMAIN Tail(q) : Tail(q)[k] # Null}
           f == [k \in G |-> k + 1]
<1>1. /\ DOMAIN q = 1 .. n /\ n \in Nat \ {0}
      /\ DOMAIN Tail(q) = 1 .. n - 1
      /\ \A k \in 1 .. n - 1 : Tail(q)[k] = q[k + 1]
      /\ Head(q) = q[1]
  BY HeadTailProperties, LenProperties, EmptySeq
<1>2. G \subseteq Nat /\ \A k \in G : k + 1 \in R
  BY <1>1
<1>3. \A k \in R : k - 1 \in G /\ (k - 1) + 1 = k
  BY <1>1
<1>4. IsFiniteSet(H) /\ IsFiniteSet(G)
  <2>1. H \in SUBSET (1 .. n) /\ G \in SUBSET (1 .. n)
    BY <1>1
  <2>2. IsFiniteSet(1 .. n)
    BY <1>1, FS_Interval
  <2> HIDE DEF H, G
  <2> QED
    BY <2>1, <2>2, FS_Subset
<1>5. Cardinality(R) = Cardinality(G)
  <2> HIDE DEF G, R
  <2>1. f \in [G -> R]
    BY <1>2
  <2>2. \A a, b \in G : f[a] = f[b] => a = b
    BY <1>2
  <2>3. \A k \in R : \E j \in G : f[j] = k
    BY <1>3
  <2>4. f \in Bijection(G, R)
    BY <2>1, <2>2, <2>3 DEF Bijection, Injection, Surjection, IsInjective
  <2>5. ExistsBijection(G, R)
    BY <2>4 DEF ExistsBijection
  <2> QED
    BY <1>4, <2>5, FS_Bijection
<1>6. Cardinality(R) = IF 1 \in H THEN Cardinality(H) - 1 ELSE Cardinality(H)
  BY <1>4, FS_RemoveElement
<1>7. 1 \in H <=> Head(q) # Null
  BY <1>1
<1>8. Cardinality(H) \in Nat
  BY <1>4, FS_CardinalityType
<1> HIDE DEF H, G, R
<1>9. Cardinality(G) = Cardinality(H) - IF Head(q) = Null THEN 0 ELSE 1
  BY <1>5, <1>6, <1>7, <1>8
<1> QED
  BY <1>9 DEF Held, H, G

-----------------------------------------------------------------------------
(* The buffers inside, as sums.                                            *)

InPorts(x, t) == SumFunctionOnSet([p \in Port |-> Len(x[p]) + Len(t[p])], Port)
InRings(r) == SumFunctionOnSet([i \in Rings |-> Held(r[i])], Rings)

LEMMA InsideSum == Inside = InPorts(rx, tx) + InRings(ring)
BY DEF Inside, InPorts, InRings, HeldIn, SumFunction

LEMMA RingsFinite == IsFiniteSet(Rings)
<1>1. IsFiniteSet(Port) /\ IsFiniteSet(Slot)
  BY PlaceAssumption
<1>2. /\ IsFiniteSet({"up", "cap"} \cup {"dn"}) /\ IsFiniteSet({"tapup"} \cup {"tapdn"})
      /\ IsFiniteSet({<<"app", 0>>})
  <2>1. IsFiniteSet({"up"} \cup {"cap"})
    BY FS_Singleton, FS_AddElement
  <2>2. {"up"} \cup {"cap"} = {"up", "cap"}
    OBVIOUS
  <2> QED
    BY <2>1, <2>2, FS_Singleton, FS_AddElement, ZenonT(60)
<1>3. {"up", "cap"} \cup {"dn"} = {"up", "cap", "dn"} /\ {"tapup"} \cup {"tapdn"} = {"tapup", "tapdn"}
  OBVIOUS
<1>4. /\ IsFiniteSet({"up", "cap", "dn"} \X Slot)
      /\ IsFiniteSet({"tapup", "tapdn"} \X Port)
  BY <1>1, <1>2, <1>3, FS_Product
<1>5. IsFiniteSet(({"up", "cap", "dn"} \X Slot) \cup ({"tapup", "tapdn"} \X Port))
  BY <1>4, FS_Union
<1> QED
  BY <1>2, <1>5, FS_Union DEF Rings

LEMMA InPortsType ==
  ASSUME NEW X, NEW x \in [Port -> Seq(X)], NEW t \in [Port -> Seq(X)]
  PROVE  InPorts(x, t) \in Nat
<1>1. [p \in Port |-> Len(x[p]) + Len(t[p])] \in [Port -> Nat]
  OBVIOUS
<1> QED
  BY <1>1, PlaceAssumption, SumType DEF InPorts

LEMMA PortSumChanged ==
  ASSUME NEW f \in [Port -> Int], NEW g \in [Port -> Int], NEW p \in Port,
         \A o \in Port \ {p} : g[o] = f[o]
  PROVE  SumFunctionOnSet(g, Port) = SumFunctionOnSet(f, Port) + (g[p] - f[p])
<1>1. IsFiniteSet(Port)
  BY PlaceAssumption
<1> QED
  BY <1>1, SumChanged

\* The transmit buffer of one port changes, or its receive queue.
LEMMA TxChanged ==
  ASSUME NEW X, rx \in [Port -> Seq(X)], NEW old \in [Port -> Seq(X)],
         NEW new \in [Port -> Seq(X)], NEW p \in Port,
         \A o \in Port \ {p} : new[o] = old[o]
  PROVE  InPorts(rx, new) = InPorts(rx, old) + (Len(new[p]) - Len(old[p]))
<1> DEFINE f == [o \in Port |-> Len(rx[o]) + Len(old[o])]
           g == [o \in Port |-> Len(rx[o]) + Len(new[o])]
<1>1. f \in [Port -> Int] /\ g \in [Port -> Int]
  OBVIOUS
<1>2. \A o \in Port \ {p} : g[o] = f[o]
  OBVIOUS
<1>3. g[p] - f[p] = Len(new[p]) - Len(old[p])
  <2>1. g[p] = Len(rx[p]) + Len(new[p]) /\ f[p] = Len(rx[p]) + Len(old[p])
    OBVIOUS
  <2>2. Len(rx[p]) \in Nat /\ Len(new[p]) \in Nat /\ Len(old[p]) \in Nat
    OBVIOUS
  <2> HIDE DEF f, g
  <2> QED
    BY <2>1, <2>2
<1> HIDE DEF f, g
<1>4. SumFunctionOnSet(g, Port) = SumFunctionOnSet(f, Port) + (g[p] - f[p])
  BY <1>1, <1>2, PortSumChanged
<1> QED
  BY <1>3, <1>4 DEF InPorts, f, g

LEMMA RxChanged ==
  ASSUME NEW X, NEW t \in [Port -> Seq(X)], rx \in [Port -> Seq(X)], NEW p \in Port,
         NEW q \in Seq(X)
  PROVE  InPorts([rx EXCEPT ![p] = q], t) = InPorts(rx, t) + (Len(q) - Len(rx[p]))
<1> DEFINE new == [rx EXCEPT ![p] = q]
           f == [o \in Port |-> Len(rx[o]) + Len(t[o])]
           g == [o \in Port |-> Len(new[o]) + Len(t[o])]
<1>1. new \in [Port -> Seq(X)] /\ new[p] = q /\ \A o \in Port \ {p} : new[o] = rx[o]
  OBVIOUS
<1> HIDE DEF new
<1>2. f \in [Port -> Int] /\ g \in [Port -> Int]
  BY <1>1
<1>3. \A o \in Port \ {p} : g[o] = f[o]
  BY <1>1
<1>4. g[p] - f[p] = Len(q) - Len(rx[p])
  <2>1. g[p] = Len(q) + Len(t[p]) /\ f[p] = Len(rx[p]) + Len(t[p])
    BY <1>1
  <2>2. Len(t[p]) \in Nat /\ Len(q) \in Nat /\ Len(rx[p]) \in Nat
    OBVIOUS
  <2> HIDE DEF f, g
  <2> QED
    BY <2>1, <2>2
<1> HIDE DEF f, g
<1>5. SumFunctionOnSet(g, Port) = SumFunctionOnSet(f, Port) + (g[p] - f[p])
  BY <1>2, <1>3, PortSumChanged
<1> QED
  BY <1>4, <1>5 DEF InPorts, f, g, new

LEMMA InRingsType ==
  ASSUME NEW X, NEW r \in [Rings -> Seq(X)]
  PROVE  InRings(r) \in Nat
<1>1. [i \in Rings |-> Held(r[i])] \in [Rings -> Nat]
  BY HeldType
<1> QED
  BY <1>1, RingsFinite, SumType DEF InRings

LEMMA InRingsChanged ==
  ASSUME NEW X, NEW r \in [Rings -> Seq(X)], NEW u \in [Rings -> Seq(X)], NEW i \in Rings,
         \A j \in Rings \ {i} : u[j] = r[j]
  PROVE  InRings(u) = InRings(r) + (Held(u[i]) - Held(r[i]))
<1> DEFINE f == [j \in Rings |-> Held(r[j])]
           g == [j \in Rings |-> Held(u[j])]
<1>1. f \in [Rings -> Int] /\ g \in [Rings -> Int]
  BY HeldType
<1>2. \A j \in Rings \ {i} : g[j] = f[j]
  OBVIOUS
<1>3. g[i] = Held(u[i]) /\ f[i] = Held(r[i])
  OBVIOUS
<1> HIDE DEF f, g
<1>4. SumFunctionOnSet(g, Rings) = SumFunctionOnSet(f, Rings) + (g[i] - f[i])
  BY <1>1, <1>2, RingsFinite, SumChanged, ZenonT(60)
<1> QED
  BY <1>3, <1>4 DEF InRings, f, g

-----------------------------------------------------------------------------
(* Carrying out one emission.                                              *)

\* Only frames are in the rings to the workers; in the others there may be
\* NULL too.
DownRing == {i \in Rings : i[1] \in {"dn", "tapdn"}}
UpRing == Rings \ DownRing

RingsOf(F) == {r \in [Rings -> {q \in Seq(F \cup {Null}) : Len(q) <= RingSize}] :
                 \A i \in DownRing : r[i] \in Seq(F)}
TxOf(F) == [Port -> {q \in Seq(F) : Len(q) < TxBurst}]
MsgsOf(M) == {q \in Seq(M) : Len(q) <= QueueSize}

Work(F, M) ==
  [pool : Nat, tx : TxOf(F), ring : RingsOf(F), msgs : MsgsOf(M), out : Seq(F),
   ok : BOOLEAN, fault : BOOLEAN]

\* The buffers that a worker's state accounts for.
Weight(b) == b.pool + InPorts(rx, b.tx) + InRings(b.ring)

\* A frame has a tag, which a NULL has not.
IsFrame(f) == "tag" \in DOMAIN f

LEMMA FrameIsNotNull == ASSUME NEW f, IsFrame(f) PROVE f # Null
BY DEF IsFrame, Null

LEMMA WorkFacts ==
  ASSUME NEW F, NEW M, NEW b \in Work(F, M), rx \in [Port -> Seq(F)]
  PROVE  /\ b.pool \in Nat /\ b.tx \in TxOf(F) /\ b.tx \in [Port -> Seq(F)]
         /\ b.ring \in RingsOf(F) /\ b.ring \in [Rings -> Seq(F \cup {Null})]
         /\ b.msgs \in MsgsOf(M) /\ b.out \in Seq(F)
         /\ b.ok \in BOOLEAN /\ b.fault \in BOOLEAN
         /\ InPorts(rx, b.tx) \in Nat /\ InRings(b.ring) \in Nat
         /\ Weight(b) \in Nat
<1>1. /\ b.pool \in Nat /\ b.tx \in TxOf(F) /\ b.ring \in RingsOf(F)
      /\ b.msgs \in MsgsOf(M) /\ b.out \in Seq(F)
      /\ b.ok \in BOOLEAN /\ b.fault \in BOOLEAN
  BY DEF Work
<1>2. b.tx \in [Port -> Seq(F)]
  BY <1>1 DEF TxOf
<1>3. b.ring \in [Rings -> Seq(F \cup {Null})]
  BY <1>1 DEF RingsOf
<1>4. InPorts(rx, b.tx) \in Nat
  BY <1>2, InPortsType
<1>5. InRings(b.ring) \in Nat
  BY <1>3, InRingsType
<1> QED
  BY <1>1, <1>2, <1>3, <1>4, <1>5 DEF Weight

LEMMA BufferFacts ==
  ASSUME NEW F, NEW M, NEW b \in Work(F, M), NEW p \in Port, NEW f \in F,
         rx \in [Port -> Seq(F)]
  PROVE  /\ Buffer(b, p, f) \in Work(F, M)
         /\ Weight(Buffer(b, p, f)) = Weight(b)
         /\ Buffer(b, p, f).ok = b.ok /\ Buffer(b, p, f).ring = b.ring
         /\ Buffer(b, p, f).fault = b.fault
<1> DEFINE t == Append(b.tx[p], f)
<1>1. /\ b.pool \in Nat /\ b.tx \in TxOf(F) /\ b.tx \in [Port -> Seq(F)]
      /\ b.out \in Seq(F) /\ InPorts(rx, b.tx) \in Nat /\ InRings(b.ring) \in Nat
  BY WorkFacts
<1>2. t \in Seq(F) /\ Len(t) = Len(b.tx[p]) + 1 /\ Len(b.tx[p]) \in Nat
  BY <1>1
<1>3. CASE b.pool = 0
  BY <1>3 DEF Buffer
<1>4. CASE b.pool # 0 /\ Len(t) < TxBurst
  <2>1. PICK u : u = [b.tx EXCEPT ![p] = t]
    OBVIOUS
  <2>2. PICK n : n = b.pool - 1
    OBVIOUS
  <2>3. PICK c : c = [b EXCEPT !.tx = u, !.pool = n]
    OBVIOUS
  <2>4. Buffer(b, p, f) = c
    BY <1>4, <2>1, <2>2, <2>3 DEF Buffer, Work
  <2>5. u \in TxOf(F) /\ u \in [Port -> Seq(F)] /\ u[p] = t
        /\ \A o \in Port \ {p} : u[o] = b.tx[o]
    BY <1>1, <1>2, <1>4, <2>1 DEF TxOf
  <2>6. n \in Nat
    BY <1>1, <1>4, <2>2
  <2>7. c \in Work(F, M) /\ c.pool = n /\ c.tx = u /\ c.ring = b.ring
        /\ c.ok = b.ok /\ c.fault = b.fault
    BY <2>3, <2>5, <2>6 DEF Work
  <2>8. InPorts(rx, u) = InPorts(rx, b.tx) + (Len(u[p]) - Len(b.tx[p]))
    BY <1>1, <2>5, TxChanged, ZenonT(60)
  <2>9. InPorts(rx, u) = InPorts(rx, b.tx) + 1
    BY <1>1, <1>2, <2>5, <2>8
  <2>10. Weight(c) = Weight(b)
    <3> HIDE DEF t
    <3>1. Weight(c) = n + InPorts(rx, u) + InRings(b.ring)
      BY <2>7 DEF Weight
    <3>2. Weight(b) = b.pool + InPorts(rx, b.tx) + InRings(b.ring)
      BY DEF Weight
    <3>3. b.pool \in Nat /\ InPorts(rx, b.tx) \in Nat /\ InRings(b.ring) \in Nat
      BY <1>1
    <3>4. n \in Nat /\ InPorts(rx, u) \in Nat
      BY <2>6, <2>9, <3>3
    <3>5. n + InPorts(rx, u) = b.pool + InPorts(rx, b.tx)
      BY <2>2, <2>9, <3>3
    <3> QED
      BY <3>1, <3>2, <3>3, <3>4, <3>5
  <2> QED
    BY <2>4, <2>7, <2>10
<1>5. CASE b.pool # 0 /\ ~(Len(t) < TxBurst)
  <2>1. PICK u : u = [b.tx EXCEPT ![p] = <<>>]
    OBVIOUS
  <2>2. PICK n : n = b.pool + Len(t) - 1
    OBVIOUS
  <2>3. PICK o : o = b.out \o t
    OBVIOUS
  <2>4. PICK c : c = [b EXCEPT !.tx = u, !.pool = n, !.out = o]
    OBVIOUS
  <2>5. Buffer(b, p, f) = c
    BY <1>5, <2>1, <2>2, <2>3, <2>4 DEF Buffer, Work
  <2>6. u \in TxOf(F) /\ u \in [Port -> Seq(F)] /\ u[p] = <<>>
        /\ \A x \in Port \ {p} : u[x] = b.tx[x]
    <3>1. <<>> \in Seq(F) /\ Len(<<>>) = 0 /\ 0 < TxBurst
      BY SizeAssumption
    <3> QED
      BY <1>1, <2>1, <3>1 DEF TxOf
  <2>7. n \in Nat /\ o \in Seq(F)
    BY <1>1, <1>2, <2>2, <2>3
  <2>8. c \in Work(F, M) /\ c.pool = n /\ c.tx = u /\ c.ring = b.ring
        /\ c.ok = b.ok /\ c.fault = b.fault
    BY <2>4, <2>6, <2>7 DEF Work
  <2>9. InPorts(rx, u) = InPorts(rx, b.tx) + (Len(u[p]) - Len(b.tx[p]))
    BY <1>1, <2>6, TxChanged
  <2>10. InPorts(rx, u) = InPorts(rx, b.tx) - Len(b.tx[p])
    BY <1>1, <1>2, <2>6, <2>9
  <2>11. Weight(c) = Weight(b)
    <3> HIDE DEF t
    <3> QED
      BY <1>1, <1>2, <2>2, <2>8, <2>10 DEF Weight
  <2> QED
    BY <2>5, <2>8, <2>11
<1> QED
  BY <1>3, <1>4, <1>5

\* A copy, or a NULL, that is added to a ring.
LEMMA RingAppend ==
  ASSUME NEW F, NEW r \in RingsOf(F), NEW i \in UpRing, NEW x \in F \cup {Null},
         Len(r[i]) # RingSize
  PROVE  /\ [r EXCEPT ![i] = Append(@, x)] \in RingsOf(F)
         /\ InRings([r EXCEPT ![i] = Append(@, x)]) =
              InRings(r) + IF x = Null THEN 0 ELSE 1
<1>1. PICK u : u = [r EXCEPT ![i] = Append(r[i], x)]
  OBVIOUS
<1>2. /\ r \in [Rings -> Seq(F \cup {Null})] /\ i \in Rings /\ i \notin DownRing
      /\ Len(r[i]) <= RingSize /\ RingSize \in Nat
  BY SizeAssumption DEF RingsOf, UpRing
<1>3. Append(r[i], x) \in Seq(F \cup {Null}) /\ Len(Append(r[i], x)) = Len(r[i]) + 1
      /\ Len(r[i]) \in Nat
  BY <1>2
<1>4. Len(Append(r[i], x)) <= RingSize
  BY <1>2, <1>3
<1>5. /\ u[i] = Append(r[i], x) /\ \A j \in Rings \ {i} : u[j] = r[j]
      /\ u \in [Rings -> Seq(F \cup {Null})]
  BY <1>1, <1>2, <1>3
<1>a. u \in RingsOf(F)
  <2> DEFINE Q == {q \in Seq(F \cup {Null}) : Len(q) <= RingSize}
  <2>1. r \in [Rings -> Q] /\ \A j \in DownRing : r[j] \in Seq(F)
    BY DEF RingsOf
  <2>2. Append(r[i], x) \in Q
    BY <1>3, <1>4
  <2> HIDE DEF Q
  <2>3. u \in [Rings -> Q] /\ \A j \in DownRing : u[j] \in Seq(F)
    BY <1>1, <1>2, <2>1, <2>2 DEF DownRing
  <2> QED
    BY <2>3 DEF RingsOf, Q
<1>6. InRings(u) = InRings(r) + (Held(u[i]) - Held(r[i]))
  <2>1. PICK X : X = F \cup {Null}
    OBVIOUS
  <2>2. r \in [Rings -> Seq(X)] /\ u \in [Rings -> Seq(X)]
    BY <1>2, <1>5, <2>1
  <2>3. i \in Rings /\ \A j \in Rings \ {i} : u[j] = r[j]
    BY <1>2, <1>5
  <2> QED
    BY <2>2, <2>3, InRingsChanged
<1>7. Held(u[i]) = Held(r[i]) + IF x = Null THEN 0 ELSE 1
  <2>1. PICK X : X = F \cup {Null}
    OBVIOUS
  <2>2. r[i] \in Seq(X)
    BY <1>2, <2>1
  <2> QED
    BY <1>5, <2>2, HeldAppend
<1>8. Held(r[i]) \in Nat /\ InRings(r) \in Nat
  BY <1>2, HeldType, InRingsType
<1>9. InRings(u) = InRings(r) + IF x = Null THEN 0 ELSE 1
  BY <1>6, <1>7, <1>8
<1> QED
  BY <1>1, <1>a, <1>9

LEMMA EnqueueFacts ==
  ASSUME NEW F, NEW M, NEW b \in Work(F, M), NEW i \in UpRing, NEW f \in F,
         rx \in [Port -> Seq(F)], Null \notin F, b.pool > 0
  PROVE  /\ Enqueue(b, i, f) \in Work(F, M)
         /\ Weight(Enqueue(b, i, f)) = Weight(b)
         /\ Enqueue(b, i, f).ok = b.ok /\ Enqueue(b, i, f).fault = b.fault
<1>1. CASE Len(b.ring[i]) = RingSize
  BY <1>1 DEF Enqueue
<1>2. CASE Len(b.ring[i]) # RingSize
  <2>1. /\ b.pool \in Nat /\ b.ring \in RingsOf(F)
        /\ InPorts(rx, b.tx) \in Nat /\ InRings(b.ring) \in Nat
    BY WorkFacts
  <2>2. PICK u : u = [b.ring EXCEPT ![i] = Append(@, f)]
    OBVIOUS
  <2>3. PICK n : n = b.pool - 1
    OBVIOUS
  <2>4. PICK c : c = [b EXCEPT !.ring = u, !.pool = n]
    OBVIOUS
  <2>5. Enqueue(b, i, f) = c
    BY <1>2, <2>2, <2>3, <2>4 DEF Enqueue, Work
  <2>6. u \in RingsOf(F) /\ InRings(u) = InRings(b.ring) + 1
    <3>1. PICK x \in F \cup {Null} : x = f /\ x # Null
      OBVIOUS
    <3>2. PICK r \in RingsOf(F) : r = b.ring
      BY <2>1
    <3>3. /\ [r EXCEPT ![i] = Append(@, x)] \in RingsOf(F)
          /\ InRings([r EXCEPT ![i] = Append(@, x)]) =
               InRings(r) + IF x = Null THEN 0 ELSE 1
      <4>1. Len(r[i]) # RingSize
        BY <1>2, <3>2
      <4> QED
        BY <4>1, RingAppend, ZenonT(60)
    <3> QED
      BY <2>2, <3>1, <3>2, <3>3
  <2>7. n \in Nat
    BY <2>1, <2>3
  <2>8. c \in Work(F, M) /\ c.pool = n /\ c.tx = b.tx /\ c.ring = u
        /\ c.ok = b.ok /\ c.fault = b.fault
    BY <2>4, <2>6, <2>7 DEF Work
  <2>9. Weight(c) = n + InPorts(rx, b.tx) + InRings(u)
    BY <2>8 DEF Weight
  <2>10. Weight(b) = b.pool + InPorts(rx, b.tx) + InRings(b.ring)
    BY DEF Weight
  <2>11. Weight(c) = Weight(b)
    BY <2>1, <2>3, <2>6, <2>9, <2>10, SMTT(30)
  <2> QED
    BY <2>5, <2>8, <2>11
<1> QED
  BY <1>1, <1>2

LEMMA EnqueueRawFacts ==
  ASSUME NEW F, NEW M, NEW b \in Work(F, M), NEW i \in UpRing, NEW f \in F,
         rx \in [Port -> Seq(F)], Null \notin F
  PROVE  /\ EnqueueRaw(b, i, f) \in Work(F, M)
         /\ Weight(EnqueueRaw(b, i, f)) = Weight(b)
         /\ EnqueueRaw(b, i, f).ok = b.ok /\ EnqueueRaw(b, i, f).fault = b.fault
<1>1. CASE b.pool > 0
  BY <1>1, EnqueueFacts DEF EnqueueRaw
<1>2. CASE ~(b.pool > 0) /\ Len(b.ring[i]) = RingSize
  BY <1>2 DEF EnqueueRaw
<1>3. CASE ~(b.pool > 0) /\ Len(b.ring[i]) # RingSize
  <2>1. /\ b.pool \in Nat /\ b.ring \in RingsOf(F)
        /\ InPorts(rx, b.tx) \in Nat /\ InRings(b.ring) \in Nat
    BY WorkFacts
  <2>2. PICK u : u = [b.ring EXCEPT ![i] = Append(@, Null)]
    OBVIOUS
  <2>3. PICK c : c = [b EXCEPT !.ring = u]
    OBVIOUS
  <2>4. EnqueueRaw(b, i, f) = c
    BY <1>3, <2>2, <2>3 DEF EnqueueRaw, Work
  <2>5. u \in RingsOf(F) /\ InRings(u) = InRings(b.ring) + 0
    <3>1. Null \in F \cup {Null}
      OBVIOUS
    <3> QED
      <4>1. PICK x : x = Null
        OBVIOUS
      <4>2. /\ [b.ring EXCEPT ![i] = Append(@, x)] \in RingsOf(F)
            /\ InRings([b.ring EXCEPT ![i] = Append(@, x)]) =
                 InRings(b.ring) + IF x = Null THEN 0 ELSE 1
        BY <1>3, <2>1, <3>1, <4>1, RingAppend
      <4> QED
        BY <2>2, <4>1, <4>2
  <2>6. c \in Work(F, M) /\ c.pool = b.pool /\ c.tx = b.tx /\ c.ring = u
        /\ c.ok = b.ok /\ c.fault = b.fault
    BY <2>3, <2>5 DEF Work
  <2>7. Weight(c) = b.pool + InPorts(rx, b.tx) + InRings(u)
    BY <2>6 DEF Weight
  <2>8. Weight(b) = b.pool + InPorts(rx, b.tx) + InRings(b.ring)
    BY DEF Weight
  <2>9. Weight(c) = Weight(b)
    BY <2>1, <2>5, <2>7, <2>8
  <2> QED
    BY <2>4, <2>6, <2>9
<1> QED
  BY <1>1, <1>2, <1>3

\* What an emission may be.  A plain one takes nothing from the pool that
\* it does not hand on.
Plain(r, x) ==
  \/ x.to = "link" /\ x.at \in DOMAIN r.link
  \/ x.to = "port" /\ x.at \in Port
  \/ x.to \in {"router_if", "ring", "raw"} /\ x.at \in UpRing
  \/ x.to = "neigh"

Message(x) == [type |-> "neigh", key |-> <<x.at, x.fr.src>>, val |-> x.fr.src]

LEMMA EmitPlain ==
  ASSUME NEW F, NEW M, NEW b \in Work(F, M), NEW x, Plain(rib, x), x.fr \in F, b.ok,
         rx \in [Port -> Seq(F)], Null \notin F, Message(x) \in M,
         \A l \in DOMAIN rib.link : rib.link[l].port \in Port
  PROVE  /\ Emit(b, x) \in Work(F, M)
         /\ Weight(Emit(b, x)) = Weight(b)
         /\ Emit(b, x).ok /\ (x.to = "link" => Emit(b, x).ring = b.ring)
<1>1. CASE x.to = "link" /\ x.at \in DOMAIN rib.link
  <2>1. Emit(b, x) = Buffer(b, rib.link[x.at].port, x.fr)
    BY <1>1 DEF Emit
  <2> QED
    BY <1>1, <2>1, BufferFacts
<1>2. CASE x.to = "port" /\ x.at \in Port
  <2>1. Emit(b, x) = Buffer(b, x.at, x.fr)
    BY <1>2 DEF Emit
  <2> QED
    BY <1>2, <2>1, BufferFacts
<1>3. CASE x.to = "router_if" /\ x.at \in UpRing
  <2>1. Emit(b, x) = SendRouterIf(b, x.at, x.fr)
    BY <1>3 DEF Emit
  <2>2. b.pool \in Nat
    BY WorkFacts
  <2>3. CASE b.pool < 2
    BY <1>3, <2>1, <2>3 DEF SendRouterIf
  <2>4. CASE ~(b.pool < 2)
    <3>1. b.pool > 0 /\ Emit(b, x) = Enqueue(b, x.at, x.fr)
      BY <2>1, <2>2, <2>4 DEF SendRouterIf
    <3> QED
      BY <1>3, <3>1, EnqueueFacts
  <2> QED
    BY <2>3, <2>4
<1>4. CASE x.to = "ring" /\ x.at \in UpRing
  <2>1. Emit(b, x) = IF b.pool = 0 THEN b ELSE Enqueue(b, x.at, x.fr)
    BY <1>4 DEF Emit
  <2>2. b.pool \in Nat
    BY WorkFacts
  <2>3. CASE b.pool = 0
    BY <1>4, <2>1, <2>3
  <2>4. CASE b.pool # 0
    <3>1. b.pool > 0 /\ Emit(b, x) = Enqueue(b, x.at, x.fr)
      BY <2>1, <2>2, <2>4
    <3> QED
      BY <1>4, <3>1, EnqueueFacts
  <2> QED
    BY <2>3, <2>4
<1>5. CASE x.to = "raw" /\ x.at \in UpRing
  <2>1. Emit(b, x) = EnqueueRaw(b, x.at, x.fr)
    BY <1>5 DEF Emit
  <2> QED
    BY <1>5, <2>1, EnqueueRawFacts
<1>6. CASE x.to = "neigh"
  <2>1. PICK q : q = SendMsg(b.msgs, Message(x))
    OBVIOUS
  <2>2. PICK c : c = [b EXCEPT !.msgs = q]
    OBVIOUS
  <2>3. Emit(b, x) = c
    BY <1>6, <2>1, <2>2 DEF Emit, Message, Work
  <2>4. q \in MsgsOf(M)
    <3>1. b.msgs \in Seq(M) /\ Len(b.msgs) <= QueueSize /\ Len(b.msgs) \in Nat /\ QueueSize \in Nat
      BY SizeAssumption DEF Work, MsgsOf
    <3>2. /\ Append(b.msgs, Message(x)) \in Seq(M)
          /\ Len(Append(b.msgs, Message(x))) = Len(b.msgs) + 1
      BY <3>1
    <3> QED
      BY <2>1, <3>1, <3>2 DEF MsgsOf, SendMsg
  <2>5. c \in Work(F, M) /\ c.pool = b.pool /\ c.tx = b.tx /\ c.ring = b.ring /\ c.ok = b.ok
    BY <2>2, <2>4 DEF Work
  <2>6. Weight(c) = Weight(b)
    BY <2>5 DEF Weight
  <2> QED
    BY <1>6, <2>3, <2>5, <2>6
<1> QED
  BY <1>1, <1>2, <1>3, <1>4, <1>5, <1>6 DEF Plain

LEMMA EmitOther ==
  ASSUME NEW F, NEW M, NEW b \in Work(F, M), NEW x, x.to \in {"alloc", "free", "null"},
         b.ok, rx \in [Port -> Seq(F)]
  PROVE  /\ Emit(b, x) \in Work(F, M)
         /\ x.to = "alloc" =>
              \/ ~Emit(b, x).ok /\ Weight(Emit(b, x)) = Weight(b)
              \/ Emit(b, x).ok /\ Weight(Emit(b, x)) = Weight(b) - 1
         /\ x.to = "free" => Emit(b, x).ok /\ Weight(Emit(b, x)) = Weight(b) + 1
         /\ x.to = "null" => ~Emit(b, x).ok /\ Weight(Emit(b, x)) = Weight(b)
<1>1. b.pool \in Nat /\ InPorts(rx, b.tx) \in Nat /\ InRings(b.ring) \in Nat
  BY WorkFacts
<1>2. Weight(b) = b.pool + InPorts(rx, b.tx) + InRings(b.ring)
  BY DEF Weight
<1>3. CASE x.to = "null" \/ (x.to = "alloc" /\ b.pool = 0)
  <2>1. PICK y : y = IF x.to = "null" THEN TRUE ELSE b.fault
    OBVIOUS
  <2>2. PICK c : c = [b EXCEPT !.fault = y, !.ok = FALSE]
    OBVIOUS
  <2>3. c \in Work(F, M) /\ c.pool = b.pool /\ c.tx = b.tx /\ c.ring = b.ring /\ ~c.ok
    BY <2>1, <2>2 DEF Work
  <2>4. Emit(b, x) = c
    BY <1>3, <2>1, <2>2 DEF Emit, Work
  <2>5. Weight(c) = Weight(b)
    BY <2>3 DEF Weight
  <2> QED
    BY <1>3, <2>3, <2>4, <2>5
<1>4. CASE x.to = "free" \/ (x.to = "alloc" /\ b.pool # 0)
  <2>1. PICK n : n = IF x.to = "free" THEN b.pool + 1 ELSE b.pool - 1
    OBVIOUS
  <2>2. PICK c : c = [b EXCEPT !.pool = n]
    OBVIOUS
  <2>3. n \in Nat
    BY <1>1, <1>4, <2>1
  <2>4. c \in Work(F, M) /\ c.pool = n /\ c.tx = b.tx /\ c.ring = b.ring /\ c.ok
    BY <2>2, <2>3 DEF Work
  <2>5. Emit(b, x) = c
    BY <1>4, <2>1, <2>2 DEF Emit, Work
  <2>6. Weight(c) = n + InPorts(rx, b.tx) + InRings(b.ring)
    BY <2>4 DEF Weight
  <2>7. Weight(c) = IF x.to = "free" THEN Weight(b) + 1 ELSE Weight(b) - 1
    BY <1>1, <1>2, <2>1, <2>6
  <2> QED
    BY <1>4, <2>4, <2>5, <2>7
<1> QED
  BY <1>3, <1>4

-----------------------------------------------------------------------------
(* Carrying out all emissions of a frame.                                  *)

LEMMA RunSteps ==
  ASSUME NEW S, Now \in S, NEW X, NEW e \in Seq(X),
         \A b \in S, n \in 1 .. Len(e) : Emit(b, e[n]) \in S
  PROVE  \E run \in [0 .. Len(e) -> S] :
           /\ Run(e) = run[Len(e)] /\ run[0] = Now
           /\ \A n \in 1 .. Len(e) : run[n] = Emit(run[n - 1], e[n])
<1> DEFINE len == Len(e)
           Turn(b, n) == CHOOSE c \in {Emit(x, e[n]) : x \in {b}} : TRUE
           Body(f) == [n \in 0 .. len |-> IF n = 0 THEN Now ELSE Turn(f[n - 1], n)]
           run == CHOOSE f : f = Body(f)
           step == [p \in Nat \X S |->
                      IF p[1] \in 1 .. len THEN Emit(p[2], e[p[1]]) ELSE p[2]]
<1>1. len \in Nat
  OBVIOUS
<1>2. Run(e) = run[len]
  BY Zenon DEF Run
<1>3. \A b, n : Turn(b, n) = Emit(b, e[n])
  <2> SUFFICES ASSUME NEW b, NEW n PROVE Turn(b, n) = Emit(b, e[n])
    OBVIOUS
  <2>1. {Emit(x, e[n]) : x \in {b}} = {Emit(b, e[n])}
    OBVIOUS
  <2> QED
    BY <2>1
<1> HIDE DEF len, Turn
<1>4. step \in [Nat \X S -> S]
  <2> SUFFICES ASSUME NEW p \in Nat \X S
               PROVE  (IF p[1] \in 1 .. len THEN Emit(p[2], e[p[1]]) ELSE p[2]) \in S
    OBVIOUS
  <2>1. p[2] \in S
    OBVIOUS
  <2> QED
    BY <2>1 DEF len
<1>5. \A n \in 1 .. len, b \in S : step[<<n, b>>] = Emit(b, e[n])
  BY <1>1
<1> HIDE DEF step
<1>6. PICK f : IsRun(f, Now, step, S, len)
  BY <1>1, <1>4, RunExists
<1>7. f = Body(f)
  <2>1. f \in [0 .. len -> S] /\ f[0] = Now
    BY <1>6 DEF IsRun
  <2>2. ASSUME NEW n \in 1 .. len PROVE f[n] = Turn(f[n - 1], n)
    <3>1. n - 1 \in 0 .. len
      BY <1>1
    <3>2. f[n] = step[<<n, f[n - 1]>>] /\ f[n - 1] \in S
      BY <1>6, <2>1, <3>1 DEF IsRun
    <3> QED
      BY <1>3, <1>5, <3>2
  <2>3. ASSUME NEW n \in 0 .. len
        PROVE  f[n] = IF n = 0 THEN Now ELSE Turn(f[n - 1], n)
    <3>1. n # 0 => n \in 1 .. len
      BY <1>1
    <3> QED
      BY <2>1, <2>2, <3>1
  <2> QED
    BY <2>1, <2>3
<1>8. run = Body(run)
  <2>1. \E h : h = Body(h)
    BY <1>7
  <2> QED
    BY <2>1, Zenon
<1> HIDE DEF run
<1>9. /\ run[0] = Now
      /\ \A n \in 1 .. len : run[n] = Emit(run[n - 1], e[n])
  <2>1. \A n \in 0 .. len : run[n] = IF n = 0 THEN Now ELSE Turn(run[n - 1], n)
    BY <1>8
  <2>2. 0 \in 0 .. len /\ \A n \in 1 .. len : n \in 0 .. len /\ n # 0
    BY <1>1
  <2> QED
    BY <1>3, <2>1, <2>2
<1>10. \A n \in 0 .. len : run[n] \in S
  <2>1. \A n \in 1 .. len : run[n - 1] \in S => run[n] \in S
    BY <1>9 DEF len
  <2> QED
    BY <1>1, <1>9, <2>1, RunInduction
<1>11. run \in [0 .. len -> S]
  <2>1. DOMAIN run = 0 .. len /\ run = [n \in DOMAIN run |-> run[n]]
    BY <1>8
  <2> QED
    BY <1>10, <2>1
<1> QED
  BY <1>2, <1>9, <1>11 DEF len

\* The emissions of a frame: all plain, except that a buffer may be
\* allocated once and is freed at the end, and that a NULL may be followed.
Bracketed(r, e, a, z) ==
  /\ a \in Nat /\ z \in Nat
  /\ a < z => 1 <= a /\ z <= Len(e)
  /\ \A n \in 1 .. Len(e) :
       /\ IsFrame(e[n].fr)
       /\ IF a < z /\ n = a THEN e[n].to = "alloc"
          ELSE IF a < z /\ n = z THEN e[n].to = "free"
          ELSE Plain(r, e[n]) \/ (e[n].to = "null" /\ ~(a < n /\ n < z))

LEMMA RunFacts ==
  ASSUME NEW F, NEW M, Now \in Work(F, M), rx \in [Port -> Seq(F)], Null \notin F,
         \A l \in DOMAIN rib.link : rib.link[l].port \in Port,
         NEW X, NEW e \in Seq(X), NEW a, NEW z, Bracketed(rib, e, a, z),
         \A n \in 1 .. Len(e) : e[n].fr \in F /\ Message(e[n]) \in M
  PROVE  /\ Run(e) \in Work(F, M)
         /\ Weight(Run(e)) = Weight(Now)
         /\ (\A n \in 1 .. Len(e) : e[n].to = "link") => Run(e).ring = ring
<1> DEFINE S == Work(F, M)
           Out(n) == IF a <= n /\ n < z THEN 1 ELSE 0
           ToLinks(n) == \A m \in 1 .. n : e[m].to = "link"
<1>1. Len(e) \in Nat
  OBVIOUS
<1>2. ASSUME NEW b \in S, NEW n \in 1 .. Len(e)
      PROVE  /\ Emit(b, e[n]) \in S
             /\ ~b.ok => Emit(b, e[n]) = b
             /\ b.ok => /\ (e[n].to = "link" => Emit(b, e[n]).ring = b.ring)
                        /\ Weight(Emit(b, e[n])) + (IF Emit(b, e[n]).ok THEN Out(n) ELSE 0)
                             = Weight(b) + Out(n - 1)
  <2>0. Weight(b) \in Nat
    BY WorkFacts
  <2>1. CASE ~b.ok
    BY <2>1 DEF Emit
  <2>2. CASE b.ok /\ a < z /\ n = a
    <3>1. e[n].to = "alloc" /\ Out(n) = 1 /\ Out(n - 1) = 0
      BY <2>2 DEF Bracketed
    <3> HIDE DEF Out
    <3> QED
      BY <2>0, <2>2, <3>1, EmitOther
  <2>3. CASE b.ok /\ a < z /\ n = z
    <3>1. e[n].to = "free" /\ Out(n) = 0 /\ Out(n - 1) = 1
      BY <2>3 DEF Bracketed
    <3> HIDE DEF Out
    <3> QED
      BY <2>0, <2>3, <3>1, EmitOther
  <2>4. CASE b.ok /\ ~(a < z /\ n = a) /\ ~(a < z /\ n = z)
    <3>1. Out(n) = Out(n - 1) /\ Out(n) \in Nat
      BY <2>4 DEF Bracketed
    <3>2. CASE Plain(rib, e[n])
      <4> HIDE DEF Out
      <4>1. e[n].fr \in F /\ Message(e[n]) \in M
        OBVIOUS
      <4>2. /\ Emit(b, e[n]) \in S
            /\ Weight(Emit(b, e[n])) = Weight(b)
            /\ Emit(b, e[n]).ok /\ (e[n].to = "link" => Emit(b, e[n]).ring = b.ring)
        BY <2>4, <3>2, <4>1, EmitPlain
      <4> QED
        BY <2>0, <2>4, <3>1, <4>2
    <3>3. CASE e[n].to = "null" /\ ~(a < n /\ n < z)
      <4>1. Out(n - 1) = 0
        BY <2>4, <3>3 DEF Bracketed
      <4> HIDE DEF Out
      <4>2. /\ Emit(b, e[n]) \in S
            /\ Weight(Emit(b, e[n])) = Weight(b) /\ ~Emit(b, e[n]).ok
        BY <2>4, <3>3, EmitOther
      <4> QED
        BY <2>0, <2>4, <3>3, <4>1, <4>2
    <3> QED
      BY <2>4, <3>2, <3>3 DEF Bracketed
  <2> QED
    BY <2>1, <2>2, <2>3, <2>4
<1> HIDE DEF S
<1>3. PICK run \in [0 .. Len(e) -> S] :
        /\ Run(e) = run[Len(e)] /\ run[0] = Now
        /\ \A n \in 1 .. Len(e) : run[n] = Emit(run[n - 1], e[n])
  <2>1. Now \in S
    BY DEF S
  <2> HIDE DEF Out
  <2>2. \A b \in S, n \in 1 .. Len(e) : Emit(b, e[n]) \in S
    BY <1>2
  <2> QED
    BY <2>1, <2>2, RunSteps
<1> DEFINE Fine == {p \in Nat \X S :
                      /\ Weight(p[2]) + (IF p[2].ok THEN Out(p[1]) ELSE 0) = Weight(Now)
                      /\ ToLinks(p[1]) => p[2].ring = ring}
           h == [n \in 0 .. Len(e) |-> <<n, run[n]>>]
<1>4. h[0] \in Fine
  <2>1. h[0] = <<0, Now>> /\ Now \in S
    BY <1>3
  <2>2. Out(0) = 0
    BY DEF Bracketed
  <2>3. Weight(Now) \in Nat /\ Now.ring = ring
    <3>1. Weight(Now) \in Nat
      BY WorkFacts
    <3>2. Now.ring = ring
      BY DEF Now
    <3> QED
      BY <3>1, <3>2
  <2> HIDE DEF Out, ToLinks
  <2> QED
    BY <2>1, <2>2, <2>3
<1>5. ASSUME NEW n \in 1 .. Len(e), h[n - 1] \in Fine PROVE h[n] \in Fine
  <2>1. n \in Nat /\ n - 1 \in Nat /\ n - 1 \in 0 .. Len(e) /\ n \in 0 .. Len(e)
    BY <1>1
  <2>2. h[n - 1] = <<n - 1, run[n - 1]>> /\ h[n] = <<n, run[n]>>
    BY <2>1
  <2>3. PICK b \in S : b = run[n - 1]
    BY <2>1
  <2>4. PICK c \in S : c = run[n]
    BY <2>1
  <2>5. c = Emit(b, e[n])
    BY <1>3, <2>3, <2>4
  <2> HIDE DEF h
  <2>6. /\ Weight(b) + (IF b.ok THEN Out(n - 1) ELSE 0) = Weight(Now)
        /\ ToLinks(n - 1) => b.ring = ring
    <3> HIDE DEF Out, ToLinks
    <3> QED
      BY <1>5, <2>1, <2>2, <2>3
  <2>7. ToLinks(n) => ToLinks(n - 1) /\ e[n].to = "link"
    BY <2>1
  <2>8. Weight(c) + (IF c.ok THEN Out(n) ELSE 0) = Weight(Now)
    <3> HIDE DEF Out
    <3>1. CASE b.ok
      BY <1>2, <2>5, <2>6, <3>1
    <3>2. CASE ~b.ok
      BY <1>2, <2>5, <2>6, <3>2
    <3> QED
      BY <3>1, <3>2
  <2>9. ToLinks(n) => c.ring = ring
    <3> HIDE DEF ToLinks
    <3>1. CASE b.ok
      BY <1>2, <2>5, <2>6, <2>7, <3>1
    <3>2. CASE ~b.ok
      BY <1>2, <2>5, <2>6, <2>7, <3>2
    <3> QED
      BY <3>1, <3>2
  <2> HIDE DEF Out, ToLinks
  <2> QED
    BY <2>1, <2>2, <2>4, <2>8, <2>9
<1>6. \A n \in 0 .. Len(e) : h[n] \in Fine
  <2> HIDE DEF h, Fine
  <2> QED
    BY <1>1, <1>4, <1>5, RunInduction
<1>7. PICK b \in S : b = Run(e) /\ h[Len(e)] = <<Len(e), b>>
  BY <1>1, <1>3
<1>8. /\ Weight(b) + (IF b.ok THEN Out(Len(e)) ELSE 0) = Weight(Now)
      /\ ToLinks(Len(e)) => b.ring = ring
  <2>1. <<Len(e), b>> \in Fine
    BY <1>1, <1>6, <1>7
  <2> HIDE DEF Out, ToLinks
  <2> QED
    BY <2>1
<1>9. Out(Len(e)) = 0
  BY <1>1 DEF Bracketed
<1>10. Weight(b) \in Nat /\ b \in Work(F, M)
  BY WorkFacts DEF S
<1>11. Weight(b) = Weight(Now)
  <2> HIDE DEF Out
  <2> QED
    BY <1>8, <1>9, <1>10
<1> QED
  BY <1>7, <1>8, <1>10, <1>11

-----------------------------------------------------------------------------
(* What the programs emit.                                                 *)

ToLink(r, x) == x.to = "link" /\ x.at \in DOMAIN r.link

LinksOnly(r, e) == \E X : e \in Seq(X) /\ \A x \in X : IsFrame(x.fr) /\ ToLink(r, x)
PlainOnly(r, e) == \E X : e \in Seq(X) /\ \A x \in X : IsFrame(x.fr) /\ Plain(r, x)
Emits(r, e) == \E X, a, z : e \in Seq(X) /\ Bracketed(r, e, a, z)

LEMMA LinksArePlain == ASSUME NEW r, NEW e, LinksOnly(r, e) PROVE PlainOnly(r, e)
BY DEF LinksOnly, PlainOnly, Plain, ToLink

LEMMA PlainIsEmitted == ASSUME NEW r, NEW e, PlainOnly(r, e) PROVE Emits(r, e)
<1>1. PICK X : e \in Seq(X) /\ \A x \in X : IsFrame(x.fr) /\ Plain(r, x)
  BY DEF PlainOnly
<1>2. \A n \in 1 .. Len(e) : IsFrame(e[n].fr) /\ Plain(r, e[n])
  BY <1>1
<1>3. Bracketed(r, e, 0, 0)
  BY <1>2 DEF Bracketed
<1> QED
  BY <1>1, <1>3 DEF Emits

LEMMA Nothing == ASSUME NEW r PROVE LinksOnly(r, <<>>) /\ PlainOnly(r, <<>>)
<1>1. PICK X : X = {}
  OBVIOUS
<1>2. <<>> \in Seq(X) /\ \A x \in X : IsFrame(x.fr) /\ ToLink(r, x) /\ Plain(r, x)
  BY <1>1
<1> QED
  BY <1>2 DEF LinksOnly, PlainOnly

LEMMA OnePlain ==
  ASSUME NEW r, NEW to, NEW at, NEW f, IsFrame(f), Plain(r, [to |-> to, at |-> at, fr |-> f])
  PROVE  PlainOnly(r, Emission(to, at, f))
<1> DEFINE x == [to |-> to, at |-> at, fr |-> f]
<1>1. x.fr = f
  OBVIOUS
<1>2. <<x>> \in Seq({x})
  OBVIOUS
<1> HIDE DEF x
<1>3. Emission(to, at, f) = <<x>>
  BY DEF Emission, x
<1>4. Plain(r, x)
  BY DEF x
<1>5. PICK X : X = {x}
  OBVIOUS
<1>6. <<x>> \in Seq(X) /\ \A u \in X : IsFrame(u.fr) /\ Plain(r, u)
  BY <1>1, <1>2, <1>4, <1>5
<1> QED
  BY <1>3, <1>6 DEF PlainOnly

LEMMA OneLink ==
  ASSUME NEW r, NEW l \in DOMAIN r.link, NEW f, IsFrame(f)
  PROVE  LinksOnly(r, Emission("link", l, f))
<1> DEFINE x == [to |-> "link", at |-> l, fr |-> f]
<1>1. x.fr = f /\ ToLink(r, x)
  BY DEF ToLink
<1>2. <<x>> \in Seq({x})
  OBVIOUS
<1> HIDE DEF x
<1>3. Emission("link", l, f) = <<x>>
  BY DEF Emission, x
<1>4. PICK X : X = {x}
  OBVIOUS
<1>5. <<x>> \in Seq(X) /\ \A u \in X : IsFrame(u.fr) /\ ToLink(r, u)
  BY <1>1, <1>2, <1>4
<1> QED
  BY <1>3, <1>5 DEF LinksOnly

LEMMA PlainConcat ==
  ASSUME NEW r, NEW d, NEW e, PlainOnly(r, d), PlainOnly(r, e)
  PROVE  PlainOnly(r, d \o e)
<1>1. PICK X : d \in Seq(X) /\ \A x \in X : IsFrame(x.fr) /\ Plain(r, x)
  BY DEF PlainOnly
<1>2. PICK Y : e \in Seq(Y) /\ \A x \in Y : IsFrame(x.fr) /\ Plain(r, x)
  BY DEF PlainOnly
<1>3. d \in Seq(X \cup Y) /\ e \in Seq(X \cup Y)
  BY <1>1, <1>2
<1>4. d \o e \in Seq(X \cup Y)
  BY <1>3
<1>5. \A x \in X \cup Y : IsFrame(x.fr) /\ Plain(r, x)
  BY <1>1, <1>2
<1> QED
  BY <1>4, <1>5 DEF PlainOnly

LEMMA EmitsAfter ==
  ASSUME NEW r, NEW d, NEW e, PlainOnly(r, d), Emits(r, e)
  PROVE  Emits(r, d \o e)
<1>1. PICK X : d \in Seq(X) /\ \A x \in X : IsFrame(x.fr) /\ Plain(r, x)
  BY DEF PlainOnly
<1>2. PICK Y, a, z : e \in Seq(Y) /\ Bracketed(r, e, a, z)
  BY DEF Emits
<1>3. d \in Seq(X \cup Y) /\ e \in Seq(X \cup Y)
  BY <1>1, <1>2
<1>4. /\ d \o e \in Seq(X \cup Y) /\ Len(d \o e) = Len(d) + Len(e)
      /\ Len(d) \in Nat /\ Len(e) \in Nat
      /\ \A n \in 1 .. Len(d) : (d \o e)[n] = d[n]
      /\ \A n \in 1 .. Len(e) : (d \o e)[Len(d) + n] = e[n]
  BY <1>3
<1>5. a \in Nat /\ z \in Nat /\ (a < z => 1 <= a /\ z <= Len(e))
  BY <1>2 DEF Bracketed
<1>6. PICK k \in Nat : k = Len(d)
  BY <1>4
<1>7. PICK b, y : IF a < z THEN b = a + k /\ y = z + k ELSE b = 0 /\ y = 0
  BY <1>5
<1>8. /\ b \in Nat /\ y \in Nat /\ (b < y <=> a < z)
      /\ b < y => 1 <= b /\ y <= Len(d \o e) /\ b = a + k /\ y = z + k
      /\ b >= y => b = 0 /\ y = 0
  BY <1>4, <1>5, <1>6, <1>7
<1>9. ASSUME NEW n \in 1 .. Len(d \o e)
      PROVE  /\ IsFrame((d \o e)[n].fr)
             /\ IF b < y /\ n = b THEN (d \o e)[n].to = "alloc"
                ELSE IF b < y /\ n = y THEN (d \o e)[n].to = "free"
                ELSE Plain(r, (d \o e)[n]) \/ ((d \o e)[n].to = "null" /\ ~(b < n /\ n < y))
  <2>1. CASE n <= k
    <3>1. n \in 1 .. Len(d) /\ (d \o e)[n] = d[n] /\ d[n] \in X
      BY <1>1, <1>4, <1>6, <2>1
    <3>2. IsFrame(d[n].fr) /\ Plain(r, d[n])
      BY <1>1, <3>1
    <3>3. ~(b < y /\ n = b) /\ ~(b < y /\ n = y)
      BY <1>5, <1>6, <1>8, <2>1
    <3> QED
      BY <3>1, <3>2, <3>3
  <2>2. CASE ~(n <= k)
    <3>1. PICK m \in 1 .. Len(e) : n = k + m
      <4>1. n - k \in 1 .. Len(e) /\ n = k + (n - k)
        BY <1>4, <1>6, <2>2
      <4> QED
        BY <4>1
    <3>2. (d \o e)[n] = e[m] /\ m \in Nat
      BY <1>4, <1>6, <3>1
    <3>3. /\ IsFrame(e[m].fr)
          /\ IF a < z /\ m = a THEN e[m].to = "alloc"
             ELSE IF a < z /\ m = z THEN e[m].to = "free"
             ELSE Plain(r, e[m]) \/ (e[m].to = "null" /\ ~(a < m /\ m < z))
      BY <1>2 DEF Bracketed
    <3>4. /\ (b < y /\ n = b) <=> (a < z /\ m = a)
          /\ (b < y /\ n = y) <=> (a < z /\ m = z)
          /\ (b < n /\ n < y) => (a < m /\ m < z)
      BY <1>5, <1>6, <1>8, <3>1, <3>2
    <3> QED
      BY <3>2, <3>3, <3>4
  <2> QED
    BY <2>1, <2>2
<1>10. Bracketed(r, d \o e, b, y)
  BY <1>8, <1>9 DEF Bracketed
<1> QED
  BY <1>4, <1>10 DEF Emits

\* A NULL pointer is followed.
LEMMA NullIsEmitted ==
  ASSUME NEW r, NEW f, IsFrame(f)
  PROVE  Emits(r, Emission("null", 0, f))
<1> DEFINE x == [to |-> "null", at |-> 0, fr |-> f]
<1>1. x.fr = f /\ x.to = "null" /\ <<x>> \in Seq({x}) /\ Len(<<x>>) = 1 /\ <<x>>[1] = x
  OBVIOUS
<1> HIDE DEF x
<1>2. Bracketed(r, <<x>>, 0, 0)
  BY <1>1 DEF Bracketed
<1>3. Emission("null", 0, f) = <<x>>
  BY DEF Emission, x
<1> QED
  BY <1>1, <1>2, <1>3 DEF Emits

\* A buffer is allocated, something plain is done, and it is freed.
LEMMA AllocAndFree ==
  ASSUME NEW r, NEW f, IsFrame(f), NEW e, PlainOnly(r, e)
  PROVE  Emits(r, Emission("alloc", 0, f) \o e \o Emission("free", 0, f))
<1> DEFINE x == [to |-> "alloc", at |-> 0, fr |-> f]
           y == [to |-> "free", at |-> 0, fr |-> f]
<1>1. x.fr = f /\ x.to = "alloc" /\ y.fr = f /\ y.to = "free"
  OBVIOUS
<1> HIDE DEF x, y
<1>2. Emission("alloc", 0, f) = <<x>> /\ Emission("free", 0, f) = <<y>>
  BY DEF Emission, x, y
<1>3. PICK X : e \in Seq(X) /\ \A u \in X : IsFrame(u.fr) /\ Plain(r, u)
  BY DEF PlainOnly
<1>4. PICK Y : Y = X \cup {x, y}
  OBVIOUS
<1>5. e \in Seq(Y) /\ <<x>> \in Seq(Y) /\ <<y>> \in Seq(Y) /\ Len(e) \in Nat
      /\ Len(<<x>>) = 1 /\ Len(<<y>>) = 1 /\ <<x>>[1] = x /\ <<y>>[1] = y
  BY <1>3, <1>4
<1>6. PICK d \in Seq(Y) : d = <<x>> \o e
  <2>1. <<x>> \o e \in Seq(Y)
    BY <1>5, ConcatProperties
  <2> QED
    BY <2>1
<1>7. Len(d) = Len(e) + 1 /\ d[1] = x /\ \A n \in 2 .. Len(e) + 1 : d[n] = e[n - 1]
  BY <1>5, <1>6
<1>8. PICK g \in Seq(Y) : g = d \o <<y>>
  <2>1. d \o <<y>> \in Seq(Y)
    BY <1>5, ConcatProperties
  <2> QED
    BY <2>1
<1>9. Len(g) = Len(e) + 2 /\ g[Len(e) + 2] = y /\ \A n \in 1 .. Len(e) + 1 : g[n] = d[n]
  BY <1>5, <1>7, <1>8
<1>10. ASSUME NEW n \in 1 .. Len(g)
       PROVE  /\ IsFrame(g[n].fr)
              /\ IF n = 1 THEN g[n].to = "alloc"
                 ELSE IF n = Len(g) THEN g[n].to = "free" ELSE Plain(r, g[n])
  <2>1. CASE n = 1
    BY <1>1, <1>5, <1>7, <1>9, <2>1
  <2>2. CASE n = Len(g)
    BY <1>1, <1>5, <1>9, <2>2
  <2>3. CASE n # 1 /\ n # Len(g)
    <3>1. n \in 2 .. Len(e) + 1 /\ n \in 1 .. Len(e) + 1 /\ n - 1 \in 1 .. Len(e)
      BY <1>5, <1>9, <2>3
    <3>2. g[n] = e[n - 1] /\ e[n - 1] \in X
      BY <1>3, <1>7, <1>9, <3>1
    <3> QED
      BY <1>3, <2>3, <3>2
  <2> QED
    BY <2>1, <2>2, <2>3
<1>11. Bracketed(r, g, 1, Len(g))
  BY <1>5, <1>9, <1>10 DEF Bracketed
<1>12. Emits(r, g)
  BY <1>11 DEF Emits
<1> QED
  BY <1>2, <1>6, <1>8, <1>12

-----------------------------------------------------------------------------
(* What the lookups return.                                                *)

LEMMA MinFacts == ASSUME NEW S \in SUBSET Nat, S # {} PROVE Min(S) \in S
<1>1. \E x \in S : \A y \in S : x <= y
  BY LeastNat
<1> QED
  BY <1>1 DEF Min

LEMMA FirstInFacts ==
  ASSUME NEW S \in SUBSET (Nat \ {0})
  PROVE  FirstIn(S) \in S \cup {0}
<1>1. S \in SUBSET Nat
  OBVIOUS
<1>2. S # {} => Min(S) \in S
  BY <1>1, MinFacts
<1> QED
  BY <1>2 DEF FirstIn

LEMMA RibSlots ==
  ASSUME NEW r, IsRib(r)
  PROVE  DOMAIN r.vs = Slot /\ Slot \in SUBSET (Nat \ {0}) /\ Slot = 1 .. Len(r.vs)
<1>1. r.vs \in Seq(ToSet(r.vs)) /\ Len(r.vs) = Cardinality(Slot) /\ Slot = 1 .. Cardinality(Slot)
  BY PlaceAssumption DEF IsRib
<1>2. DOMAIN r.vs = 1 .. Len(r.vs) /\ Len(r.vs) \in Nat
  BY <1>1, LenProperties
<1> QED
  BY <1>1, <1>2

LEMMA VswitchFacts ==
  ASSUME NEW r, IsRib(r), NEW l \in DOMAIN r.link \cup {0}
  PROVE  WorkerVswitch(r, l) \in Slot \cup {0}
<1>1. PICK S : S = {s \in DOMAIN r.vs : r.vs[s].id = r.link[l].vs}
  OBVIOUS
<1>2. S \in SUBSET (Nat \ {0}) /\ S \in SUBSET Slot
  BY <1>1, RibSlots
<1>3. FirstIn(S) \in Slot \cup {0}
  BY <1>2, FirstInFacts
<1> QED
  BY <1>1, <1>3 DEF WorkerVswitch

LEMMA RxLinkFacts ==
  ASSUME NEW r, IsRib(r), NEW p \in Port, NEW tag
  PROVE  RxLink(r, p, tag) \in DOMAIN r.link \cup {0}
<1>1. RxUntagged(r, p) \in DOMAIN r.link \cup {0}
  BY DEF RxUntagged
<1>2. RxTagged(r, p, tag) \in DOMAIN r.link \cup {0}
  <2>1. PICK hit : hit = {i \in DOMAIN r.port[p].vlans : r.link[r.port[p].vlans[i]].tag = tag}
    OBVIOUS
  <2>2. r.port[p].vlans \in Seq(DOMAIN r.link)
    BY DEF IsRib
  <2>3. hit \in SUBSET Nat /\ hit \in SUBSET (DOMAIN r.port[p].vlans)
    BY <2>1, <2>2
  <2>4. hit # {} => r.port[p].vlans[Min(hit)] \in DOMAIN r.link
    <3>1. hit # {} => Min(hit) \in DOMAIN r.port[p].vlans
      BY <2>3, MinFacts
    <3> QED
      BY <2>2, <3>1
  <2> QED
    BY <2>1, <2>4 DEF RxTagged
<1> QED
  BY <1>1, <1>2 DEF RxLink

LEMMA LinkOnFacts ==
  ASSUME NEW r, IsRib(r), NEW s \in Slot, NEW ports
  PROVE  LinkOn(r, s, ports) \in DOMAIN r.link \cup {0}
<1>1. PICK L : L = r.vs[s].links
  OBVIOUS
<1>2. PICK hit : hit = {i \in DOMAIN L : r.link[L[i]].port \in ports}
  OBVIOUS
<1>3. L \in Seq(DOMAIN r.link)
  BY <1>1 DEF IsRib
<1>4. hit \in SUBSET Nat /\ hit \in SUBSET (DOMAIN L)
  BY <1>2, <1>3
<1>5. hit # {} => L[Min(hit)] \in DOMAIN r.link
  <2>1. hit # {} => Min(hit) \in DOMAIN L
    BY <1>4, MinFacts
  <2> QED
    BY <1>3, <2>1
<1> QED
  BY <1>1, <1>2, <1>5 DEF LinkOn

-----------------------------------------------------------------------------
(* The emissions of the helpers.                                           *)

LEMMA RangeFacts ==
  ASSUME NEW e, NEW X, e \in Seq(X)
  PROVE  e \in Seq(ToSet(e)) /\ ToSet(e) \subseteq X
<1>1. Len(e) \in Nat /\ e \in [1 .. Len(e) -> X]
  OBVIOUS
<1>2. ToSet(e) = {e[i] : i \in 1 .. Len(e)}
  BY <1>1 DEF ToSet
<1>3. e \in [1 .. Len(e) -> ToSet(e)]
  BY <1>1, <1>2
<1> QED
  BY <1>1, <1>2, <1>3, SeqDef

LEMMA FlattenOnly ==
  ASSUME NEW r, NEW n \in Nat, NEW d, d = [i \in 1 .. n |-> d[i]]
  PROVE  /\ (\A i \in 1 .. n : LinksOnly(r, d[i])) => LinksOnly(r, FlattenSeq(d))
         /\ (\A i \in 1 .. n : PlainOnly(r, d[i])) => PlainOnly(r, FlattenSeq(d))
<1>1. PICK X : X = UNION {ToSet(d[i]) : i \in 1 .. n}
  OBVIOUS
<1>2. ASSUME \A i \in 1 .. n : d[i] \in Seq(ToSet(d[i]))
      PROVE  FlattenSeq(d) \in Seq(X)
  <2>1. \A i \in 1 .. n : d[i] \in Seq(X)
    <3> SUFFICES ASSUME NEW i \in 1 .. n PROVE d[i] \in Seq(X)
      OBVIOUS
    <3>1. ToSet(d[i]) \subseteq X /\ d[i] \in Seq(ToSet(d[i]))
      BY <1>1, <1>2
    <3> QED
      BY <3>1
  <2>2. d \in [1 .. n -> Seq(X)]
    BY <2>1
  <2> QED
    BY <2>2, FlattenSeqType
<1>3. ASSUME \A i \in 1 .. n : LinksOnly(r, d[i])
      PROVE  LinksOnly(r, FlattenSeq(d))
  <2>1. ASSUME NEW i \in 1 .. n
        PROVE  d[i] \in Seq(ToSet(d[i])) /\ \A x \in ToSet(d[i]) : IsFrame(x.fr) /\ ToLink(r, x)
    <3>1. PICK Y : d[i] \in Seq(Y) /\ \A x \in Y : IsFrame(x.fr) /\ ToLink(r, x)
      BY <1>3 DEF LinksOnly
    <3> QED
      BY <3>1, RangeFacts
  <2>2. FlattenSeq(d) \in Seq(X)
    BY <1>2, <2>1
  <2>3. \A x \in X : IsFrame(x.fr) /\ ToLink(r, x)
    BY <1>1, <2>1
  <2> QED
    BY <2>2, <2>3 DEF LinksOnly
<1>4. ASSUME \A i \in 1 .. n : PlainOnly(r, d[i])
      PROVE  PlainOnly(r, FlattenSeq(d))
  <2>1. ASSUME NEW i \in 1 .. n
        PROVE  d[i] \in Seq(ToSet(d[i])) /\ \A x \in ToSet(d[i]) : IsFrame(x.fr) /\ Plain(r, x)
    <3>1. PICK Y : d[i] \in Seq(Y) /\ \A x \in Y : IsFrame(x.fr) /\ Plain(r, x)
      BY <1>4 DEF PlainOnly
    <3> QED
      BY <3>1, RangeFacts
  <2>2. FlattenSeq(d) \in Seq(X)
    BY <1>2, <2>1
  <2>3. \A x \in X : IsFrame(x.fr) /\ Plain(r, x)
    BY <1>1, <2>1
  <2> QED
    BY <2>2, <2>3 DEF PlainOnly
<1> QED
  BY <1>3, <1>4

LEMMA SendLinkOnly ==
  ASSUME NEW r, NEW from, NEW l \in DOMAIN r.link, NEW f, IsFrame(f)
  PROVE  LinksOnly(r, SendLink(r, from, l, f))
<1>1. PICK g : g = [f EXCEPT !.tag = r.link[l].tag]
  OBVIOUS
<1>2. IsFrame(g)
  BY <1>1 DEF IsFrame
<1>3. LinksOnly(r, Emission("link", l, g)) /\ LinksOnly(r, <<>>)
  BY <1>2, OneLink, Nothing
<1> QED
  BY <1>1, <1>3 DEF SendLink

LEMMA UpRings ==
  /\ \A s \in Slot : <<"up", s>> \in UpRing /\ <<"cap", s>> \in UpRing
  /\ \A p \in Port : <<"tapup", p>> \in UpRing
  /\ <<"app", 0>> \in UpRing
BY DEF UpRing, DownRing, Rings

LEMMA RingOnly ==
  ASSUME NEW r, NEW to \in {"router_if", "ring", "raw"}, NEW i \in UpRing, NEW f, IsFrame(f)
  PROVE  PlainOnly(r, Emission(to, i, f))
<1>1. Plain(r, [to |-> to, at |-> i, fr |-> f])
  BY DEF Plain
<1> QED
  BY <1>1, OnePlain

LEMMA RouterIfOnly ==
  ASSUME NEW r, NEW s \in Slot, NEW f, IsFrame(f)
  PROVE  PlainOnly(r, RouterIf(r, s, f))
<1>1. PICK g : g = [f EXCEPT !.tag = r.vs[s].rif.vlan]
  OBVIOUS
<1>2. IsFrame(g)
  BY <1>1 DEF IsFrame
<1>3. PlainOnly(r, Emission("router_if", <<"up", s>>, g)) /\ PlainOnly(r, <<>>)
  <2>1. <<"up", s>> \in UpRing
    BY UpRings
  <2> QED
    BY <1>2, <2>1, RingOnly, Nothing
<1> QED
  BY <1>1, <1>3 DEF RouterIf

LEMMA CaptureOnly ==
  ASSUME NEW r, NEW s \in Slot, NEW f, IsFrame(f)
  PROVE  PlainOnly(r, Capture(r, s, f))
<1>1. <<"cap", s>> \in UpRing
  BY UpRings
<1>2. PlainOnly(r, Emission("ring", <<"cap", s>>, f)) /\ PlainOnly(r, <<>>)
  BY <1>1, RingOnly, Nothing
<1> QED
  BY <1>2 DEF Capture

LEMMA RawRingOnly ==
  ASSUME NEW r, NEW open, NEW i \in UpRing, NEW f, IsFrame(f)
  PROVE  PlainOnly(r, RawRing(open, i, f))
<1>1. PlainOnly(r, Emission("raw", i, f)) /\ PlainOnly(r, <<>>)
  BY RingOnly, Nothing
<1> QED
  BY <1>1 DEF RawRing

LEMMA ReportOnly ==
  ASSUME NEW r, NEW rif, NEW f, IsFrame(f)
  PROVE  PlainOnly(r, Report(rif, f))
<1>1. PICK n : n = IF f.kind = "na" THEN 6 ELSE 4
  OBVIOUS
<1>2. Plain(r, [to |-> "neigh", at |-> n, fr |-> f])
  BY DEF Plain
<1>3. PlainOnly(r, Emission("neigh", n, f)) /\ PlainOnly(r, <<>>)
  BY <1>2, OnePlain, Nothing
<1> QED
  BY <1>1, <1>3 DEF Report

\* The links of a vswitch, or some of them, one after the other.
LEMMA EachLink ==
  ASSUME NEW r, NEW L \in Seq(DOMAIN r.link), NEW d, d = [i \in DOMAIN L |-> d[i]],
         \A i \in DOMAIN L : LinksOnly(r, d[i])
  PROVE  LinksOnly(r, FlattenSeq(d))
<1>1. PICK n \in Nat : DOMAIN L = 1 .. n
  BY LenProperties
<1> QED
  BY <1>1, FlattenOnly

LEMMA FloodedLinks ==
  ASSUME NEW r, IsRib(r), NEW p, NEW from, NEW s \in Slot, NEW f, IsFrame(f)
  PROVE  /\ p = SelfPort => LinksOnly(r, Flooding(r, p, from, s, f))
         /\ PlainOnly(r, Flooding(r, p, from, s, f))
<1>1. PICK L : L = r.vs[s].links
  OBVIOUS
<1>2. PICK d : d = [i \in DOMAIN L |-> IF r.link[L[i]].port \in r.stopped THEN <<>>
                                       ELSE SendLink(r, from, L[i], f)]
  OBVIOUS
<1>3. L \in Seq(DOMAIN r.link)
  BY <1>1 DEF IsRib
<1>4. \A i \in DOMAIN L : LinksOnly(r, d[i])
  <2> SUFFICES ASSUME NEW i \in DOMAIN L PROVE LinksOnly(r, d[i])
    OBVIOUS
  <2>1. L[i] \in DOMAIN r.link
    BY <1>3
  <2>2. LinksOnly(r, SendLink(r, from, L[i], f)) /\ LinksOnly(r, <<>>)
    BY <2>1, SendLinkOnly, Nothing
  <2> QED
    BY <1>2, <2>2
<1>5. d = [i \in DOMAIN L |-> d[i]]
  BY <1>2
<1>6. LinksOnly(r, FlattenSeq(d))
  BY <1>3, <1>4, <1>5, EachLink
<1>7. Flooding(r, p, from, s, f) = FlattenSeq(d) \o (IF p = SelfPort THEN <<>> ELSE RouterIf(r, s, f))
  BY <1>1, <1>2 DEF Flooding
<1>8. PlainOnly(r, FlattenSeq(d)) /\ PlainOnly(r, RouterIf(r, s, f)) /\ PlainOnly(r, <<>>)
  BY <1>6, LinksArePlain, RouterIfOnly, Nothing
<1>9. PlainOnly(r, Flooding(r, p, from, s, f))
  BY <1>7, <1>8, PlainConcat
<1>10. FlattenSeq(d) \o <<>> = FlattenSeq(d)
  BY <1>6, ConcatEmptySeq DEF LinksOnly
<1> QED
  BY <1>6, <1>7, <1>9, <1>10

LEMMA SwitchedLinks ==
  ASSUME NEW r, IsRib(r), NEW p, NEW from, NEW s \in Slot, NEW f, IsFrame(f)
  PROVE  /\ p = SelfPort => LinksOnly(r, Switching(r, p, from, s, f))
         /\ PlainOnly(r, Switching(r, p, from, s, f))
<1>1. PICK l : l = LinkOn(r, s, FdbPort(r, f.dst, r.vs[s].vlan))
  OBVIOUS
<1>2. l \in DOMAIN r.link \cup {0}
  BY <1>1, LinkOnFacts
<1>3. /\ p = SelfPort => LinksOnly(r, Flooding(r, p, from, s, f))
      /\ PlainOnly(r, Flooding(r, p, from, s, f))
  BY FloodedLinks
<1>4. LinksOnly(r, <<>>) /\ PlainOnly(r, <<>>)
  BY Nothing
<1>5. l # 0 => LinksOnly(r, SendLink(r, from, l, f)) /\ PlainOnly(r, SendLink(r, from, l, f))
  BY <1>2, SendLinkOnly, LinksArePlain
<1>6. Switching(r, p, from, s, f) =
        IF r.vs[s].deleted THEN <<>>
        ELSE IF f.dst = Broadcast \/ l = 0 THEN Flooding(r, p, from, s, f)
        ELSE SendLink(r, from, l, f)
  BY <1>1 DEF Switching
<1> QED
  BY <1>3, <1>4, <1>5, <1>6

LEMMA OthersOnly ==
  ASSUME NEW r, IsRib(r), NEW s \in Slot, NEW from, NEW skip, NEW f, IsFrame(f)
  PROVE  PlainOnly(r, SendOthers(r, s, from, skip, f))
<1>1. PICK L : L = r.vs[s].links
  OBVIOUS
<1>2. PICK d : d = [i \in DOMAIN L |->
                     IF L[i] = from \/ r.link[L[i]].port \in skip THEN <<>>
                     ELSE SendLink(r, 0, L[i], f)]
  OBVIOUS
<1>3. L \in Seq(DOMAIN r.link)
  BY <1>1 DEF IsRib
<1>4. \A i \in DOMAIN L : LinksOnly(r, d[i])
  <2> SUFFICES ASSUME NEW i \in DOMAIN L PROVE LinksOnly(r, d[i])
    OBVIOUS
  <2>1. L[i] \in DOMAIN r.link
    BY <1>3
  <2>2. LinksOnly(r, SendLink(r, 0, L[i], f)) /\ LinksOnly(r, <<>>)
    BY <2>1, SendLinkOnly, Nothing
  <2> QED
    BY <1>2, <2>2
<1>5. d = [i \in DOMAIN L |-> d[i]]
  BY <1>2
<1>6. LinksOnly(r, FlattenSeq(d))
  BY <1>3, <1>4, <1>5, EachLink
<1>7. SendOthers(r, s, from, skip, f) = FlattenSeq(d)
  BY <1>1, <1>2 DEF SendOthers
<1> QED
  BY <1>6, <1>7, LinksArePlain

LEMMA RepeaterTxOnly ==
  ASSUME NEW r, IsRib(r), NEW s \in Slot, NEW f, IsFrame(f)
  PROVE  LinksOnly(r, RepeaterTx(r, s, f))
<1>1. PICK L : L = r.vs[s].links
  OBVIOUS
<1>2. PICK d : d = [i \in DOMAIN L |->
                     IF r.link[L[i]].vs = r.vs[s].id THEN SendLink(r, 0, L[i], f) ELSE <<>>]
  OBVIOUS
<1>3. L \in Seq(DOMAIN r.link)
  BY <1>1 DEF IsRib
<1>4. \A i \in DOMAIN L : LinksOnly(r, d[i])
  <2> SUFFICES ASSUME NEW i \in DOMAIN L PROVE LinksOnly(r, d[i])
    OBVIOUS
  <2>1. L[i] \in DOMAIN r.link
    BY <1>3
  <2>2. LinksOnly(r, SendLink(r, 0, L[i], f)) /\ LinksOnly(r, <<>>)
    BY <2>1, SendLinkOnly, Nothing
  <2> QED
    BY <1>2, <2>2
<1>5. d = [i \in DOMAIN L |-> d[i]]
  BY <1>2
<1>6. LinksOnly(r, FlattenSeq(d))
  BY <1>3, <1>4, <1>5, EachLink
<1>7. RepeaterTx(r, s, f) = FlattenSeq(d)
  BY <1>1, <1>2 DEF RepeaterTx
<1> QED
  BY <1>6, <1>7

-----------------------------------------------------------------------------
(* The emissions of the programs.                                          *)

LEMMA SolicitEmits ==
  ASSUME NEW r, IsRib(r), NEW oif, NEW family, NEW ip
  PROVE  Emits(r, Solicit(r, oif, family, ip))
<1>1. PICK s : s = FirstIn({x \in DOMAIN r.vs : r.vs[x].rif.ifindex = oif})
  OBVIOUS
<1>2. s \in Slot \cup {0}
  <2>1. PICK S : S = {x \in DOMAIN r.vs : r.vs[x].rif.ifindex = oif}
    OBVIOUS
  <2>2. S \in SUBSET (Nat \ {0}) /\ S \in SUBSET Slot
    BY <2>1, RibSlots
  <2>3. FirstIn(S) \in S \cup {0}
    BY <2>2, FirstInFacts
  <2> QED
    BY <1>1, <2>1, <2>2, <2>3
<1>3. PICK request :
        request = [src |-> r.vs[s].rif.mac, dst |-> Broadcast, tag |-> 0,
                   kind |-> IF family = 4 THEN "arp_request" ELSE "ns",
                   ip |-> ip, ttl |-> 2, segs |-> <<>>, port |-> SelfPort,
                   vs |-> r.vs[s].id]
  OBVIOUS
<1>4. IsFrame(request)
  BY <1>3 DEF IsFrame
<1>5. Solicit(r, oif, family, ip) =
        IF s = 0 THEN <<>>
        ELSE Emission("alloc", 0, request) \o Flooding(r, SelfPort, 0, s, request)
             \o Emission("free", 0, request)
  BY <1>1, <1>3, Zenon DEF Solicit
<1>6. CASE s = 0
  BY <1>5, <1>6, Nothing, PlainIsEmitted
<1>7. CASE s # 0
  <2>1. PlainOnly(r, Flooding(r, SelfPort, 0, s, request))
    BY <1>2, <1>4, <1>7, FloodedLinks
  <2> QED
    BY <1>4, <1>5, <1>7, <2>1, AllocAndFree
<1> QED
  BY <1>6, <1>7

LEMMA ForwardEmits ==
  ASSUME NEW r, IsRib(r), NEW from, NEW s, NEW f, IsFrame(f)
  PROVE  Emits(r, Forward(r, from, s, f))
<1>1. PICK family : family = IF f.kind \in IPv4 THEN 4 ELSE 6
  OBVIOUS
<1>2. PICK dst : dst = IF f.kind \in IPv4 \cup IPv6 THEN f.ip ELSE Unspecified
  OBVIOUS
<1>3. PICK nh : nh = r.route[<<family, dst>>]
  OBVIOUS
<1>4. PICK ip : ip = IF nh.connected THEN dst ELSE nh.gw
  OBVIOUS
<1>5. PICK mac : mac = r.neigh[<<family, ip>>]
  OBVIOUS
<1>6. PICK t : t = FirstIn({x \in DOMAIN r.vs : ~r.vs[x].deleted /\ r.vs[x].rif.ifindex = nh.oif})
  OBVIOUS
<1>7. PICK l : l = LinkOn(r, t, FdbPort(r, mac, r.vs[t].vlan))
  OBVIOUS
<1>8. PICK g : g = Rewritten(f, r.vs[t].rif, mac)
  OBVIOUS
<1>9. Forward(r, from, s, f) =
        IF <<family, dst>> \notin DOMAIN r.route THEN <<>>
        ELSE IF <<family, ip>> \notin DOMAIN r.neigh THEN Solicit(r, nh.oif, family, ip)
        ELSE IF t = 0 THEN <<>>
        ELSE IF l = 0 THEN <<>>
        ELSE IF r.link[l].port \in r.stopped THEN <<>>
        ELSE SendLink(r, from, l, g)
  BY <1>1, <1>2, <1>3, <1>4, <1>5, <1>6, <1>7, <1>8, ZenonT(60) DEF Forward
<1>10. t \in Slot \cup {0}
  <2>1. PICK S : S = {x \in DOMAIN r.vs : ~r.vs[x].deleted /\ r.vs[x].rif.ifindex = nh.oif}
    OBVIOUS
  <2>2. S \in SUBSET (Nat \ {0}) /\ S \in SUBSET Slot
    BY <2>1, RibSlots
  <2>3. FirstIn(S) \in S \cup {0}
    BY <2>2, FirstInFacts
  <2> QED
    BY <1>6, <2>1, <2>2, <2>3
<1>11. IsFrame(g)
  BY <1>8 DEF Rewritten, IsFrame
<1>12. Emits(r, <<>>) /\ Emits(r, Solicit(r, nh.oif, family, ip))
  BY Nothing, PlainIsEmitted, SolicitEmits
<1>13. t # 0 /\ l # 0 => Emits(r, SendLink(r, from, l, g))
  <2> SUFFICES ASSUME t # 0, l # 0 PROVE Emits(r, SendLink(r, from, l, g))
    OBVIOUS
  <2>1. l \in DOMAIN r.link
    BY <1>7, <1>10, LinkOnFacts
  <2>2. LinksOnly(r, SendLink(r, from, l, g))
    BY <1>11, <2>1, SendLinkOnly
  <2> QED
    BY <2>2, LinksArePlain, PlainIsEmitted
<1> QED
  BY <1>9, <1>12, <1>13

LEMMA Srv6Emits ==
  ASSUME NEW r, IsRib(r), NEW from, NEW s, NEW f, IsFrame(f)
  PROVE  Emits(r, Srv6Forwarding(r, from, s, f))
<1>1. PICK g : g = NextSegment(f)
  OBVIOUS
<1>2. IsFrame(g)
  BY <1>1 DEF NextSegment, IsFrame
<1>3. Emits(r, Forward(r, 0, s, g)) /\ Emits(r, Forward(r, from, s, f))
      /\ Emits(r, Emission("null", 0, f))
  BY <1>2, ForwardEmits, NullIsEmitted
<1> QED
  BY <1>1, <1>3 DEF Srv6Forwarding

LEMMA RouterOfEmits ==
  ASSUME NEW r, IsRib(r), NEW p, NEW from, NEW s \in Slot, NEW f, IsFrame(f), NEW srv6
  PROVE  Emits(r, RouterOf(r, p, from, s, f, srv6))
<1>1. PICK rif : rif = r.vs[s].rif
  OBVIOUS
<1>2. PICK up : up = RouterIf(r, s, f)
  OBVIOUS
<1>3. PICK first : first = IF f.dst = Broadcast THEN up ELSE <<>>
  OBVIOUS
<1>4. PICK report : report = Report(rif, f) \o (IF f.dst = Broadcast /\ ~srv6 THEN <<>> ELSE up)
  OBVIOUS
<1>5. PICK rest : rest =
        IF rif.open /\ IsControl(rif, f) THEN report
        ELSE IF f.dst # rif.mac THEN Switching(r, p, from, s, f)
        ELSE IF f.kind \in IPv4 \cup IPv6 /\ f.ttl <= 1 THEN <<>>
        ELSE IF srv6 THEN Srv6Forwarding(r, from, s, f)
        ELSE Forward(r, from, s, f)
  OBVIOUS
<1>6. RouterOf(r, p, from, s, f, srv6) = IF ForMe(rif, f) THEN up ELSE first \o rest
  BY <1>1, <1>2, <1>3, <1>4, <1>5, Zenon DEF RouterOf
<1>7. PlainOnly(r, up) /\ PlainOnly(r, <<>>)
  BY <1>2, RouterIfOnly, Nothing
<1>8. PlainOnly(r, first)
  BY <1>3, <1>7
<1>9. PlainOnly(r, report)
  <2>1. PlainOnly(r, Report(rif, f))
    BY ReportOnly
  <2> QED
    BY <1>4, <1>7, <2>1, PlainConcat
<1>10. Emits(r, rest)
  <2>1. Emits(r, report) /\ Emits(r, <<>>)
    BY <1>7, <1>9, PlainIsEmitted
  <2>2. Emits(r, Switching(r, p, from, s, f))
    BY SwitchedLinks, PlainIsEmitted
  <2>3. Emits(r, Srv6Forwarding(r, from, s, f)) /\ Emits(r, Forward(r, from, s, f))
    BY Srv6Emits, ForwardEmits
  <2> QED
    BY <1>5, <2>1, <2>2, <2>3
<1>11. Emits(r, first \o rest)
  BY <1>8, <1>10, EmitsAfter
<1> QED
  BY <1>6, <1>7, <1>11, PlainIsEmitted

LEMMA RouterEmits ==
  ASSUME NEW r, IsRib(r), NEW p \in Port, NEW f, IsFrame(f), NEW srv6
  PROVE  Emits(r, RouterRx(r, p, f, srv6))
<1>1. PICK from : from = RxLink(r, p, f.tag)
  OBVIOUS
<1>2. PICK s : s = WorkerVswitch(r, from)
  OBVIOUS
<1>3. from \in DOMAIN r.link \cup {0} /\ s \in Slot \cup {0}
  BY <1>1, <1>2, RxLinkFacts, VswitchFacts
<1>4. RouterRx(r, p, f, srv6) =
        IF s = 0 THEN <<>> ELSE Capture(r, s, f) \o RouterOf(r, p, from, s, f, srv6)
  BY <1>1, <1>2 DEF RouterRx
<1>5. CASE s = 0
  BY <1>4, <1>5, Nothing, PlainIsEmitted
<1>6. CASE s # 0
  <2>1. PlainOnly(r, Capture(r, s, f)) /\ Emits(r, RouterOf(r, p, from, s, f, srv6))
    BY <1>3, <1>6, CaptureOnly, RouterOfEmits
  <2> QED
    BY <1>4, <1>6, <2>1, EmitsAfter
<1> QED
  BY <1>5, <1>6

LEMMA L2SwitchEmits ==
  ASSUME NEW r, IsRib(r), NEW p \in Port, NEW f, IsFrame(f)
  PROVE  Emits(r, L2SwitchRx(r, p, f))
<1>1. PICK from : from = RxLink(r, p, f.tag)
  OBVIOUS
<1>2. PICK s : s = WorkerVswitch(r, from)
  OBVIOUS
<1>3. PICK known : known = FdbPort(r, f.dst, r.link[from].tag)
  OBVIOUS
<1>4. PICK l : l = LinkOn(r, s, known \ (r.stopped \cup {p}))
  OBVIOUS
<1>5. PICK links :
        links = IF f.dst = Broadcast THEN SendOthers(r, s, from, r.stopped \cup {p}, f)
                ELSE IF known = {} THEN SendOthers(r, s, from, {p}, f)
                ELSE IF l = 0 THEN <<>> ELSE SendLink(r, from, l, f)
  OBVIOUS
<1>6. L2SwitchRx(r, p, f) =
        IF from = 0 THEN <<>>
        ELSE IF s = 0 THEN Emission("null", 0, f)
        ELSE links \o RawRing(r.vs[s].rif.open, <<"up", s>>, f)
                   \o RawRing(r.vs[s].cif, <<"cap", s>>, f)
  BY <1>1, <1>2, <1>3, <1>4, <1>5, Zenon DEF L2SwitchRx
<1>7. from \in DOMAIN r.link \cup {0} /\ s \in Slot \cup {0}
  BY <1>1, <1>2, RxLinkFacts, VswitchFacts
<1>8. CASE from = 0
  BY <1>6, <1>8, Nothing, PlainIsEmitted
<1>9. CASE from # 0 /\ s = 0
  BY <1>6, <1>9, NullIsEmitted
<1>10. CASE from # 0 /\ s # 0
  <2>1. s \in Slot /\ <<"up", s>> \in UpRing /\ <<"cap", s>> \in UpRing
    BY <1>7, <1>10, UpRings
  <2>2. PlainOnly(r, links)
    <3>1. l \in DOMAIN r.link \cup {0}
      BY <1>4, <2>1, LinkOnFacts
    <3>2. l # 0 => PlainOnly(r, SendLink(r, from, l, f))
      BY <3>1, SendLinkOnly, LinksArePlain
    <3>3. PlainOnly(r, SendOthers(r, s, from, r.stopped \cup {p}, f))
          /\ PlainOnly(r, SendOthers(r, s, from, {p}, f)) /\ PlainOnly(r, <<>>)
      BY <2>1, OthersOnly, Nothing
    <3> QED
      BY <1>5, <3>2, <3>3
  <2>3. /\ PlainOnly(r, RawRing(r.vs[s].rif.open, <<"up", s>>, f))
        /\ PlainOnly(r, RawRing(r.vs[s].cif, <<"cap", s>>, f))
    BY <2>1, RawRingOnly
  <2>4. PlainOnly(r, L2SwitchRx(r, p, f))
    BY <1>6, <1>10, <2>2, <2>3, PlainConcat
  <2> QED
    BY <2>4, PlainIsEmitted
<1> QED
  BY <1>8, <1>9, <1>10

LEMMA VlanSwitchEmits ==
  ASSUME NEW r, IsRib(r), NEW p \in Port, NEW f, IsFrame(f)
  PROVE  Emits(r, VlanSwitchRx(r, p, f))
<1>1. PICK from : from = RxLink(r, p, f.tag)
  OBVIOUS
<1>2. PICK id : id = r.link[from].vs
  OBVIOUS
<1>3. PICK links :
        links = IF from = 0 THEN <<>>
                ELSE IF id >= Len(r.vs) THEN <<>>
                ELSE SendOthers(r, id + 1, from, {p}, f)
  OBVIOUS
<1>4. VlanSwitchRx(r, p, f) = links \o RawRing(TRUE, <<"tapup", p>>, f)
  BY <1>1, <1>2, <1>3, Zenon DEF VlanSwitchRx
<1>5. from \in DOMAIN r.link \cup {0}
  BY <1>1, RxLinkFacts
<1>6. PlainOnly(r, links)
  <2>1. CASE from = 0 \/ id >= Len(r.vs)
    BY <1>3, <2>1, Nothing
  <2>2. CASE from # 0 /\ ~(id >= Len(r.vs))
    <3>1. id \in Nat
      BY <1>2, <1>5, <2>2 DEF IsRib
    <3>2. Len(r.vs) \in Nat /\ Slot = 1 .. Len(r.vs)
      <4>1. r.vs \in Seq(ToSet(r.vs))
        BY DEF IsRib
      <4> QED
        BY <4>1, RibSlots, LenProperties
    <3>3. id + 1 \in Slot
      BY <2>2, <3>1, <3>2
    <3> QED
      BY <1>3, <2>2, <3>3, OthersOnly
  <2> QED
    BY <2>1, <2>2
<1>7. PlainOnly(r, RawRing(TRUE, <<"tapup", p>>, f))
  <2>1. <<"tapup", p>> \in UpRing
    BY UpRings
  <2> QED
    BY <2>1, RawRingOnly
<1> QED
  BY <1>4, <1>6, <1>7, PlainConcat, PlainIsEmitted

LEMMA EnhancedRepeaterEmits ==
  ASSUME NEW r, IsRib(r), NEW p \in Port, NEW f, IsFrame(f)
  PROVE  Emits(r, EnhancedRepeaterRx(r, p, f))
<1>1. PICK from : from = RxLink(r, p, f.tag)
  OBVIOUS
<1>2. PICK s : s = WorkerVswitch(r, from)
  OBVIOUS
<1>3. PICK app : app = IF r.app /\ f.kind = "dhcp4" THEN Emission("ring", <<"app", 0>>, f) ELSE <<>>
  OBVIOUS
<1>4. EnhancedRepeaterRx(r, p, f) =
        IF s = 0 THEN <<>>
        ELSE SendOthers(r, s, from, r.stopped \cup {p}, f)
             \o RouterIf(r, s, f) \o Capture(r, s, f) \o app
  BY <1>1, <1>2, <1>3, Zenon DEF EnhancedRepeaterRx
<1>5. from \in DOMAIN r.link \cup {0} /\ s \in Slot \cup {0}
  BY <1>1, <1>2, RxLinkFacts, VswitchFacts
<1>6. CASE s = 0
  BY <1>4, <1>6, Nothing, PlainIsEmitted
<1>7. CASE s # 0
  <2>1. /\ PlainOnly(r, SendOthers(r, s, from, r.stopped \cup {p}, f))
        /\ PlainOnly(r, RouterIf(r, s, f)) /\ PlainOnly(r, Capture(r, s, f))
    BY <1>5, <1>7, OthersOnly, RouterIfOnly, CaptureOnly
  <2>2. PlainOnly(r, app)
    BY <1>3, UpRings, RingOnly, Nothing
  <2>3. PlainOnly(r, EnhancedRepeaterRx(r, p, f))
    BY <1>4, <1>7, <2>1, <2>2, PlainConcat
  <2> QED
    BY <2>3, PlainIsEmitted
<1> QED
  BY <1>6, <1>7

LEMMA L2RepeaterEmits ==
  ASSUME NEW r, IsRib(r), NEW p \in Port, NEW f, IsFrame(f)
  PROVE  Emits(r, L2RepeaterRx(r, p, f))
<1>1. PICK S : S = DOMAIN r.port \ ({p} \cup r.down)
  OBVIOUS
<1>2. PICK others : others = SetToSeq(S)
  OBVIOUS
<1>3. PICK d : d = [i \in DOMAIN others |-> Emission("port", others[i], f)]
  OBVIOUS
<1>4. L2RepeaterRx(r, p, f) = RawRing(TRUE, <<"tapup", p>>, f) \o FlattenSeq(d)
  BY <1>1, <1>2, <1>3, Zenon DEF L2RepeaterRx
<1>5. S \in SUBSET Port /\ IsFiniteSet(Port)
  BY <1>1, PlaceAssumption DEF IsRib
<1>6. others \in Seq(S)
  BY <1>2, <1>5, FS_Subset, SetToSeqFacts
<1>7. PICK n \in Nat : DOMAIN others = 1 .. n
  BY <1>6, LenProperties
<1>8. \A i \in 1 .. n : PlainOnly(r, d[i])
  <2> SUFFICES ASSUME NEW i \in 1 .. n PROVE PlainOnly(r, d[i])
    OBVIOUS
  <2>1. PICK o \in Port : o = others[i]
    BY <1>5, <1>6, <1>7
  <2>2. Plain(r, [to |-> "port", at |-> o, fr |-> f])
    BY DEF Plain
  <2>3. PlainOnly(r, Emission("port", o, f))
    BY <2>2, OnePlain
  <2> QED
    BY <1>3, <1>7, <2>1, <2>3
<1>9. d = [i \in 1 .. n |-> d[i]]
  BY <1>3, <1>7
<1>10. PlainOnly(r, FlattenSeq(d))
  BY <1>8, <1>9, FlattenOnly
<1>11. PlainOnly(r, RawRing(TRUE, <<"tapup", p>>, f))
  <2>1. <<"tapup", p>> \in UpRing
    BY UpRings
  <2> QED
    BY <2>1, RawRingOnly
<1> QED
  BY <1>4, <1>10, <1>11, PlainConcat, PlainIsEmitted

LEMMA ProcessEmits ==
  ASSUME NEW r, IsRib(r), NEW p \in Port, NEW f, IsFrame(f), NEW program \in Program
  PROVE  Emits(r, Process(program, r, p, f))
<1>1. Emits(r, RouterRx(r, p, f, FALSE)) /\ Emits(r, RouterRx(r, p, f, TRUE))
  BY RouterEmits
<1>2. Emits(r, L2SwitchRx(r, p, f)) /\ Emits(r, VlanSwitchRx(r, p, f))
  BY L2SwitchEmits, VlanSwitchEmits
<1>3. Emits(r, EnhancedRepeaterRx(r, p, f)) /\ Emits(r, L2RepeaterRx(r, p, f))
  BY EnhancedRepeaterEmits, L2RepeaterEmits
<1> QED
  BY <1>1, <1>2, <1>3 DEF Process, Program

LEMMA ProcessDownEmits ==
  ASSUME NEW r, IsRib(r), NEW s \in Slot, NEW f, IsFrame(f), NEW program
  PROVE  LinksOnly(r, ProcessDown(program, r, s, f))
<1>1. LinksOnly(r, Switching(r, SelfPort, 0, s, f)) /\ LinksOnly(r, RepeaterTx(r, s, f))
  BY SwitchedLinks, RepeaterTxOnly
<1> QED
  BY <1>1 DEF ProcessDown, RouterTx

-----------------------------------------------------------------------------
(* The invariant.                                                          *)

\* The queues hold frames of F and messages of M; what can be in them grows
\* as frames come in and are rewritten.
Kept(F, M) ==
  /\ \A f \in F : IsFrame(f)
  /\ rx \in [Port -> {q \in Seq(F) : Len(q) <= RxSize}]
  /\ tx \in TxOf(F) /\ ring \in RingsOf(F) /\ msgs \in MsgsOf(M)

Total == pool + InPorts(rx, tx) + InRings(ring) + lost

Accounted ==
  /\ scene \in DOMAIN Scene /\ stopped \subseteq Port
  /\ pool \in Nat /\ lost \in Nat /\ fault \in BOOLEAN
  /\ \E F, M : Kept(F, M)
  /\ Total = Scene[scene].pool

LEMMA AccountedEstablishes == Accounted => BuffersAccounted
<1> SUFFICES ASSUME Accounted PROVE BuffersAccounted
  OBVIOUS
<1>1. PICK F, M : Kept(F, M)
  BY DEF Accounted
<1>2. /\ rx \in [Port -> Seq(F)] /\ tx \in [Port -> Seq(F)]
      /\ ring \in [Rings -> Seq(F \cup {Null})]
  BY <1>1 DEF Kept, TxOf, RingsOf
<1>3. InPorts(rx, tx) \in Nat /\ InRings(ring) \in Nat
  BY <1>2, InPortsType, InRingsType
<1>4. pool \in Nat /\ lost \in Nat /\ Scene[scene].pool \in Nat /\ scene \in DOMAIN Scene
  BY SceneAssumption DEF Accounted
<1>5. pool + InPorts(rx, tx) + InRings(ring) + lost = Scene[scene].pool
  BY DEF Accounted, Total
<1>6. pool \in 0 .. Scene[scene].pool /\ lost \in 0 .. Scene[scene].pool
  BY <1>3, <1>4, <1>5
<1>7. \A i \in Rings : Len(ring[i]) <= RingSize
  BY <1>1 DEF Kept, RingsOf
<1>8. \A p \in Port : Len(rx[p]) <= RxSize /\ Len(tx[p]) < TxBurst
  BY <1>1 DEF Kept, TxOf
<1>9. Len(msgs) <= QueueSize /\ stopped \subseteq Port
  BY <1>1 DEF Kept, MsgsOf, Accounted
<1>10. TypeOK
  BY <1>4, <1>6, <1>7, <1>8, <1>9 DEF TypeOK
<1>11. pool + Inside + lost = Scene[scene].pool
  BY <1>3, <1>4, <1>5, InsideSum
<1> QED
  BY <1>10, <1>11 DEF BuffersAccounted

LEMMA InitAccounted == Init => Accounted
<1> SUFFICES ASSUME Init PROVE Accounted
  OBVIOUS
<1>1. /\ rx = [p \in Port |-> <<>>] /\ tx = [p \in Port |-> <<>>]
      /\ ring = [i \in Rings |-> <<>>] /\ msgs = <<>> /\ lost = 0
      /\ scene \in DOMAIN Scene /\ stopped = {} /\ fault = FALSE
      /\ pool = Scene[scene].pool
  BY DEF Init
<1>2. pool \in Nat
  BY <1>1, SceneAssumption
<1>3. PICK F : F = {}
  OBVIOUS
<1>4. Kept(F, F)
  <2>1. <<>> \in Seq(F) /\ <<>> \in Seq(F \cup {Null}) /\ Len(<<>>) = 0
    OBVIOUS
  <2>2. 0 <= RxSize /\ 0 < TxBurst /\ 0 <= RingSize /\ 0 <= QueueSize
    BY SizeAssumption
  <2>3. rx \in [Port -> {q \in Seq(F) : Len(q) <= RxSize}]
    BY <1>1, <2>1, <2>2
  <2>4. tx \in TxOf(F)
    BY <1>1, <2>1, <2>2 DEF TxOf
  <2>5. ring \in RingsOf(F)
    BY <1>1, <2>1, <2>2 DEF RingsOf, DownRing
  <2>6. msgs \in MsgsOf(F)
    BY <1>1, <2>1, <2>2 DEF MsgsOf
  <2> QED
    BY <1>3, <2>3, <2>4, <2>5, <2>6 DEF Kept
<1>5. InPorts(rx, tx) = 0
  <2>1. PICK f : f = [p \in Port |-> Len(rx[p]) + Len(tx[p])]
    OBVIOUS
  <2>2. f \in [Port -> Int] /\ \A p \in Port : f[p] = 0
    BY <1>1, <2>1
  <2>3. SumFunctionOnSet(f, Port) = 0
    BY <2>2, PlaceAssumption, SumOfZeros
  <2> QED
    BY <2>1, <2>3 DEF InPorts
<1>6. InRings(ring) = 0
  <2>1. PICK f : f = [i \in Rings |-> Held(ring[i])]
    OBVIOUS
  <2>2. f \in [Rings -> Int] /\ \A i \in Rings : f[i] = 0
    BY <1>1, <2>1, HeldEmpty
  <2>3. SumFunctionOnSet(f, Rings) = 0
    BY <2>2, RingsFinite, SumOfZeros
  <2> QED
    BY <2>1, <2>3 DEF InRings
<1>7. Total = Scene[scene].pool
  BY <1>1, <1>2, <1>5, <1>6 DEF Total
<1> QED
  BY <1>1, <1>2, <1>4, <1>7 DEF Accounted

LEMMA RibFacts == ASSUME scene \in DOMAIN Scene PROVE IsRib(rib)
<1>1. PICK r : r = Scene[scene].rib
  OBVIOUS
<1>2. IsRib(r)
  BY <1>1, SceneAssumption
<1>3. PICK c : c = [r EXCEPT !.fdb = fdb, !.neigh = neigh, !.stopped = stopped]
  OBVIOUS
<1>4. /\ DOMAIN c = DOMAIN r
      /\ c.vs = r.vs /\ c.link = r.link /\ c.port = r.port
  BY <1>2, <1>3 DEF IsRib
<1>5. IsRib(c)
  BY <1>2, <1>4 DEF IsRib
<1> QED
  BY <1>1, <1>3, <1>5 DEF rib

LEMMA KeptGrows ==
  ASSUME NEW F, NEW M, Kept(F, M), NEW G, NEW N, F \subseteq G, M \subseteq N,
         \A f \in G : IsFrame(f)
  PROVE  Kept(G, N)
<1>1. Seq(F) \subseteq Seq(G) /\ Seq(M) \subseteq Seq(N)
      /\ Seq(F \cup {Null}) \subseteq Seq(G \cup {Null})
  OBVIOUS
<1>2. rx \in [Port -> {q \in Seq(G) : Len(q) <= RxSize}]
  BY <1>1 DEF Kept
<1>3. tx \in TxOf(G)
  BY <1>1 DEF Kept, TxOf
<1>4. ring \in RingsOf(G)
  BY <1>1 DEF Kept, RingsOf
<1>5. msgs \in MsgsOf(N)
  BY <1>1 DEF Kept, MsgsOf
<1> QED
  BY <1>2, <1>3, <1>4, <1>5 DEF Kept

LEMMA KeptFacts ==
  ASSUME NEW F, NEW M, Kept(F, M)
  PROVE  /\ \A f \in F : IsFrame(f)
         /\ rx \in [Port -> Seq(F)] /\ \A p \in Port : Len(rx[p]) <= RxSize
         /\ tx \in TxOf(F) /\ tx \in [Port -> Seq(F)]
         /\ ring \in RingsOf(F) /\ ring \in [Rings -> Seq(F \cup {Null})]
         /\ msgs \in MsgsOf(M) /\ msgs \in Seq(M)
         /\ Null \notin F
         /\ InPorts(rx, tx) \in Nat /\ InRings(ring) \in Nat
<1>1. /\ \A f \in F : IsFrame(f)
      /\ rx \in [Port -> Seq(F)] /\ \A p \in Port : Len(rx[p]) <= RxSize
      /\ tx \in TxOf(F) /\ tx \in [Port -> Seq(F)]
      /\ ring \in RingsOf(F) /\ ring \in [Rings -> Seq(F \cup {Null})]
      /\ msgs \in MsgsOf(M) /\ msgs \in Seq(M)
  BY DEF Kept, TxOf, RingsOf, MsgsOf
<1>2. Null \notin F
  BY <1>1, FrameIsNotNull
<1>3. InPorts(rx, tx) \in Nat /\ InRings(ring) \in Nat
  BY <1>1, InPortsType, InRingsType
<1> QED
  BY <1>1, <1>2, <1>3

\* What a worker has after it carried out the emissions of a frame.
LEMMA WorkerFacts ==
  ASSUME Accounted, NEW e, Emits(rib, e)
  PROVE  \E F, M : /\ Kept(F, M) /\ Run(e) \in Work(F, M)
                   /\ Weight(Run(e)) = pool + InPorts(rx, tx) + InRings(ring)
                   /\ LinksOnly(rib, e) => Run(e).ring = ring
<1>1. PICK F0, M0 : Kept(F0, M0)
  BY DEF Accounted
<1>2. PICK X, a, z : e \in Seq(X) /\ Bracketed(rib, e, a, z)
  BY DEF Emits
<1>3. PICK F : F = F0 \cup {e[n].fr : n \in 1 .. Len(e)}
  OBVIOUS
<1>4. PICK M : M = M0 \cup {Message(e[n]) : n \in 1 .. Len(e)}
  OBVIOUS
<1>5. \A f \in F : IsFrame(f)
  <2>1. \A n \in 1 .. Len(e) : IsFrame(e[n].fr)
    BY <1>2 DEF Bracketed
  <2>2. \A f \in F0 : IsFrame(f)
    BY <1>1 DEF Kept
  <2> QED
    BY <1>3, <2>1, <2>2
<1>6. F0 \subseteq F /\ M0 \subseteq M
  BY <1>3, <1>4
<1>7. Kept(F, M)
  BY <1>1, <1>5, <1>6, KeptGrows
<1>8. Now \in Work(F, M)
  <2>1. pool \in Nat /\ tx \in TxOf(F) /\ ring \in RingsOf(F) /\ msgs \in MsgsOf(M)
    BY <1>7, KeptFacts DEF Accounted
  <2>2. <<>> \in Seq(F)
    OBVIOUS
  <2> QED
    BY <2>1, <2>2 DEF Now, Work
<1>9. Weight(Now) = pool + InPorts(rx, tx) + InRings(ring)
  BY DEF Weight, Now
<1>10. rx \in [Port -> Seq(F)] /\ Null \notin F
  BY <1>7, KeptFacts
<1>11. \A l \in DOMAIN rib.link : rib.link[l].port \in Port
  <2>1. IsRib(rib)
    BY RibFacts DEF Accounted
  <2> QED
    BY <2>1 DEF IsRib
<1>12. \A n \in 1 .. Len(e) : e[n].fr \in F /\ Message(e[n]) \in M
  BY <1>3, <1>4
<1>13. /\ Run(e) \in Work(F, M)
       /\ Weight(Run(e)) = Weight(Now)
       /\ (\A n \in 1 .. Len(e) : e[n].to = "link") => Run(e).ring = ring
  BY <1>2, <1>8, <1>10, <1>11, <1>12, RunFacts
<1>14. LinksOnly(rib, e) => \A n \in 1 .. Len(e) : e[n].to = "link"
  BY DEF LinksOnly, ToLink
<1> QED
  BY <1>7, <1>9, <1>13, <1>14

-----------------------------------------------------------------------------
(* One step of a queue.                                                    *)

LEMMA TakenFacts ==
  ASSUME NEW F, ring \in RingsOf(F), NEW i \in Rings, RingTaken(i)
  PROVE  /\ ring' \in RingsOf(F)
         /\ InRings(ring') = InRings(ring) - IF Head(ring[i]) = Null THEN 0 ELSE 1
         /\ i \in DownRing => Head(ring[i]) \in F
         /\ Head(ring[i]) \in F \cup {Null}
<1>1. PICK q : q = ring[i]
  OBVIOUS
<1>2. ring' = [ring EXCEPT ![i] = Tail(q)] /\ q # <<>>
  BY <1>1 DEF RingTaken
<1>3. /\ ring \in [Rings -> Seq(F \cup {Null})] /\ q \in Seq(F \cup {Null})
      /\ Len(q) <= RingSize /\ (i \in DownRing => q \in Seq(F))
  BY <1>1 DEF RingsOf
<1>4. /\ Tail(q) \in Seq(F \cup {Null}) /\ Head(q) \in F \cup {Null}
      /\ Len(Tail(q)) = Len(q) - 1 /\ Len(q) \in Nat
  BY <1>2, <1>3
<1>5. i \in DownRing => Tail(q) \in Seq(F) /\ Head(q) \in F
  BY <1>2, <1>3
<1>6. ring' \in [Rings -> Seq(F \cup {Null})] /\ ring'[i] = Tail(q)
      /\ \A j \in Rings \ {i} : ring'[j] = ring[j]
  BY <1>2, <1>3, <1>4
<1>7. Len(Tail(q)) <= RingSize
  BY <1>3, <1>4, SizeAssumption
<1>8. ring' \in RingsOf(F)
  <2>1. \A j \in Rings : Len(ring'[j]) <= RingSize /\ (j \in DownRing => ring'[j] \in Seq(F))
    BY <1>5, <1>6, <1>7 DEF RingsOf
  <2>2. DownRing \subseteq Rings
    BY DEF DownRing
  <2> QED
    BY <1>6, <2>1, <2>2 DEF RingsOf
<1>9. PICK u : u = ring'
  OBVIOUS
<1>10. InRings(u) = InRings(ring) + (Held(u[i]) - Held(ring[i]))
  BY <1>3, <1>6, <1>9, InRingsChanged
<1>11. Held(Tail(q)) = Held(q) - IF Head(q) = Null THEN 0 ELSE 1
  BY <1>2, <1>3, HeldTail
<1>12. Held(q) \in Nat /\ InRings(ring) \in Nat
  BY <1>3, HeldType, InRingsType
<1>13. InRings(u) = InRings(ring) - IF Head(q) = Null THEN 0 ELSE 1
  BY <1>1, <1>6, <1>9, <1>10, <1>11, <1>12
<1> QED
  BY <1>1, <1>4, <1>5, <1>8, <1>9, <1>13

LEMMA SendMsgFacts ==
  ASSUME NEW M, NEW q \in MsgsOf(M), NEW m \in M
  PROVE  SendMsg(q, m) \in MsgsOf(M)
<1>1. q \in Seq(M) /\ Len(q) <= QueueSize /\ Len(q) \in Nat /\ QueueSize \in Nat
  BY SizeAssumption DEF MsgsOf
<1>2. Append(q, m) \in Seq(M) /\ Len(Append(q, m)) = Len(q) + 1
  BY <1>1
<1> QED
  BY <1>1, <1>2 DEF MsgsOf, SendMsg

\* An action keeps the invariant when the queues stay as they should be and
\* the sum does not change.
LEMMA Settled ==
  ASSUME Accounted, scene' = scene, stopped' \subseteq Port, fault' \in BOOLEAN,
         pool' \in Nat, lost' \in Nat, \E F, M : Kept(F, M)', Total' = Total
  PROVE  Accounted'
<1>1. Scene[scene]' = Scene[scene]
  OBVIOUS
<1> QED
  BY <1>1 DEF Accounted

-----------------------------------------------------------------------------
(* The actions.                                                            *)

LEMMA WorkerRxAccounted ==
  ASSUME Accounted, NEW p \in Port, WorkerRx(p)
  PROVE  Accounted'
<1>1. PICK F0, M0 : Kept(F0, M0)
  BY DEF Accounted
<1>2. rx[p] # <<>> /\ rx' = [rx EXCEPT ![p] = Tail(@)]
  BY DEF WorkerRx, RxTaken
<1>3. PICK f : f = Head(rx[p])
  OBVIOUS
<1>4. IsFrame(f)
  <2>1. rx[p] \in Seq(F0) /\ \A g \in F0 : IsFrame(g)
    BY <1>1, KeptFacts
  <2>2. Head(rx[p]) \in F0
    BY <1>2, <2>1
  <2> QED
    BY <1>3, <2>1, <2>2
<1>5. PICK e : e = Process(prog, rib, p, f)
  OBVIOUS
<1>6. PICK b : b = Run(e)
  OBVIOUS
<1>7. Done(b) /\ ring' = b.ring /\ UNCHANGED <<Rib, lost, Bounds>>
  <2>1. PICK d \in {Process(prog, r, p, g) : r \in {rib}, g \in {Head(rx[p])}} :
          \E c \in {Run(d)} : Done(c) /\ ring' = c.ring
    BY DEF WorkerRx
  <2>2. d = e
    BY <1>3, <1>5, <2>1
  <2>3. UNCHANGED <<Rib, lost, Bounds>>
    BY DEF WorkerRx
  <2> QED
    BY <1>6, <2>1, <2>2, <2>3
<1>8. pool' = b.pool + 1 /\ tx' = b.tx /\ msgs' = b.msgs /\ fault' = b.fault
  BY <1>7 DEF Done
<1>9. scene' = scene /\ stopped' = stopped /\ lost' = lost
  BY <1>7 DEF Rib
<1>10. Emits(rib, e)
  <2>1. IsRib(rib) /\ prog \in Program
    BY RibFacts, SceneAssumption DEF Accounted, prog
  <2> QED
    BY <1>4, <1>5, <2>1, ProcessEmits
<1>11. PICK F, M : /\ Kept(F, M) /\ b \in Work(F, M)
                   /\ Weight(b) = pool + InPorts(rx, tx) + InRings(ring)
  BY <1>6, <1>10, WorkerFacts
<1>12. /\ rx \in [Port -> Seq(F)] /\ \A o \in Port : Len(rx[o]) <= RxSize
       /\ \A g \in F : IsFrame(g)
       /\ InPorts(rx, tx) \in Nat /\ InRings(ring) \in Nat
  BY <1>11, KeptFacts
<1>13. /\ b.pool \in Nat /\ b.tx \in TxOf(F) /\ b.tx \in [Port -> Seq(F)]
       /\ b.ring \in RingsOf(F) /\ b.msgs \in MsgsOf(M) /\ b.fault \in BOOLEAN
       /\ InPorts(rx, b.tx) \in Nat /\ InRings(b.ring) \in Nat
  BY <1>11, <1>12, WorkFacts
<1>14. PICK new : new = [rx EXCEPT ![p] = Tail(rx[p])]
  OBVIOUS
<1>15. /\ new \in [Port -> Seq(F)] /\ Len(new[p]) = Len(rx[p]) - 1 /\ Len(rx[p]) \in Nat
       /\ \A o \in Port \ {p} : new[o] = rx[o]
  BY <1>2, <1>12, <1>14
<1>16. new \in [Port -> {q \in Seq(F) : Len(q) <= RxSize}]
  <2>1. Len(rx[p]) <= RxSize /\ RxSize \in Nat
    BY <1>12, SizeAssumption
  <2>2. Len(new[p]) <= RxSize
    BY <1>15, <2>1
  <2>3. \A o \in Port : Len(new[o]) <= RxSize
    BY <1>12, <1>15, <2>2
  <2> QED
    BY <1>15, <2>3
<1>17. rx' = new
  BY <1>2, <1>14
<1>18. Kept(F, M)'
  BY <1>7, <1>8, <1>12, <1>13, <1>16, <1>17 DEF Kept
<1>19. InPorts(new, b.tx) = InPorts(rx, b.tx) + (Len(new[p]) - Len(rx[p]))
  <2>1. PICK q \in Seq(F) : q = Tail(rx[p])
    BY <1>2, <1>12
  <2>2. PICK t \in [Port -> Seq(F)] : t = b.tx
    BY <1>13
  <2>3. InPorts([rx EXCEPT ![p] = q], t) = InPorts(rx, t) + (Len(q) - Len(rx[p]))
    BY <1>12, RxChanged
  <2>4. new[p] = q
    BY <1>12, <1>14, <2>1
  <2> QED
    BY <1>14, <2>1, <2>2, <2>3, <2>4
<1>20. InPorts(new, b.tx) = InPorts(rx, b.tx) - 1
  BY <1>13, <1>15, <1>19
<1>21. b.pool + InPorts(rx, b.tx) + InRings(b.ring) = pool + InPorts(rx, tx) + InRings(ring)
  BY <1>11 DEF Weight
<1>22. Total' = Total
  <2>1. Total' = (b.pool + 1) + InPorts(new, b.tx) + InRings(b.ring) + lost
    BY <1>7, <1>8, <1>9, <1>17 DEF Total
  <2>2. lost \in Nat /\ pool \in Nat
    BY DEF Accounted
  <2>3. Total = pool + InPorts(rx, tx) + InRings(ring) + lost
    BY DEF Total
  <2>4. PICK a, c, d, x, y, n, m, k :
          /\ a = b.pool /\ c = InPorts(rx, b.tx) /\ d = InRings(b.ring)
          /\ x = pool /\ y = InPorts(rx, tx) /\ n = InRings(ring) /\ m = lost
          /\ k = InPorts(new, b.tx)
    OBVIOUS
  <2>5. /\ a \in Nat /\ c \in Nat /\ d \in Nat /\ x \in Nat /\ y \in Nat /\ n \in Nat /\ m \in Nat
        /\ k = c - 1 /\ a + c + d = x + y + n
    BY <1>12, <1>13, <1>20, <1>21, <2>2, <2>4
  <2>6. (a + 1) + k + d + m = x + y + n + m
    BY <2>5
  <2> QED
    BY <2>1, <2>3, <2>4, <2>6
<1> QED
  BY <1>8, <1>9, <1>13, <1>18, <1>22, Settled DEF Accounted

LEMMA WorkerTxAccounted ==
  ASSUME Accounted, NEW s \in Slot, WorkerTx(s)
  PROVE  Accounted'
<1>1. PICK F0, M0 : Kept(F0, M0)
  BY DEF Accounted
<1>2. PICK i : i = <<"dn", s>>
  OBVIOUS
<1>3. i \in DownRing /\ i \in Rings
  BY <1>2 DEF DownRing, Rings
<1>4. RingTaken(i)
  BY <1>2 DEF WorkerTx, DnTaken
<1>5. PICK f : f = Head(ring[i])
  OBVIOUS
<1>6. IsFrame(f)
  <2>1. ring \in RingsOf(F0) /\ \A g \in F0 : IsFrame(g)
    BY <1>1, KeptFacts
  <2> QED
    BY <1>3, <1>4, <1>5, <2>1, TakenFacts
<1>7. PICK e : e = ProcessDown(prog, rib, s, f)
  OBVIOUS
<1>8. PICK b : b = Run(e)
  OBVIOUS
<1>9. Done(b) /\ UNCHANGED <<Rib, rx, lost, Bounds>>
  <2>1. PICK d \in {ProcessDown(prog, r, s, g) : r \in {rib}, g \in {Head(ring[<<"dn", s>>])}} :
          \E c \in {Run(d)} : Done(c)
    BY DEF WorkerTx
  <2>2. d = e
    BY <1>2, <1>5, <1>7, <2>1
  <2>3. UNCHANGED <<Rib, rx, lost, Bounds>>
    BY DEF WorkerTx
  <2> QED
    BY <1>8, <2>1, <2>2, <2>3
<1>10. pool' = b.pool + 1 /\ tx' = b.tx /\ msgs' = b.msgs /\ fault' = b.fault
  BY <1>9 DEF Done
<1>11. scene' = scene /\ stopped' = stopped /\ lost' = lost /\ rx' = rx
  BY <1>9 DEF Rib
<1>12. LinksOnly(rib, e) /\ Emits(rib, e)
  <2>1. IsRib(rib)
    BY RibFacts DEF Accounted
  <2>2. LinksOnly(rib, e)
    BY <1>6, <1>7, <2>1, ProcessDownEmits
  <2> QED
    BY <2>2, LinksArePlain, PlainIsEmitted
<1>13. PICK F, M : /\ Kept(F, M) /\ b \in Work(F, M)
                   /\ Weight(b) = pool + InPorts(rx, tx) + InRings(ring)
                   /\ b.ring = ring
  BY <1>8, <1>12, WorkerFacts
<1>14. /\ rx \in [Port -> Seq(F)] /\ \A o \in Port : Len(rx[o]) <= RxSize
       /\ \A g \in F : IsFrame(g) /\ ring \in RingsOf(F)
       /\ InPorts(rx, tx) \in Nat /\ InRings(ring) \in Nat
  BY <1>13, KeptFacts
<1>15. /\ b.pool \in Nat /\ b.tx \in TxOf(F)
       /\ b.msgs \in MsgsOf(M) /\ b.fault \in BOOLEAN
       /\ InPorts(rx, b.tx) \in Nat /\ InRings(b.ring) \in Nat
  BY <1>13, <1>14, WorkFacts
<1>16. f # Null
  BY <1>6, FrameIsNotNull
<1>17. ring' \in RingsOf(F) /\ InRings(ring') = InRings(ring) - 1
  <2>1. ring \in RingsOf(F)
    BY <1>13, KeptFacts
  <2> QED
    BY <1>3, <1>4, <1>5, <1>16, <2>1, TakenFacts
<1>18. Kept(F, M)'
  <2>1. rx' \in [Port -> {q \in Seq(F) : Len(q) <= RxSize}]
    BY <1>11, <1>14
  <2>2. \A g \in F : IsFrame(g)
    BY <1>13, KeptFacts
  <2> QED
    BY <1>10, <1>15, <1>17, <2>1, <2>2 DEF Kept
<1>19. b.pool + InPorts(rx, b.tx) + InRings(ring) = pool + InPorts(rx, tx) + InRings(ring)
  BY <1>13 DEF Weight
<1>20. Total' = Total
  <2>1. Total' = (b.pool + 1) + InPorts(rx, b.tx) + InRings(ring') + lost
    BY <1>10, <1>11 DEF Total
  <2>2. lost \in Nat /\ pool \in Nat
    BY DEF Accounted
  <2>3. Total = pool + InPorts(rx, tx) + InRings(ring) + lost
    BY DEF Total
  <2>4. PICK a, c, x, y, n, m, k :
          /\ a = b.pool /\ c = InPorts(rx, b.tx)
          /\ x = pool /\ y = InPorts(rx, tx) /\ n = InRings(ring) /\ m = lost
          /\ k = InRings(ring')
    OBVIOUS
  <2>5. /\ a \in Nat /\ c \in Nat /\ x \in Nat /\ y \in Nat /\ n \in Nat /\ m \in Nat
        /\ k = n - 1 /\ a + c + n = x + y + n
    BY <1>14, <1>15, <1>17, <1>19, <2>2, <2>4
  <2>6. (a + 1) + c + k + m = x + y + n + m
    BY <2>5
  <2> QED
    BY <2>1, <2>3, <2>4, <2>6
<1> QED
  BY <1>10, <1>11, <1>15, <1>18, <1>20, Settled DEF Accounted

\* The buffer in the first entry of a ring.
Freed(i) == IF Head(ring[i]) = Null THEN 0 ELSE 1

\* A message may be sent.
MaySend(m) == msgs' \in {msgs, SendMsg(msgs, m)}

\* A ring gives up its first entry; the buffer is freed or lost, and a
\* message may be sent.
LEMMA RingStep ==
  ASSUME Accounted, NEW i \in Rings, RingTaken(i),
         scene' = scene, stopped' = stopped, fault' = fault, rx' = rx, tx' = tx,
         pool' \in Nat, lost' \in Nat,
         pool' + lost' = pool + lost + Freed(i),
         NEW m, MaySend(m)
  PROVE  Accounted'
<1>1. PICK F, M0 : Kept(F, M0)
  BY DEF Accounted
<1>2. PICK M : M = M0 \cup {m}
  OBVIOUS
<1>3. Kept(F, M)
  <2>1. \A f \in F : IsFrame(f)
    BY <1>1, KeptFacts
  <2> QED
    BY <1>1, <1>2, <2>1, KeptGrows
<1>4. ring \in RingsOf(F) /\ InPorts(rx, tx) \in Nat /\ InRings(ring) \in Nat
      /\ msgs \in MsgsOf(M)
  BY <1>3, KeptFacts
<1>5. /\ ring' \in RingsOf(F)
      /\ InRings(ring') = InRings(ring) - Freed(i) /\ Freed(i) \in Nat
  BY <1>4, TakenFacts DEF Freed
<1>6. msgs' \in MsgsOf(M)
  <2>1. SendMsg(msgs, m) \in MsgsOf(M)
    BY <1>2, <1>4, SendMsgFacts
  <2> QED
    BY <1>4, <2>1 DEF MaySend
<1>7. Kept(F, M)'
  BY <1>3, <1>5, <1>6 DEF Kept
<1>8. Total' = Total
  <2>1. Total' = pool' + InPorts(rx, tx) + InRings(ring') + lost'
    BY DEF Total
  <2>2. Total = pool + InPorts(rx, tx) + InRings(ring) + lost
    BY DEF Total
  <2>3. PICK h, a, b, c, d, x, y, k :
          /\ h = Freed(i)
          /\ a = pool /\ b = lost /\ c = pool' /\ d = lost'
          /\ x = InPorts(rx, tx) /\ y = InRings(ring) /\ k = InRings(ring')
    OBVIOUS
  <2>4. /\ h \in Nat /\ a \in Nat /\ b \in Nat /\ c \in Nat /\ d \in Nat /\ x \in Nat
        /\ y \in Nat /\ k = y - h /\ c + d = a + b + h
    BY <1>4, <1>5, <2>3 DEF Accounted
  <2>5. c + x + k + d = a + x + y + b
    BY <2>4
  <2> QED
    BY <2>1, <2>2, <2>3, <2>5
<1>9. \E G, N : Kept(G, N)'
  BY <1>7
<1> QED
  BY <1>8, <1>9, Settled DEF Accounted

LEMMA TakeFacts ==
  ASSUME pool \in Nat, lost \in Nat, NEW i, Take(i), lost' = lost
  PROVE  /\ RingTaken(i) /\ pool' \in Nat /\ lost' \in Nat
         /\ pool' + lost' = pool + lost + Freed(i)
BY DEF Take, Freed

LEMMA WorkerTxRawAccounted ==
  ASSUME Accounted, NEW p \in Port, NEW taken \in BOOLEAN, WorkerTxRaw(p, taken)
  PROVE  Accounted'
<1>1. PICK i : i = <<"tapdn", p>>
  OBVIOUS
<1>2. i \in Rings /\ i \in DownRing
  BY <1>1 DEF Rings, DownRing
<1>3. /\ RingTaken(i) /\ UNCHANGED <<Rib, rx, tx, msgs, Bounds, fault>>
      /\ \/ pool' = pool + 1 /\ lost' = lost
         \/ lost' = lost + 1 /\ pool' = pool
  BY <1>1 DEF WorkerTxRaw
<1>4. Head(ring[i]) # Null
  <2>1. PICK F, M : Kept(F, M)
    BY DEF Accounted
  <2>2. ring \in RingsOf(F) /\ Null \notin F
    BY <2>1, KeptFacts
  <2> QED
    BY <1>2, <1>3, <2>2, TakenFacts
<1>5. pool \in Nat /\ lost \in Nat
  BY DEF Accounted
<1>6. /\ pool' \in Nat /\ lost' \in Nat
      /\ pool' + lost' = pool + lost + Freed(i)
  BY <1>3, <1>4, <1>5 DEF Freed
<1>7. /\ scene' = scene /\ stopped' = stopped /\ fault' = fault /\ rx' = rx /\ tx' = tx
      /\ MaySend(0)
  BY <1>3 DEF Rib, MaySend
<1> QED
  BY <1>2, <1>3, <1>6, <1>7, RingStep

LEMMA L3UpAccounted ==
  ASSUME Accounted, NEW i \in Rings, L3Up(i)
  PROVE  Accounted'
<1>1. PICK m : m = Learn(Head(ring[i]), rib.vs[i[2]].vlan)
  OBVIOUS
<1>2. Take(i) /\ MaySend(m)
  BY <1>1 DEF L3Up, MaySend
<1>3. /\ scene' = scene /\ stopped' = stopped /\ fault' = fault /\ rx' = rx /\ tx' = tx
      /\ lost' = lost
  BY DEF L3Up, Rib
<1>4. pool \in Nat /\ lost \in Nat
  BY DEF Accounted
<1>5. /\ RingTaken(i) /\ pool' \in Nat /\ lost' \in Nat
      /\ pool' + lost' = pool + lost + Freed(i)
  BY <1>2, <1>3, <1>4, TakeFacts
<1> QED
  BY <1>2, <1>3, <1>5, RingStep

LEMMA TapUpAccounted ==
  ASSUME Accounted, NEW p \in Port, TapUp(p)
  PROVE  Accounted'
<1>1. PICK i : i = <<"tapup", p>>
  OBVIOUS
<1>2. PICK m : m = Learn(Head(ring[i]), 0)
  OBVIOUS
<1>3. i \in Rings
  BY <1>1 DEF Rings
<1>4. Take(i) /\ MaySend(m)
  BY <1>1, <1>2 DEF TapUp, MaySend
<1>5. /\ scene' = scene /\ stopped' = stopped /\ fault' = fault /\ rx' = rx /\ tx' = tx
      /\ lost' = lost
  BY DEF TapUp, Rib
<1>6. pool \in Nat /\ lost \in Nat
  BY DEF Accounted
<1>7. /\ RingTaken(i) /\ pool' \in Nat /\ lost' \in Nat
      /\ pool' + lost' = pool + lost + Freed(i)
  BY <1>4, <1>5, <1>6, TakeFacts
<1> QED
  BY <1>3, <1>4, <1>5, <1>7, RingStep

LEMMA AppReadAccounted ==
  ASSUME Accounted, AppRead
  PROVE  Accounted'
<1>1. PICK i : i = <<"app", 0>>
  OBVIOUS
<1>2. i \in Rings
  BY <1>1 DEF Rings
<1>3. Take(i)
  BY <1>1 DEF AppRead
<1>4. /\ scene' = scene /\ stopped' = stopped /\ fault' = fault /\ rx' = rx /\ tx' = tx
      /\ lost' = lost /\ MaySend(0)
  BY DEF AppRead, Rib, MaySend
<1>5. pool \in Nat /\ lost \in Nat
  BY DEF Accounted
<1>6. /\ RingTaken(i) /\ pool' \in Nat /\ lost' \in Nat
      /\ pool' + lost' = pool + lost + Freed(i)
  BY <1>3, <1>4, <1>5, TakeFacts
<1> QED
  BY <1>2, <1>4, <1>6, RingStep

LEMMA FlushAccounted ==
  ASSUME Accounted, NEW p \in Port, Flush(p)
  PROVE  Accounted'
<1>1. PICK F, M : Kept(F, M)
  BY DEF Accounted
<1>2. /\ rx \in [Port -> Seq(F)] /\ tx \in TxOf(F) /\ tx \in [Port -> Seq(F)]
      /\ InPorts(rx, tx) \in Nat /\ InRings(ring) \in Nat
  BY <1>1, KeptFacts
<1>3. PICK new : new = [tx EXCEPT ![p] = <<>>]
  OBVIOUS
<1>4. /\ tx' = new /\ pool' = pool + Len(tx[p]) /\ ring' = ring /\ lost' = lost /\ rx' = rx
      /\ msgs' = msgs /\ scene' = scene /\ stopped' = stopped /\ fault' = fault
  BY <1>3 DEF Flush, Rib
<1>5. PICK old : old = tx
  OBVIOUS
<1>6. /\ new \in TxOf(F) /\ new \in [Port -> Seq(F)] /\ Len(new[p]) = 0
      /\ \A o \in Port \ {p} : new[o] = old[o]
  <2>1. <<>> \in {q \in Seq(F) : Len(q) < TxBurst} /\ Len(<<>>) = 0
    BY SizeAssumption
  <2> QED
    BY <1>2, <1>3, <1>5, <2>1 DEF TxOf
<1>7. Len(old[p]) \in Nat /\ pool \in Nat /\ lost \in Nat /\ old \in [Port -> Seq(F)]
  BY <1>2, <1>5 DEF Accounted
<1>8. InPorts(rx, new) = InPorts(rx, old) + (Len(new[p]) - Len(old[p]))
  BY <1>2, <1>6, <1>7, TxChanged
<1>9. Kept(F, M)'
  BY <1>1, <1>4, <1>6 DEF Kept
<1>10. pool' \in Nat
  BY <1>4, <1>5, <1>7
<1>11. Total' = Total
  <2>1. Total' = pool' + InPorts(rx, new) + InRings(ring) + lost
    BY <1>4 DEF Total
  <2>2. Total = pool + InPorts(rx, old) + InRings(ring) + lost
    BY <1>5 DEF Total
  <2>3. PICK h, a, b, c, x, y, k :
          /\ h = Len(old[p]) /\ a = pool /\ b = lost /\ c = pool'
          /\ x = InPorts(rx, old) /\ y = InRings(ring) /\ k = InPorts(rx, new)
    OBVIOUS
  <2>4. h \in Nat /\ a \in Nat /\ b \in Nat /\ x \in Nat /\ y \in Nat /\ k = x - h /\ c = a + h
    BY <1>2, <1>4, <1>5, <1>6, <1>7, <1>8, <2>3
  <2>5. c + k + y + b = a + x + y + b
    BY <2>4
  <2> QED
    BY <2>1, <2>2, <2>3, <2>5
<1>12. \E G, N : Kept(G, N)'
  BY <1>9
<1> QED
  BY <1>4, <1>7, <1>10, <1>11, <1>12, Settled DEF Accounted

LEMMA ReceivedFrame == ASSUME NEW f, NEW p, NEW v PROVE IsFrame(Received(f, p, v))
BY DEF IsFrame, Received

LEMMA ArriveAccounted ==
  ASSUME Accounted, NEW p \in Port, NEW f, Arrive(p, f)
  PROVE  Accounted'
<1>1. PICK g : g = Received(f, p, Entered(p, f.tag))
  OBVIOUS
<1>2. IsFrame(g)
  BY <1>1, ReceivedFrame
<1>3. PICK F0, M : Kept(F0, M)
  BY DEF Accounted
<1>4. PICK F : F = F0 \cup {g}
  OBVIOUS
<1>5. Kept(F, M)
  <2>1. \A h \in F : IsFrame(h)
    BY <1>2, <1>3, <1>4, KeptFacts
  <2> QED
    BY <1>3, <1>4, <2>1, KeptGrows
<1>6. /\ rx \in [Port -> Seq(F)] /\ \A o \in Port : Len(rx[o]) <= RxSize
      /\ tx \in [Port -> Seq(F)] /\ \A h \in F : IsFrame(h)
      /\ InPorts(rx, tx) \in Nat /\ InRings(ring) \in Nat
  BY <1>5, KeptFacts
<1>7. PICK q : q = Append(rx[p], g)
  OBVIOUS
<1>8. /\ rx' = [rx EXCEPT ![p] = q] /\ pool' = pool - 1 /\ pool > 0 /\ Len(rx[p]) < RxSize
      /\ tx' = tx /\ ring' = ring /\ msgs' = msgs /\ lost' = lost /\ scene' = scene
      /\ stopped' = stopped /\ fault' = fault
  BY <1>1, <1>7 DEF Arrive, Rib
<1>9. q \in Seq(F) /\ Len(q) = Len(rx[p]) + 1 /\ Len(rx[p]) \in Nat
  BY <1>4, <1>6, <1>7
<1>10. Len(q) <= RxSize
  BY <1>8, <1>9, SizeAssumption
<1>11. rx' \in [Port -> {s \in Seq(F) : Len(s) <= RxSize}]
  BY <1>6, <1>8, <1>9, <1>10
<1>12. Kept(F, M)'
  BY <1>5, <1>8, <1>11 DEF Kept
<1>13. InPorts(rx', tx) = InPorts(rx, tx) + (Len(q) - Len(rx[p]))
  <2>1. PICK t \in [Port -> Seq(F)] : t = tx
    BY <1>6
  <2>2. InPorts([rx EXCEPT ![p] = q], t) = InPorts(rx, t) + (Len(q) - Len(rx[p]))
    BY <1>6, <1>9, RxChanged
  <2> QED
    BY <1>8, <2>1, <2>2
<1>14. pool \in Nat /\ lost \in Nat
  BY DEF Accounted
<1>15. pool' \in Nat
  BY <1>8, <1>14
<1>16. Total' = Total
  <2>1. Total' = pool' + InPorts(rx', tx) + InRings(ring) + lost
    BY <1>8 DEF Total
  <2>2. Total = pool + InPorts(rx, tx) + InRings(ring) + lost
    BY DEF Total
  <2>3. PICK a, b, c, x, y, k :
          /\ a = pool /\ b = lost /\ c = pool'
          /\ x = InPorts(rx, tx) /\ y = InRings(ring) /\ k = InPorts(rx', tx)
    OBVIOUS
  <2>4. k = x + 1
    BY <1>6, <1>9, <1>13, <2>3
  <2>5. a \in Nat /\ b \in Nat /\ x \in Nat /\ y \in Nat /\ c = a - 1
    BY <1>6, <1>8, <1>14, <2>3
  <2>6. c + k + y + b = a + x + y + b
    BY <2>4, <2>5
  <2> QED
    BY <2>1, <2>2, <2>3, <2>6
<1>17. \E G, N : Kept(G, N)'
  BY <1>12
<1> QED
  BY <1>8, <1>14, <1>15, <1>16, <1>17, Settled DEF Accounted

\* Appending to a ring of any kind.
LEMMA RingGrows ==
  ASSUME NEW F, NEW r \in RingsOf(F), NEW i \in Rings, NEW f \in F, Len(r[i]) # RingSize
  PROVE  [r EXCEPT ![i] = Append(r[i], f)] \in RingsOf(F)
<1>1. PICK u : u = [r EXCEPT ![i] = Append(r[i], f)]
  OBVIOUS
<1>2. /\ r \in [Rings -> Seq(F \cup {Null})] /\ Len(r[i]) <= RingSize /\ RingSize \in Nat
      /\ i \in DownRing => r[i] \in Seq(F)
  BY SizeAssumption DEF RingsOf
<1>3. /\ Append(r[i], f) \in Seq(F \cup {Null}) /\ Len(Append(r[i], f)) = Len(r[i]) + 1
      /\ Len(r[i]) \in Nat
      /\ i \in DownRing => Append(r[i], f) \in Seq(F)
  BY <1>2
<1>4. Len(Append(r[i], f)) <= RingSize
  BY <1>2, <1>3
<1>5. u \in [Rings -> Seq(F \cup {Null})]
  BY <1>1, <1>2, <1>3
<1>6. \A j \in Rings : Len(u[j]) <= RingSize /\ (j \in DownRing => u[j] \in Seq(F))
  BY <1>1, <1>2, <1>3, <1>4 DEF RingsOf
<1>7. DownRing \subseteq Rings
  BY DEF DownRing
<1>8. u \in RingsOf(F)
  BY <1>5, <1>6, <1>7 DEF RingsOf
<1> QED
  BY <1>1, <1>8

LEMMA L3DownAccounted ==
  ASSUME Accounted, NEW s \in Slot, NEW f, L3Down(s, f)
  PROVE  Accounted'
<1>1. PICK g : g = Received(f, SelfPort, rib.vs[s].id)
  OBVIOUS
<1>2. PICK i : i = <<"dn", s>>
  OBVIOUS
<1>3. i \in Rings /\ IsFrame(g)
  BY <1>1, <1>2, ReceivedFrame DEF Rings
<1>4. PICK F0, M : Kept(F0, M)
  BY DEF Accounted
<1>5. PICK F : F = F0 \cup {g}
  OBVIOUS
<1>6. Kept(F, M)
  <2>1. \A h \in F : IsFrame(h)
    BY <1>3, <1>4, <1>5, KeptFacts
  <2> QED
    BY <1>4, <1>5, <2>1, KeptGrows
<1>7. /\ ring \in RingsOf(F) /\ ring \in [Rings -> Seq(F \cup {Null})]
      /\ InPorts(rx, tx) \in Nat /\ InRings(ring) \in Nat
  BY <1>6, KeptFacts
<1>8. /\ pool > 0 /\ pool' = pool - 1 /\ rx' = rx /\ tx' = tx /\ msgs' = msgs
      /\ scene' = scene /\ stopped' = stopped /\ fault' = fault
  BY DEF L3Down, Rib
<1>9. pool \in Nat /\ lost \in Nat
  BY DEF Accounted
<1>10. pool' \in Nat
  BY <1>8, <1>9
<1>11. CASE Len(ring[i]) = RingSize
  <2>1. ring' = ring /\ lost' = lost + 1
    BY <1>2, <1>11 DEF L3Down
  <2>2. Kept(F, M)'
    BY <1>6, <1>8, <2>1 DEF Kept
  <2>3. Total' = Total /\ lost' \in Nat
    <3>1. Total' = (pool - 1) + InPorts(rx, tx) + InRings(ring) + (lost + 1)
      BY <1>8, <2>1 DEF Total
    <3>2. Total = pool + InPorts(rx, tx) + InRings(ring) + lost
      BY DEF Total
    <3> QED
      BY <1>7, <1>9, <2>1, <3>1, <3>2
  <2>4. \E G, N : Kept(G, N)'
    BY <2>2
  <2> QED
    BY <1>8, <1>10, <2>3, <2>4, Settled DEF Accounted
<1>12. CASE Len(ring[i]) # RingSize
  <2>1. ring' = [ring EXCEPT ![i] = Append(ring[i], g)] /\ lost' = lost
    BY <1>1, <1>2, <1>12 DEF L3Down
  <2>2. ring' \in RingsOf(F)
    BY <1>3, <1>5, <1>7, <1>12, <2>1, RingGrows
  <2>3. Kept(F, M)'
    BY <1>6, <1>8, <2>2 DEF Kept
  <2>4. InRings(ring') = InRings(ring) + 1
    <3>1. PICK r, u : r = ring /\ u = ring'
      OBVIOUS
    <3>2. /\ r \in [Rings -> Seq(F \cup {Null})] /\ u \in [Rings -> Seq(F \cup {Null})]
          /\ u[i] = Append(r[i], g) /\ \A j \in Rings \ {i} : u[j] = r[j]
      BY <1>3, <1>7, <2>1, <2>2, <3>1 DEF RingsOf
    <3>3. InRings(u) = InRings(r) + (Held(u[i]) - Held(r[i]))
      BY <1>3, <3>2, InRingsChanged
    <3>4. Held(u[i]) = Held(r[i]) + 1 /\ Held(r[i]) \in Nat
      BY <1>3, <3>2, HeldAppend, HeldType, FrameIsNotNull
    <3> QED
      BY <1>7, <3>1, <3>3, <3>4
  <2>5. Total' = Total
    <3>1. Total' = (pool - 1) + InPorts(rx, tx) + InRings(ring') + lost
      BY <1>8, <2>1 DEF Total
    <3>2. Total = pool + InPorts(rx, tx) + InRings(ring) + lost
      BY DEF Total
    <3> QED
      BY <1>7, <1>9, <2>4, <3>1, <3>2
  <2>6. \E G, N : Kept(G, N)'
    BY <2>3
  <2> QED
    BY <1>8, <1>9, <1>10, <2>1, <2>5, <2>6, Settled DEF Accounted
<1> QED
  BY <1>11, <1>12

\* tap_handler gives every tapdn ring with room a frame.
Room(r) == {p \in Port : Len(r[<<"tapdn", p>>]) < RingSize}
TappedDown(r, g) == [i \in Rings |-> IF i[1] = "tapdn" /\ i[2] \in Room(r)
                                     THEN Append(r[i], g) ELSE r[i]]

LEMMA TapDownRings ==
  ASSUME NEW F, NEW g \in F, g # Null, NEW r \in RingsOf(F)
  PROVE  /\ TappedDown(r, g) \in RingsOf(F)
         /\ InRings(TappedDown(r, g)) = InRings(r) + Cardinality(Room(r))
<1> DEFINE room == Room(r)
           u == TappedDown(r, g)
<1>0a. room = {p \in Port : Len(r[<<"tapdn", p>>]) < RingSize}
  BY DEF Room
<1>0b. u = [i \in Rings |-> IF i[1] = "tapdn" /\ i[2] \in room
                           THEN Append(r[i], g) ELSE r[i]]
  BY DEF TappedDown
<1> HIDE DEF room, u
<1>1. PICK D : D = {i \in Rings : i[1] = "tapdn" /\ i[2] \in room}
  OBVIOUS
<1>2. /\ r \in [Rings -> Seq(F \cup {Null})] /\ RingSize \in Nat
      /\ \A i \in Rings : Len(r[i]) <= RingSize
      /\ \A i \in DownRing : r[i] \in Seq(F)
  BY SizeAssumption DEF RingsOf
<1>3. ASSUME NEW i \in D
      PROVE  /\ i \in Rings /\ i \in DownRing /\ u[i] = Append(r[i], g)
             /\ u[i] \in Seq(F) /\ Len(u[i]) <= RingSize
             /\ Held(u[i]) = Held(r[i]) + 1
  <2>1. i \in Rings /\ i[1] = "tapdn" /\ i[2] \in room
    BY <1>1
  <2>2. i = <<"tapdn", i[2]>>
    BY <2>1 DEF Rings
  <2>3. Len(r[i]) < RingSize
    BY <1>0a, <2>1, <2>2
  <2>4. i \in DownRing /\ u[i] = Append(r[i], g) /\ r[i] \in Seq(F)
    BY <1>2, <1>0b, <2>1 DEF DownRing
  <2>5. Append(r[i], g) \in Seq(F) /\ Len(Append(r[i], g)) = Len(r[i]) + 1 /\ Len(r[i]) \in Nat
    BY <2>4
  <2>6. Held(Append(r[i], g)) = Held(r[i]) + 1
    BY <2>4, HeldAppend
  <2>7. Len(u[i]) <= RingSize
    BY <1>2, <2>3, <2>4, <2>5
  <2> QED
    BY <2>1, <2>4, <2>5, <2>6, <2>7
<1>4. \A i \in Rings \ D : u[i] = r[i]
  BY <1>1, <1>0b
<1>5. u \in RingsOf(F)
  <2>1. \A i \in Rings : u[i] \in Seq(F \cup {Null}) /\ Len(u[i]) <= RingSize
                         /\ (i \in DownRing => u[i] \in Seq(F))
    <3> SUFFICES ASSUME NEW i \in Rings
                 PROVE  u[i] \in Seq(F \cup {Null}) /\ Len(u[i]) <= RingSize
                        /\ (i \in DownRing => u[i] \in Seq(F))
      OBVIOUS
    <3>1. CASE i \in D
      <4>1. u[i] \in Seq(F) /\ Len(u[i]) <= RingSize
        BY <1>3, <3>1
      <4> QED
        BY <4>1
    <3>2. CASE i \notin D
      BY <1>2, <1>4, <3>2
    <3> QED
      BY <3>1, <3>2
  <2>2. DownRing \subseteq Rings
    BY DEF DownRing
  <2> QED
    BY <1>0b, <2>1, <2>2 DEF RingsOf
<1>6. PICK f : f = [i \in Rings |-> Held(r[i])]
  OBVIOUS
<1>7. PICK h : h = [i \in Rings |-> Held(u[i])]
  OBVIOUS
<1>8. f \in [Rings -> Int] /\ h \in [Rings -> Int]
  <2>1. \A i \in Rings : Held(r[i]) \in Nat
    BY <1>2, HeldType
  <2>2. u \in [Rings -> Seq(F \cup {Null})]
    BY <1>5 DEF RingsOf
  <2>3. \A i \in Rings : Held(u[i]) \in Nat
    BY <2>2, HeldType
  <2> QED
    BY <1>6, <1>7, <2>1, <2>3
<1>9. GrownIn(h, f, Rings, D)
  <2> SUFFICES ASSUME NEW i \in Rings PROVE h[i] = f[i] + IF i \in D THEN 1 ELSE 0
    BY DEF GrownIn
  <2>1. h[i] = Held(u[i]) /\ f[i] = Held(r[i]) /\ f[i] \in Int
    BY <1>6, <1>7, <1>8
  <2>2. CASE i \in D
    BY <1>3, <2>1, <2>2
  <2>3. CASE i \notin D
    BY <1>4, <2>1, <2>3
  <2> QED
    BY <2>2, <2>3
<1>10. D \in SUBSET Rings
  BY <1>1
<1>11. SumFunctionOnSet(h, Rings) = SumFunctionOnSet(f, Rings) + Cardinality(D)
  BY <1>8, <1>9, <1>10, RingsFinite, SumGrown
<1>12. Cardinality(D) = Cardinality(room)
  <2>1. PICK m : m = [p \in room |-> <<"tapdn", p>>]
    OBVIOUS
  <2>2. room \subseteq Port
    BY <1>0a
  <2>3. \A p \in room : <<"tapdn", p>> \in D
    BY <1>1, <2>2 DEF Rings
  <2>4. m \in [room -> D] /\ \A a, b \in room : m[a] = m[b] => a = b
    BY <2>1, <2>3
  <2>5. \A i \in D : i[2] \in room /\ m[i[2]] = i
    <3> SUFFICES ASSUME NEW i \in D PROVE i[2] \in room /\ m[i[2]] = i
      OBVIOUS
    <3>1. i \in Rings /\ i[1] = "tapdn" /\ i[2] \in room
      BY <1>1
    <3>2. i = <<"tapdn", i[2]>>
      BY <3>1 DEF Rings
    <3> QED
      BY <2>1, <3>1, <3>2
  <2>6. m \in Bijection(room, D)
    BY <2>4, <2>5 DEF Bijection, Injection, Surjection, IsInjective
  <2>7. IsFiniteSet(room)
    BY <2>2, PlaceAssumption, FS_Subset
  <2>8. ExistsBijection(room, D)
    BY <2>6 DEF ExistsBijection
  <2> QED
    BY <2>7, <2>8, FS_Bijection
<1> QED
  BY <1>5, <1>6, <1>7, <1>11, <1>12 DEF InRings, room, u

LEMMA TapDownAccounted ==
  ASSUME Accounted, NEW f, TapDown(f)
  PROVE  Accounted'
<1>1. PICK g : g = Received(f, SelfPort, 0)
  OBVIOUS
<1>2. IsFrame(g) /\ g # Null
  BY <1>1, ReceivedFrame, FrameIsNotNull
<1>3. PICK F0, M : Kept(F0, M)
  BY DEF Accounted
<1>4. PICK F : F = F0 \cup {g}
  OBVIOUS
<1>5. Kept(F, M)
  <2>1. \A h \in F : IsFrame(h)
    BY <1>2, <1>3, <1>4, KeptFacts
  <2> QED
    BY <1>3, <1>4, <2>1, KeptGrows
<1>6. ring \in RingsOf(F) /\ InPorts(rx, tx) \in Nat /\ InRings(ring) \in Nat
  BY <1>5, KeptFacts
<1>7. /\ rx' = rx /\ tx' = tx /\ msgs' = msgs /\ scene' = scene /\ stopped' = stopped
  BY DEF TapDown, Rib
<1>8. pool \in Nat /\ lost \in Nat
  BY DEF Accounted
<1>9. Cardinality(Port) \in Nat
  BY PlaceAssumption, FS_CardinalityType
<1>10. CASE pool < Cardinality(Port)
  <2>1. fault' = TRUE /\ pool' = pool /\ ring' = ring /\ lost' = lost
    BY <1>10 DEF TapDown
  <2>2. Kept(F, M)' /\ Total' = Total
    BY <1>5, <1>7, <2>1 DEF Kept, Total
  <2>3. \E G, N : Kept(G, N)'
    BY <2>2
  <2> QED
    BY <1>7, <1>8, <2>1, <2>2, <2>3, Settled DEF Accounted
<1>11. CASE ~(pool < Cardinality(Port))
  <2>1. PICK room : room = {p \in Port : Len(ring[<<"tapdn", p>>]) < RingSize}
    OBVIOUS
  <2>2. PICK u : u = [i \in Rings |-> IF i[1] = "tapdn" /\ i[2] \in room
                                      THEN Append(ring[i], g) ELSE ring[i]]
    OBVIOUS
  <2>3. /\ pool' = pool - Cardinality(Port) /\ ring' = u
        /\ lost' = lost + Cardinality(Port \ room) /\ fault' = fault
    BY <1>1, <1>11, <2>1, <2>2 DEF TapDown
  <2>4. u \in RingsOf(F) /\ InRings(u) = InRings(ring) + Cardinality(room)
    <3>1. PICK r \in RingsOf(F) : r = ring
      BY <1>6
    <3>2. g \in F /\ room = Room(r) /\ u = TappedDown(r, g)
      BY <1>4, <2>1, <2>2, <3>1 DEF Room, TappedDown
    <3>3. /\ TappedDown(r, g) \in RingsOf(F)
          /\ InRings(TappedDown(r, g)) = InRings(r) + Cardinality(Room(r))
      BY <1>2, <3>2, TapDownRings
    <3> QED
      BY <3>1, <3>2, <3>3
  <2>5. /\ Cardinality(room) \in Nat /\ Cardinality(Port \ room) \in Nat
        /\ Cardinality(Port) = Cardinality(room) + Cardinality(Port \ room)
    <3>1. IsFiniteSet(Port) /\ room \in SUBSET Port
      BY <2>1, PlaceAssumption
    <3>2. IsFiniteSet(room) /\ IsFiniteSet(Port \ room) /\ Port \cap room = room
      BY <3>1, FS_Subset
    <3>3. Cardinality(Port \ room) = Cardinality(Port) - Cardinality(Port \cap room)
      BY <3>1, FS_Difference
    <3>4. Cardinality(room) \in Nat /\ Cardinality(Port \ room) \in Nat
      BY <3>2, FS_CardinalityType
    <3> QED
      BY <1>9, <3>2, <3>3, <3>4
  <2>6. pool' \in Nat /\ lost' \in Nat
    BY <1>8, <1>9, <1>11, <2>3, <2>5
  <2>7. Kept(F, M)'
    BY <1>5, <1>7, <2>3, <2>4 DEF Kept
  <2>8. Total' = Total
    <3>1. Total' = pool' + InPorts(rx, tx) + InRings(u) + lost'
      BY <1>7, <2>3 DEF Total
    <3>2. Total = pool + InPorts(rx, tx) + InRings(ring) + lost
      BY DEF Total
    <3>3. PICK a, b, c, d, x, y, n, m, k :
            /\ a = pool /\ b = lost /\ c = Cardinality(room) /\ d = Cardinality(Port \ room)
            /\ x = InPorts(rx, tx) /\ y = InRings(ring) /\ n = pool' /\ m = lost'
            /\ k = InRings(u)
      OBVIOUS
    <3>4. a \in Nat /\ b \in Nat /\ c \in Nat /\ d \in Nat /\ x \in Nat /\ y \in Nat
      BY <1>6, <1>8, <2>5, <3>3
    <3>5. n = a - (c + d) /\ m = b + d /\ k = y + c
      BY <2>3, <2>4, <2>5, <3>3
    <3>6. n + x + k + m = a + x + y + b
      BY <3>4, <3>5
    <3> QED
      BY <3>1, <3>2, <3>3, <3>6
  <2>9. \E G, N : Kept(G, N)'
    BY <2>7
  <2> QED
    BY <1>7, <2>3, <2>6, <2>8, <2>9, Settled DEF Accounted
<1> QED
  BY <1>10, <1>11

\* The steps of the managers and of the reconfiguration move no buffer.
LEMMA QuietStep ==
  ASSUME Accounted, scene' = scene, stopped' \subseteq Port, fault' = fault,
         pool' = pool, lost' = lost, rx' = rx, tx' = tx, ring' = ring,
         msgs' = msgs \/ (msgs # <<>> /\ msgs' = Tail(msgs))
  PROVE  Accounted'
<1>1. PICK F, M : Kept(F, M)
  BY DEF Accounted
<1>2. msgs' \in MsgsOf(M)
  <2>1. msgs \in Seq(M) /\ Len(msgs) <= QueueSize /\ QueueSize \in Nat
    BY <1>1, SizeAssumption DEF Kept, MsgsOf
  <2>2. CASE msgs' = msgs
    BY <2>1, <2>2 DEF MsgsOf
  <2>3. CASE msgs # <<>> /\ msgs' = Tail(msgs)
    <3>1. Tail(msgs) \in Seq(M) /\ Len(Tail(msgs)) = Len(msgs) - 1 /\ Len(msgs) \in Nat
      BY <2>1, <2>3
    <3>2. Len(Tail(msgs)) <= QueueSize
      BY <2>1, <3>1
    <3> QED
      BY <2>3, <3>1, <3>2 DEF MsgsOf
  <2> QED
    BY <2>2, <2>3
<1>3. Kept(F, M)'
  BY <1>1, <1>2 DEF Kept
<1>4. Total' = Total
  BY DEF Total
<1>5. \E G, N : Kept(G, N)'
  BY <1>3
<1> QED
  BY <1>4, <1>5, Settled DEF Accounted

LEMMA InputAccounted ==
  ASSUME Accounted, Input
  PROVE  Accounted'
<1>0. scene \in DOMAIN Scene /\ stopped \subseteq Port
  BY DEF Accounted
<1>1. ASSUME NEW m \in Scene[scene].rx \cup Scene[scene].flow \cup Scene[scene].answer,
             Arrive(m.port, m.fr)
      PROVE  Accounted'
  <2>1. m.port \in Port
    BY <1>0, SceneAssumption
  <2> QED
    BY <1>1, <2>1, ArriveAccounted
<1>2. ASSUME NEW m \in Scene[scene].rx, Receive(m.port, m.fr) PROVE Accounted'
  BY <1>1, <1>2 DEF Receive
<1>3. CASE Flow
  BY <1>1, <1>3 DEF Flow, Receive
<1>4. CASE Answers
  BY <1>1, <1>4 DEF Answers, Answer
<1>5. ASSUME NEW f, TapDown(f) PROVE Accounted'
  BY <1>5, TapDownAccounted
<1>6. ASSUME NEW f, NEW s \in Slot, L3Down(s, f) PROVE Accounted'
  BY <1>6, L3DownAccounted
<1>7. ASSUME NEW p \in Port, StopPort(p) PROVE Accounted'
  <2>1. /\ stopped' \subseteq Port /\ scene' = scene /\ fault' = fault /\ pool' = pool
        /\ lost' = lost /\ rx' = rx /\ tx' = tx /\ ring' = ring /\ msgs' = msgs
    BY <1>0, <1>7 DEF StopPort
  <2> QED
    BY <2>1, QuietStep
<1>8. ASSUME NEW h, Forget(h) PROVE Accounted'
  <2>1. /\ stopped' \subseteq Port /\ scene' = scene /\ fault' = fault /\ pool' = pool
        /\ lost' = lost /\ rx' = rx /\ tx' = tx /\ ring' = ring /\ msgs' = msgs
    BY <1>0, <1>8 DEF Forget
  <2> QED
    BY <2>1, QuietStep
<1>9. CASE Quiet
  <2>1. /\ stopped' \subseteq Port /\ scene' = scene /\ fault' = fault /\ pool' = pool
        /\ lost' = lost /\ rx' = rx /\ tx' = tx /\ ring' = ring /\ msgs' = msgs
    BY <1>0, <1>9 DEF Quiet, Rib
  <2> QED
    BY <2>1, QuietStep
<1> QED
  BY <1>2, <1>3, <1>4, <1>5, <1>6, <1>7, <1>8, <1>9 DEF Input

LEMMA ThreadsAccounted ==
  ASSUME Accounted, Threads
  PROVE  Accounted'
<1>0. stopped \subseteq Port
  BY DEF Accounted
<1>1. ASSUME NEW p \in Port, WorkerRx(p) \/ Flush(p) \/ TapUp(p) PROVE Accounted'
  BY <1>1, WorkerRxAccounted, FlushAccounted, TapUpAccounted
<1>2. ASSUME NEW p \in Port, NEW taken \in BOOLEAN, WorkerTxRaw(p, taken) PROVE Accounted'
  BY <1>2, WorkerTxRawAccounted
<1>3. ASSUME NEW s \in Slot, WorkerTx(s) PROVE Accounted'
  BY <1>3, WorkerTxAccounted
<1>4. ASSUME NEW i \in Rings, L3Up(i) PROVE Accounted'
  BY <1>4, L3UpAccounted
<1>5. CASE AppRead
  BY <1>5, AppReadAccounted
<1>6. CASE Handle
  <2>1. /\ stopped' = stopped /\ scene' = scene /\ fault' = fault /\ pool' = pool
        /\ lost' = lost /\ rx' = rx /\ tx' = tx /\ ring' = ring
        /\ msgs # <<>> /\ msgs' = Tail(msgs)
    BY <1>6 DEF Handle
  <2> QED
    BY <1>0, <2>1, QuietStep
<1>7. ASSUME NEW p \in Port, StopPort(p) \/ StartPort(p) PROVE Accounted'
  <2>1. /\ stopped' \subseteq Port /\ scene' = scene /\ fault' = fault /\ pool' = pool
        /\ lost' = lost /\ rx' = rx /\ tx' = tx /\ ring' = ring /\ msgs' = msgs
    BY <1>0, <1>7 DEF StopPort, StartPort
  <2> QED
    BY <2>1, QuietStep
<1>8. CASE Restart
  BY <1>7, <1>8 DEF Restart
<1> QED
  BY <1>1, <1>2, <1>3, <1>4, <1>5, <1>6, <1>8 DEF Threads

\* For any number of ports and vswitches, any configuration, any size of the
\* pool, of the rings and of the transmit buffers, and each of the six worker
\* programs: no buffer is lost or freed twice, whichever copy, ring or
\* allocation fails, and no queue grows past the code's array for it.
THEOREM EveryBufferIsAccountedFor == Spec => []BuffersAccounted
<1>1. Init => Accounted
  BY InitAccounted
<1>2. Accounted /\ [Next]_vars => Accounted'
  <2> SUFFICES ASSUME Accounted, [Next]_vars PROVE Accounted'
    OBVIOUS
  <2>1. CASE Next
    BY <2>1, InputAccounted, ThreadsAccounted DEF Next
  <2>2. CASE UNCHANGED vars
    <3>1. /\ stopped' \subseteq Port /\ scene' = scene /\ fault' = fault /\ pool' = pool
          /\ lost' = lost /\ rx' = rx /\ tx' = tx /\ ring' = ring /\ msgs' = msgs
      BY <2>2 DEF vars, Accounted
    <3> QED
      BY <3>1, QuietStep
  <2> QED
    BY <2>1, <2>2
<1>3. Accounted => BuffersAccounted
  BY AccountedEstablishes
<1> QED
  BY <1>1, <1>2, <1>3, PTL DEF Spec

-----------------------------------------------------------------------------
(* Where frames go.  What a program sends for one frame: no two copies on  *)
(* one link, none back on the link back, unless the worker generated it,   *)
(* and, if the program keeps vswitches apart, none outside the frame's     *)
(* vswitch but along a route.                                              *)

Whole(f) ==
  {"src", "dst", "tag", "kind", "ip", "ttl", "segs", "port", "vs"} \subseteq DOMAIN f

RoutedIn(r, f, l) ==
  \E s \in Slot, k \in DOMAIN r.route :
    /\ r.vs[s].id = r.link[l].vs /\ r.route[k].oif = r.vs[s].rif.ifindex
    /\ f.src = r.vs[s].rif.mac
    /\ f.kind \in IPv4 \cup IPv6 => f.ttl > 0

\* The frame may be on the link.
Belongs(r, f, l) ==
  r.link[l].vs = f.vs \/ (RoutedIn(r, f, l) /\ f.dst \in Range(r.neigh))

Proper(r, back, apart, x) ==
  /\ x.to = "link" =>
       /\ x.at \in DOMAIN r.link /\ x.fr.tag = r.link[x.at].tag
       /\ x.at = back => x.fr.port = SelfPort
       /\ apart => Belongs(r, x.fr, x.at)
  /\ apart => x.to # "port"
  /\ apart /\ x.to \in {"router_if", "ring", "raw"} =>
       \A s \in Slot : x.at \in {<<"up", s>>, <<"cap", s>>} => x.fr.vs = r.vs[s].id

OnceEach(e) ==
  \A i, j \in 1 .. Len(e) :
    e[i].to = "link" /\ e[j].to = "link" /\ e[i].at = e[j].at => i = j

Sends(r, back, apart, e) ==
  (\E X : e \in Seq(X) /\ \A x \in X : Proper(r, back, apart, x)) /\ OnceEach(e)

\* ... and what goes to rings and managers only.
SendsUp(r, back, apart, e) ==
  \E X : e \in Seq(X) /\ \A x \in X : Proper(r, back, apart, x) /\ x.to # "link"

LEMMA UpIsSent ==
  ASSUME NEW r, NEW back, NEW apart, NEW e, SendsUp(r, back, apart, e)
  PROVE  Sends(r, back, apart, e)
<1>1. PICK X : e \in Seq(X) /\ \A x \in X : Proper(r, back, apart, x) /\ x.to # "link"
  BY DEF SendsUp
<1>2. \A i \in 1 .. Len(e) : e[i].to # "link"
  BY <1>1
<1> QED
  BY <1>1, <1>2 DEF Sends, OnceEach

LEMMA NothingSent ==
  ASSUME NEW r, NEW back, NEW apart
  PROVE  SendsUp(r, back, apart, <<>>) /\ Sends(r, back, apart, <<>>)
<1>1. PICK X : X = {}
  OBVIOUS
<1>2. <<>> \in Seq(X) /\ \A x \in X : Proper(r, back, apart, x) /\ x.to # "link"
  BY <1>1
<1>3. SendsUp(r, back, apart, <<>>)
  BY <1>2 DEF SendsUp
<1> QED
  BY <1>3, UpIsSent

LEMMA OneSent ==
  ASSUME NEW r, NEW back, NEW apart, NEW to, NEW at, NEW f,
         Proper(r, back, apart, [to |-> to, at |-> at, fr |-> f])
  PROVE  /\ Sends(r, back, apart, Emission(to, at, f))
         /\ to # "link" => SendsUp(r, back, apart, Emission(to, at, f))
<1> DEFINE x == [to |-> to, at |-> at, fr |-> f]
<1>1. x.to = to /\ <<x>> \in Seq({x}) /\ Len(<<x>>) = 1
  OBVIOUS
<1> HIDE DEF x
<1>2. Emission(to, at, f) = <<x>> /\ Proper(r, back, apart, x)
  BY DEF Emission, x
<1>3. PICK X : X = {x}
  OBVIOUS
<1>4. <<x>> \in Seq(X) /\ \A u \in X : Proper(r, back, apart, u) /\ u.to = to
  BY <1>1, <1>2, <1>3
<1>5. OnceEach(<<x>>)
  BY <1>1 DEF OnceEach
<1> QED
  BY <1>2, <1>4, <1>5 DEF Sends, SendsUp

\* Only one of the parts of what a program sends goes to links.
LEMMA SentAround ==
  ASSUME NEW r, NEW back, NEW apart, NEW d, NEW e, SendsUp(r, back, apart, d),
         Sends(r, back, apart, e)
  PROVE  Sends(r, back, apart, d \o e) /\ Sends(r, back, apart, e \o d)
<1>1. PICK X : d \in Seq(X) /\ \A x \in X : Proper(r, back, apart, x) /\ x.to # "link"
  BY DEF SendsUp
<1>2. PICK Y : e \in Seq(Y) /\ \A x \in Y : Proper(r, back, apart, x)
  BY DEF Sends
<1>3. PICK Z : Z = X \cup Y
  OBVIOUS
<1>4. d \in Seq(Z) /\ e \in Seq(Z) /\ \A x \in Z : Proper(r, back, apart, x)
  BY <1>1, <1>2, <1>3
<1>5. PICK m \in Nat, n \in Nat : m = Len(d) /\ n = Len(e)
  BY <1>4
<1>6. \A i \in 1 .. m : d[i].to # "link"
  BY <1>1, <1>5
<1>7. \A i, j \in 1 .. n : e[i].to = "link" /\ e[j].to = "link" /\ e[i].at = e[j].at => i = j
  BY <1>5 DEF Sends, OnceEach
<1>8. PICK g \in Seq(Z) : g = d \o e
  BY <1>4, ConcatProperties
<1>9. PICK h \in Seq(Z) : h = e \o d
  BY <1>4, ConcatProperties
<1>10. /\ Len(g) = m + n /\ \A i \in 1 .. m : g[i] = d[i]
       /\ \A i \in m + 1 .. m + n : g[i] = e[i - m]
  BY <1>4, <1>5, <1>8
<1>11. /\ Len(h) = m + n /\ \A i \in 1 .. n : h[i] = e[i]
       /\ \A i \in n + 1 .. n + m : h[i] = d[i - n]
  BY <1>4, <1>5, <1>9
<1>12. OnceEach(g)
  <2> SUFFICES ASSUME NEW i \in 1 .. m + n, NEW j \in 1 .. m + n,
                      g[i].to = "link", g[j].to = "link", g[i].at = g[j].at
               PROVE  i = j
    BY <1>10 DEF OnceEach
  <2>1. i \in m + 1 .. m + n /\ j \in m + 1 .. m + n
    BY <1>6, <1>10
  <2>2. i - m \in 1 .. n /\ j - m \in 1 .. n /\ g[i] = e[i - m] /\ g[j] = e[j - m]
    BY <1>10, <2>1
  <2>3. i - m = j - m
    BY <1>7, <2>2
  <2> QED
    BY <2>1, <2>3
<1>13. OnceEach(h)
  <2> SUFFICES ASSUME NEW i \in 1 .. m + n, NEW j \in 1 .. m + n,
                      h[i].to = "link", h[j].to = "link", h[i].at = h[j].at
               PROVE  i = j
    BY <1>11 DEF OnceEach
  <2>1. \A k \in n + 1 .. n + m : h[k].to # "link"
    <3> SUFFICES ASSUME NEW k \in n + 1 .. n + m PROVE h[k].to # "link"
      OBVIOUS
    <3>1. k - n \in 1 .. m /\ h[k] = d[k - n]
      BY <1>11
    <3> QED
      BY <1>6, <3>1
  <2>2. i \in 1 .. n /\ j \in 1 .. n
    BY <2>1
  <2> QED
    BY <1>7, <1>11, <2>2
<1> QED
  BY <1>4, <1>8, <1>9, <1>12, <1>13 DEF Sends

LEMMA UpConcat ==
  ASSUME NEW r, NEW back, NEW apart, NEW d, NEW e, SendsUp(r, back, apart, d),
         SendsUp(r, back, apart, e)
  PROVE  SendsUp(r, back, apart, d \o e)
<1>1. PICK X : d \in Seq(X) /\ \A x \in X : Proper(r, back, apart, x) /\ x.to # "link"
  BY DEF SendsUp
<1>2. PICK Y : e \in Seq(Y) /\ \A x \in Y : Proper(r, back, apart, x) /\ x.to # "link"
  BY DEF SendsUp
<1>3. d \in Seq(X \cup Y) /\ e \in Seq(X \cup Y)
  BY <1>1, <1>2
<1>4. d \o e \in Seq(X \cup Y)
  BY <1>3
<1>5. \A x \in X \cup Y : Proper(r, back, apart, x) /\ x.to # "link"
  BY <1>1, <1>2
<1> QED
  BY <1>4, <1>5 DEF SendsUp

\* The links of a vswitch one after the other, each listed once.
LEMMA EachLinkOnce ==
  ASSUME NEW r, NEW back, NEW apart, NEW L \in Seq(DOMAIN r.link),
         \A i, j \in DOMAIN L : L[i] = L[j] => i = j,
         NEW d, d = [i \in DOMAIN L |-> d[i]],
         \A i \in DOMAIN L :
           d[i] = <<>> \/ \E x : /\ d[i] = <<x>> /\ x.to = "link" /\ x.at = L[i]
                                 /\ Proper(r, back, apart, x)
  PROVE  Sends(r, back, apart, FlattenSeq(d))
<1>1. PICK n \in Nat : DOMAIN L = 1 .. n
  BY LenProperties
<1>2. PICK X : X = UNION {ToSet(d[i]) : i \in 1 .. n}
  OBVIOUS
<1>3. ASSUME NEW i \in 1 .. n
      PROVE  /\ d[i] \in Seq(X)
             /\ \A x \in ToSet(d[i]) : x.to = "link" /\ x.at = L[i] /\ Proper(r, back, apart, x)
             /\ d[i] = <<>> \/ \E x \in X : d[i] = <<x>> /\ x.at = L[i]
  <2>1. CASE d[i] = <<>>
    <3>1. <<>> \in Seq(X) /\ ToSet(<<>>) = {}
      BY DEF ToSet
    <3> QED
      BY <2>1, <3>1
  <2>2. CASE d[i] # <<>>
    <3>1. PICK x : d[i] = <<x>> /\ x.to = "link" /\ x.at = L[i] /\ Proper(r, back, apart, x)
      BY <1>1, <2>2
    <3>2. ToSet(<<x>>) = {x}
      BY DEF ToSet
    <3>3. ToSet(d[i]) \subseteq X /\ x \in X
      BY <1>2, <3>1, <3>2
    <3>4. <<x>> \in Seq(X)
      BY <3>3
    <3> QED
      BY <3>1, <3>2, <3>3, <3>4
  <2> QED
    BY <2>1, <2>2
<1>4. d \in [1 .. n -> Seq(X)]
  BY <1>1, <1>3
<1>5. \A x \in X : Proper(r, back, apart, x)
  <2> SUFFICES ASSUME NEW x \in X PROVE Proper(r, back, apart, x)
    OBVIOUS
  <2>1. PICK i \in 1 .. n : x \in ToSet(d[i])
    BY <1>2
  <2> QED
    BY <1>3, <2>1
<1>6. PICK Good : Good = [i \in 1 .. n |->
          {s \in Seq(X) : /\ \A k \in 1 .. Len(s) : \E m \in 1 .. i : s[k].at = L[m]
                          /\ \A k, j \in 1 .. Len(s) : s[k].at = s[j].at => k = j}]
  OBVIOUS
<1>6a. ASSUME NEW i \in 1 .. n, NEW s \in Seq(X)
       PROVE  s \in Good[i] <=>
                /\ \A k \in 1 .. Len(s) : \E m \in 1 .. i : s[k].at = L[m]
                /\ \A k, j \in 1 .. Len(s) : s[k].at = s[j].at => k = j
  BY <1>6
<1>6b. PICK e : e = FlattenSeq(d)
  OBVIOUS
<1>6c. e \in Seq(X) /\ OnceEach(e) => Sends(r, back, apart, e)
  BY <1>5 DEF Sends
<1>7. CASE n = 0
  <2>1. e \in Seq(X)
    BY <1>4, <1>6b, FlattenSeqType
  <2>2. X = {}
    BY <1>2, <1>7
  <2>3. Len(e) = 0
    BY <2>1, <2>2
  <2>4. OnceEach(e)
    BY <2>3 DEF OnceEach
  <2> QED
    BY <1>6b, <1>6c, <2>1, <2>4
<1>8. CASE n # 0
  <2>1. n \in Nat \ {0} /\ Good \in [1 .. n -> SUBSET Seq(X)]
    BY <1>6, <1>8
  <2>2. d[1] \in Good[1]
    <3>1. 1 \in 1 .. n
      BY <2>1
    <3>2. d[1] \in Seq(X) /\ (d[1] = <<>> \/ \E x \in X : d[1] = <<x>> /\ x.at = L[1])
      BY <1>3, <3>1
    <3>3. /\ \A k \in 1 .. Len(d[1]) : \E m \in 1 .. 1 : d[1][k].at = L[m]
          /\ \A k, j \in 1 .. Len(d[1]) : d[1][k].at = d[1][j].at => k = j
      BY <3>2
    <3> QED
      BY <1>6, <3>1, <3>2, <3>3
  <2>3. ASSUME NEW i \in 2 .. n, NEW s \in Good[i - 1] PROVE s \o d[i] \in Good[i]
    <3>1. i \in 1 .. n /\ i - 1 \in 1 .. n /\ i \in Nat
      BY <2>1
    <3>2. /\ s \in Seq(X)
          /\ \A k \in 1 .. Len(s) : \E m \in 1 .. i - 1 : s[k].at = L[m]
          /\ \A k, j \in 1 .. Len(s) : s[k].at = s[j].at => k = j
      BY <1>6, <3>1
    <3>3. CASE d[i] = <<>>
      <4>1. s \o d[i] = s
        BY <3>2, <3>3, ConcatEmptySeq
      <4>2. \A k \in 1 .. Len(s) : \E m \in 1 .. i : s[k].at = L[m]
        BY <3>1, <3>2
      <4>3. s \in Good[i]
        BY <1>6a, <3>1, <3>2, <4>2
      <4> QED
        BY <4>1, <4>3
    <3>4. CASE d[i] # <<>>
      <4>1. PICK x \in X : d[i] = <<x>> /\ x.at = L[i]
        BY <1>3, <3>1, <3>4
      <4>2. PICK g : g = s \o <<x>>
        OBVIOUS
      <4>3. PICK l \in Nat : l = Len(s)
        BY <3>2
      <4>4. /\ g \in Seq(X) /\ Len(g) = l + 1 /\ g[l + 1] = x
            /\ \A k \in 1 .. l : g[k] = s[k]
        BY <3>2, <4>2, <4>3
      <4>5. \A k \in 1 .. l : s[k].at # L[i]
        <5> SUFFICES ASSUME NEW k \in 1 .. l, s[k].at = L[i] PROVE FALSE
          OBVIOUS
        <5>1. PICK m \in 1 .. i - 1 : s[k].at = L[m]
          BY <3>2, <4>3
        <5>2. m \in 1 .. n /\ L[m] = L[i]
          BY <3>1, <5>1
        <5>3. m = i
          BY <1>1, <3>1, <5>2
        <5> QED
          BY <3>1, <5>1, <5>3
      <4>6. \A k \in 1 .. Len(g) : \E m \in 1 .. i : g[k].at = L[m]
        <5> SUFFICES ASSUME NEW k \in 1 .. l + 1 PROVE \E m \in 1 .. i : g[k].at = L[m]
          BY <4>4
        <5>1. CASE k = l + 1
          BY <3>1, <4>1, <4>4, <5>1
        <5>2. CASE k # l + 1
          <6>1. k \in 1 .. l /\ g[k] = s[k]
            BY <4>4, <5>2
          <6>2. PICK m \in 1 .. i - 1 : s[k].at = L[m]
            BY <3>2, <4>3, <6>1
          <6>3. m \in 1 .. i
            BY <3>1
          <6> QED
            BY <6>1, <6>2, <6>3
        <5> QED
          BY <5>1, <5>2
      <4>7. \A k, j \in 1 .. Len(g) : g[k].at = g[j].at => k = j
        <5> SUFFICES ASSUME NEW k \in 1 .. l + 1, NEW j \in 1 .. l + 1, g[k].at = g[j].at
                     PROVE  k = j
          BY <4>4
        <5>1. \A q \in 1 .. l : g[q].at = s[q].at /\ g[q].at # L[i]
          BY <4>4, <4>5
        <5>2. g[l + 1].at = L[i]
          BY <4>1, <4>4
        <5>3. (k \in 1 .. l \/ k = l + 1) /\ (j \in 1 .. l \/ j = l + 1)
          BY <4>3
        <5> QED
          BY <3>2, <4>3, <5>1, <5>2, <5>3
      <4> QED
        BY <1>6a, <3>1, <4>1, <4>2, <4>4, <4>6, <4>7
    <3> QED
      BY <3>3, <3>4
  <2>3a. \A i \in 2 .. n : \A s \in Good[i - 1] : s \o d[i] \in Good[i]
    BY <2>3
  <2>3b. FlattenSeq(d) \in Good[n]
    BY <1>4, <2>1, <2>2, <2>3a, FlattenSeqSteps
  <2>4. e \in Good[n] /\ n \in 1 .. n
    BY <1>6b, <2>1, <2>3b
  <2>5. e \in Seq(X)
    BY <2>1, <2>4
  <2>6. \A k, j \in 1 .. Len(e) : e[k].at = e[j].at => k = j
    BY <1>6a, <2>4, <2>5
  <2>7. OnceEach(e)
    BY <2>6 DEF OnceEach
  <2> QED
    BY <1>6b, <1>6c, <2>5, <2>7
<1> QED
  BY <1>7, <1>8

\* The VLAN header is replaced, nothing else.
LEMMA TaggedFrame ==
  ASSUME NEW f, Whole(f), NEW tag
  PROVE  LET g == [f EXCEPT !.tag = tag] IN
         /\ Whole(g) /\ g.tag = tag /\ g.src = f.src /\ g.dst = f.dst /\ g.kind = f.kind
         /\ g.ttl = f.ttl /\ g.port = f.port /\ g.vs = f.vs
BY DEF Whole

\* What _send_link gives for a frame that may be on the link: nothing on the
\* link to split, and otherwise nothing back but what the worker generated.
LEMMA SendLinkSent ==
  ASSUME NEW r, IsRib(r), NEW back, NEW apart \in BOOLEAN, NEW split,
         NEW l \in DOMAIN r.link, NEW f, Whole(f), apart => Belongs(r, f, l),
         split = l \/ l # back \/ f.port = SelfPort
  PROVE  /\ SendLink(r, split, l, f) = <<>> \/
              \E x : /\ SendLink(r, split, l, f) = <<x>> /\ x.to = "link" /\ x.at = l
                     /\ Proper(r, back, apart, x)
         /\ Sends(r, back, apart, SendLink(r, split, l, f))
<1>1. PICK g : g = [f EXCEPT !.tag = r.link[l].tag]
  OBVIOUS
<1>2. /\ g.tag = r.link[l].tag /\ g.src = f.src /\ g.dst = f.dst /\ g.kind = f.kind
      /\ g.ttl = f.ttl /\ g.port = f.port /\ g.vs = f.vs
  BY <1>1, TaggedFrame
<1>3. Belongs(r, f, l) => Belongs(r, g, l)
  BY <1>2 DEF Belongs, RoutedIn
<1>4. PICK x : x = [to |-> "link", at |-> l, fr |-> g]
  OBVIOUS
<1>5. x.to = "link" /\ x.at = l /\ x.fr = g
  BY <1>4
<1>6. SendLink(r, split, l, f) = IF l = split \/ r.link[l].port \in r.down THEN <<>> ELSE <<x>>
  BY <1>1, <1>4 DEF SendLink, Emission
<1>7. l # split => Proper(r, back, apart, x)
  BY <1>2, <1>3, <1>5 DEF Proper
<1>8. l # split => Sends(r, back, apart, <<x>>)
  <2>1. <<x>> = Emission("link", l, g)
    BY <1>4 DEF Emission
  <2> QED
    BY <1>4, <1>7, <2>1, OneSent
<1>9. Sends(r, back, apart, <<>>)
  BY NothingSent
<1> QED
  BY <1>5, <1>6, <1>7, <1>8, <1>9

\* A frame of vswitch s for a ring of that vswitch, or of none.
LEMMA RingSent ==
  ASSUME NEW r, NEW back, NEW apart \in BOOLEAN, NEW to \in {"router_if", "ring", "raw"},
         NEW i, NEW f,
         apart => \A s \in Slot : i \in {<<"up", s>>, <<"cap", s>>} => f.vs = r.vs[s].id
  PROVE  SendsUp(r, back, apart, Emission(to, i, f))
<1>1. PICK x : x = [to |-> to, at |-> i, fr |-> f]
  OBVIOUS
<1>2. x.to = to /\ x.at = i /\ x.fr = f /\ to # "link" /\ to # "port"
  BY <1>1
<1>3. Proper(r, back, apart, x)
  BY <1>2 DEF Proper
<1> QED
  BY <1>1, <1>2, <1>3, OneSent

\* A frame that is on vswitch s.
On(r, s, apart, f) == Whole(f) /\ (apart => f.vs = r.vs[s].id)

LEMMA RouterIfSent ==
  ASSUME NEW r, NEW back, NEW apart \in BOOLEAN, NEW s \in Slot, NEW f, On(r, s, apart, f)
  PROVE  SendsUp(r, back, apart, RouterIf(r, s, f))
<1>1. PICK g : g = [f EXCEPT !.tag = r.vs[s].rif.vlan]
  OBVIOUS
<1>2. g.vs = f.vs
  BY <1>1, TaggedFrame DEF On
<1>3. apart => \A t \in Slot : <<"up", s>> \in {<<"up", t>>, <<"cap", t>>} => g.vs = r.vs[t].id
  BY <1>2 DEF On
<1>4. SendsUp(r, back, apart, Emission("router_if", <<"up", s>>, g))
  BY <1>3, RingSent
<1>5. SendsUp(r, back, apart, <<>>)
  BY NothingSent
<1> QED
  BY <1>1, <1>4, <1>5 DEF RouterIf

LEMMA CaptureSent ==
  ASSUME NEW r, NEW back, NEW apart \in BOOLEAN, NEW s \in Slot, NEW f, On(r, s, apart, f)
  PROVE  SendsUp(r, back, apart, Capture(r, s, f))
<1>1. apart => \A t \in Slot : <<"cap", s>> \in {<<"up", t>>, <<"cap", t>>} => f.vs = r.vs[t].id
  BY DEF On
<1>2. SendsUp(r, back, apart, Emission("ring", <<"cap", s>>, f))
  BY <1>1, RingSent
<1>3. SendsUp(r, back, apart, <<>>)
  BY NothingSent
<1> QED
  BY <1>2, <1>3 DEF Capture

LEMMA RawRingSent ==
  ASSUME NEW r, NEW back, NEW apart \in BOOLEAN, NEW open, NEW i, NEW f,
         apart => \A s \in Slot : i \in {<<"up", s>>, <<"cap", s>>} => f.vs = r.vs[s].id
  PROVE  SendsUp(r, back, apart, RawRing(open, i, f))
<1>1. SendsUp(r, back, apart, Emission("raw", i, f))
  BY RingSent
<1>2. SendsUp(r, back, apart, <<>>)
  BY NothingSent
<1> QED
  BY <1>1, <1>2 DEF RawRing

\* What concerns no frame: messages, buffers, a NULL that is followed.
LEMMA OtherSent ==
  ASSUME NEW r, NEW back, NEW apart, NEW to \in {"neigh", "alloc", "free", "null"},
         NEW at, NEW f
  PROVE  SendsUp(r, back, apart, Emission(to, at, f))
<1>1. PICK x : x = [to |-> to, at |-> at, fr |-> f]
  OBVIOUS
<1>2. x.to = to /\ to # "link" /\ to # "port" /\ to \notin {"router_if", "ring", "raw"}
  BY <1>1
<1>3. Proper(r, back, apart, x)
  BY <1>2 DEF Proper
<1> QED
  BY <1>1, <1>2, <1>3, OneSent

LEMMA ReportSent ==
  ASSUME NEW r, NEW back, NEW apart, NEW rif, NEW f
  PROVE  SendsUp(r, back, apart, Report(rif, f))
<1>1. PICK n : n = IF f.kind = "na" THEN 6 ELSE 4
  OBVIOUS
<1>2. SendsUp(r, back, apart, Emission("neigh", n, f)) /\ SendsUp(r, back, apart, <<>>)
  BY OtherSent, NothingSent
<1> QED
  BY <1>1, <1>2 DEF Report

\* The links of a vswitch.
LEMMA LinkFacts ==
  ASSUME NEW r, IsRib(r), IsConfigured(r), NEW s \in Slot
  PROVE  LET L == r.vs[s].links IN
         /\ L \in Seq(DOMAIN r.link) /\ 0 \notin DOMAIN r.link
         /\ \A i, j \in DOMAIN L : L[i] = L[j] => i = j
         /\ \A i \in DOMAIN L : L[i] \in DOMAIN r.link /\ r.link[L[i]].vs = r.vs[s].id
<1>1. PICK L : L = r.vs[s].links
  OBVIOUS
<1>2. L \in Seq(DOMAIN r.link) /\ 0 \notin DOMAIN r.link
  BY <1>1 DEF IsRib
<1>3. \A i \in DOMAIN L : /\ r.link[L[i]].vs = r.vs[s].id
                          /\ \A j \in DOMAIN L : L[j] = L[i] => j = i
  BY <1>1 DEF IsConfigured
<1>4. \A i \in DOMAIN L : L[i] \in DOMAIN r.link
  BY <1>2
<1> QED
  BY <1>1, <1>2, <1>3, <1>4

LEMMA LinkOnSent ==
  ASSUME NEW r, IsRib(r), IsConfigured(r), NEW s \in Slot, NEW ports, LinkOn(r, s, ports) # 0
  PROVE  /\ LinkOn(r, s, ports) \in DOMAIN r.link
         /\ r.link[LinkOn(r, s, ports)].vs = r.vs[s].id
<1>1. PICK L : L = r.vs[s].links
  OBVIOUS
<1>2. PICK hit : hit = {i \in DOMAIN L : r.link[L[i]].port \in ports}
  OBVIOUS
<1>3. L \in Seq(DOMAIN r.link)
      /\ \A i \in DOMAIN L : L[i] \in DOMAIN r.link /\ r.link[L[i]].vs = r.vs[s].id
  BY <1>1, LinkFacts
<1>4. hit \in SUBSET Nat /\ hit \in SUBSET (DOMAIN L)
  BY <1>2, <1>3
<1>5. LinkOn(r, s, ports) = IF hit = {} THEN 0 ELSE L[Min(hit)]
  BY <1>1, <1>2 DEF LinkOn
<1>6. Min(hit) \in DOMAIN L
  BY <1>4, <1>5, MinFacts
<1> QED
  BY <1>3, <1>5, <1>6

\* Nothing goes back that is not generated.
NotBack(split, back, f) == split = back \/ back = 0 \/ f.port = SelfPort

LEMMA FloodingSent ==
  ASSUME NEW r, IsRib(r), IsConfigured(r), NEW back, NEW apart \in BOOLEAN, NEW p, NEW split,
         NEW s \in Slot, NEW f, On(r, s, apart, f), NotBack(split, back, f)
  PROVE  Sends(r, back, apart, Flooding(r, p, split, s, f))
<1>1. PICK L : L = r.vs[s].links
  OBVIOUS
<1>2. PICK d : d = [i \in DOMAIN L |-> IF r.link[L[i]].port \in r.stopped THEN <<>>
                                       ELSE SendLink(r, split, L[i], f)]
  OBVIOUS
<1>3. /\ L \in Seq(DOMAIN r.link) /\ 0 \notin DOMAIN r.link
      /\ \A i, j \in DOMAIN L : L[i] = L[j] => i = j
      /\ \A i \in DOMAIN L : L[i] \in DOMAIN r.link /\ r.link[L[i]].vs = r.vs[s].id
  BY <1>1, LinkFacts
<1>4. ASSUME NEW i \in DOMAIN L
      PROVE  d[i] = <<>> \/ \E x : /\ d[i] = <<x>> /\ x.to = "link" /\ x.at = L[i]
                                   /\ Proper(r, back, apart, x)
  <2>1. PICK l \in DOMAIN r.link : l = L[i] /\ r.link[l].vs = r.vs[s].id
    BY <1>3
  <2>2. (apart => Belongs(r, f, l)) /\ Whole(f)
    BY <2>1 DEF On, Belongs
  <2>3. split = l \/ l # back \/ f.port = SelfPort
    BY <1>3 DEF NotBack
  <2>4. SendLink(r, split, l, f) = <<>> \/
          \E x : /\ SendLink(r, split, l, f) = <<x>> /\ x.to = "link" /\ x.at = l
                 /\ Proper(r, back, apart, x)
    BY <2>2, <2>3, SendLinkSent
  <2> QED
    BY <1>2, <2>1, <2>4
<1>5. d = [i \in DOMAIN L |-> d[i]]
  BY <1>2
<1>6. Sends(r, back, apart, FlattenSeq(d))
  BY <1>3, <1>4, <1>5, EachLinkOnce
<1>7. PICK up : up = IF p = SelfPort THEN <<>> ELSE RouterIf(r, s, f)
  OBVIOUS
<1>8. SendsUp(r, back, apart, up)
  BY <1>7, RouterIfSent, NothingSent
<1>9. Flooding(r, p, split, s, f) = FlattenSeq(d) \o up
  BY <1>1, <1>2, <1>7 DEF Flooding
<1> QED
  BY <1>6, <1>8, <1>9, SentAround

LEMMA SwitchingSent ==
  ASSUME NEW r, IsRib(r), IsConfigured(r), NEW back, NEW apart \in BOOLEAN, NEW p, NEW split,
         NEW s \in Slot, NEW f, On(r, s, apart, f), NotBack(split, back, f)
  PROVE  Sends(r, back, apart, Switching(r, p, split, s, f))
<1>1. PICK l : l = LinkOn(r, s, FdbPort(r, f.dst, r.vs[s].vlan))
  OBVIOUS
<1>2. l # 0 => Sends(r, back, apart, SendLink(r, split, l, f))
  <2> SUFFICES ASSUME l # 0 PROVE Sends(r, back, apart, SendLink(r, split, l, f))
    OBVIOUS
  <2>1. l \in DOMAIN r.link /\ r.link[l].vs = r.vs[s].id /\ 0 \notin DOMAIN r.link
    BY <1>1, LinkOnSent, LinkFacts
  <2>2. (apart => Belongs(r, f, l)) /\ Whole(f)
    BY <2>1 DEF On, Belongs
  <2>3. split = l \/ l # back \/ f.port = SelfPort
    BY <2>1 DEF NotBack
  <2> QED
    BY <2>1, <2>2, <2>3, SendLinkSent
<1>3. Sends(r, back, apart, Flooding(r, p, split, s, f)) /\ Sends(r, back, apart, <<>>)
  BY FloodingSent, NothingSent
<1>4. Switching(r, p, split, s, f) =
        IF r.vs[s].deleted THEN <<>>
        ELSE IF f.dst = Broadcast \/ l = 0 THEN Flooding(r, p, split, s, f)
        ELSE SendLink(r, split, l, f)
  BY <1>1 DEF Switching
<1> QED
  BY <1>2, <1>3, <1>4

LEMMA OthersSent ==
  ASSUME NEW r, IsRib(r), IsConfigured(r), NEW back, NEW apart \in BOOLEAN, NEW split,
         NEW s \in Slot, NEW skip, NEW f, On(r, s, apart, f), NotBack(split, back, f)
  PROVE  Sends(r, back, apart, SendOthers(r, s, split, skip, f))
<1>1. PICK L : L = r.vs[s].links
  OBVIOUS
<1>2. PICK d : d = [i \in DOMAIN L |->
                     IF L[i] = split \/ r.link[L[i]].port \in skip THEN <<>>
                     ELSE SendLink(r, 0, L[i], f)]
  OBVIOUS
<1>3. /\ L \in Seq(DOMAIN r.link) /\ 0 \notin DOMAIN r.link
      /\ \A i, j \in DOMAIN L : L[i] = L[j] => i = j
      /\ \A i \in DOMAIN L : L[i] \in DOMAIN r.link /\ r.link[L[i]].vs = r.vs[s].id
  BY <1>1, LinkFacts
<1>4. ASSUME NEW i \in DOMAIN L
      PROVE  d[i] = <<>> \/ \E x : /\ d[i] = <<x>> /\ x.to = "link" /\ x.at = L[i]
                                   /\ Proper(r, back, apart, x)
  <2>1. PICK l \in DOMAIN r.link : l = L[i] /\ r.link[l].vs = r.vs[s].id
    BY <1>3
  <2>2. (apart => Belongs(r, f, l)) /\ Whole(f)
    BY <2>1 DEF On, Belongs
  <2>3. l # split => 0 = l \/ l # back \/ f.port = SelfPort
    BY <1>3 DEF NotBack
  <2>4. l # split =>
          \/ SendLink(r, 0, l, f) = <<>>
          \/ \E x : /\ SendLink(r, 0, l, f) = <<x>> /\ x.to = "link" /\ x.at = l
                    /\ Proper(r, back, apart, x)
    <3> SUFFICES ASSUME l # split
                 PROVE  \/ SendLink(r, 0, l, f) = <<>>
                        \/ \E x : /\ SendLink(r, 0, l, f) = <<x>> /\ x.to = "link" /\ x.at = l
                                  /\ Proper(r, back, apart, x)
      OBVIOUS
    <3>1. PICK none : none = 0
      OBVIOUS
    <3>2. none = l \/ l # back \/ f.port = SelfPort
      BY <2>3, <3>1
    <3>3. /\ SendLink(r, none, l, f) = <<>> \/
               \E x : /\ SendLink(r, none, l, f) = <<x>> /\ x.to = "link" /\ x.at = l
                      /\ Proper(r, back, apart, x)
          /\ Sends(r, back, apart, SendLink(r, none, l, f))
      BY <2>2, <3>2, SendLinkSent
    <3> QED
      BY <3>1, <3>3
  <2>5. d[i] = IF l = split \/ r.link[l].port \in skip THEN <<>> ELSE SendLink(r, 0, l, f)
    BY <1>2, <2>1
  <2> QED
    BY <2>1, <2>4, <2>5
<1>5. d = [i \in DOMAIN L |-> d[i]]
  BY <1>2
<1>6. Sends(r, back, apart, FlattenSeq(d))
  BY <1>3, <1>4, <1>5, EachLinkOnce
<1>7. SendOthers(r, s, split, skip, f) = FlattenSeq(d)
  BY <1>1, <1>2 DEF SendOthers
<1> QED
  BY <1>6, <1>7

LEMMA RepeaterTxSent ==
  ASSUME NEW r, IsRib(r), IsConfigured(r), NEW apart \in BOOLEAN, NEW s \in Slot, NEW f,
         On(r, s, apart, f)
  PROVE  Sends(r, 0, apart, RepeaterTx(r, s, f))
<1>1. PICK L : L = r.vs[s].links
  OBVIOUS
<1>2. PICK d : d = [i \in DOMAIN L |->
                     IF r.link[L[i]].vs = r.vs[s].id THEN SendLink(r, 0, L[i], f) ELSE <<>>]
  OBVIOUS
<1>3. /\ L \in Seq(DOMAIN r.link) /\ 0 \notin DOMAIN r.link
      /\ \A i, j \in DOMAIN L : L[i] = L[j] => i = j
      /\ \A i \in DOMAIN L : L[i] \in DOMAIN r.link /\ r.link[L[i]].vs = r.vs[s].id
  BY <1>1, LinkFacts
<1>4. ASSUME NEW i \in DOMAIN L
      PROVE  d[i] = <<>> \/ \E x : /\ d[i] = <<x>> /\ x.to = "link" /\ x.at = L[i]
                                   /\ Proper(r, 0, apart, x)
  <2>1. PICK l \in DOMAIN r.link : l = L[i] /\ r.link[l].vs = r.vs[s].id
    BY <1>3
  <2>2. (apart => Belongs(r, f, l)) /\ Whole(f) /\ l # 0
    BY <1>3, <2>1 DEF On, Belongs
  <2>3. SendLink(r, 0, l, f) = <<>> \/
          \E x : /\ SendLink(r, 0, l, f) = <<x>> /\ x.to = "link" /\ x.at = l
                 /\ Proper(r, 0, apart, x)
    BY <2>2, SendLinkSent
  <2> QED
    BY <1>2, <2>1, <2>3
<1>5. d = [i \in DOMAIN L |-> d[i]]
  BY <1>2
<1>6. Sends(r, 0, apart, FlattenSeq(d))
  BY <1>3, <1>4, <1>5, EachLinkOnce
<1>7. RepeaterTx(r, s, f) = FlattenSeq(d)
  BY <1>1, <1>2 DEF RepeaterTx
<1> QED
  BY <1>6, <1>7

LEMMA SolicitSent ==
  ASSUME NEW r, IsRib(r), IsConfigured(r), NEW back, NEW apart \in BOOLEAN,
         NEW oif, NEW family, NEW ip
  PROVE  Sends(r, back, apart, Solicit(r, oif, family, ip))
<1>1. PICK s : s = FirstIn({x \in DOMAIN r.vs : r.vs[x].rif.ifindex = oif})
  OBVIOUS
<1>2. s \in Slot \cup {0}
  <2>1. PICK S : S = {x \in DOMAIN r.vs : r.vs[x].rif.ifindex = oif}
    OBVIOUS
  <2>2. S \in SUBSET (Nat \ {0}) /\ S \in SUBSET Slot
    BY <2>1, RibSlots
  <2>3. FirstIn(S) \in S \cup {0}
    BY <2>2, FirstInFacts
  <2> QED
    BY <1>1, <2>1, <2>2, <2>3
<1>3. PICK request :
        request = [src |-> r.vs[s].rif.mac, dst |-> Broadcast, tag |-> 0,
                   kind |-> IF family = 4 THEN "arp_request" ELSE "ns",
                   ip |-> ip, ttl |-> 2, segs |-> <<>>, port |-> SelfPort,
                   vs |-> r.vs[s].id]
  OBVIOUS
<1>4. Whole(request) /\ request.port = SelfPort /\ request.vs = r.vs[s].id
  BY <1>3 DEF Whole
<1>5. Solicit(r, oif, family, ip) =
        IF s = 0 THEN <<>>
        ELSE Emission("alloc", 0, request) \o Flooding(r, SelfPort, 0, s, request)
             \o Emission("free", 0, request)
  BY <1>1, <1>3, Zenon DEF Solicit
<1>6. CASE s = 0
  BY <1>5, <1>6, NothingSent
<1>7. CASE s # 0
  <2>1. On(r, s, apart, request) /\ NotBack(0, back, request)
    BY <1>4 DEF On, NotBack
  <2>2. Sends(r, back, apart, Flooding(r, SelfPort, 0, s, request))
    BY <1>2, <1>7, <2>1, FloodingSent
  <2>3. /\ SendsUp(r, back, apart, Emission("alloc", 0, request))
        /\ SendsUp(r, back, apart, Emission("free", 0, request))
    BY OtherSent
  <2>4. Sends(r, back, apart, Emission("alloc", 0, request) \o Flooding(r, SelfPort, 0, s, request))
    BY <2>2, <2>3, SentAround
  <2> QED
    BY <1>5, <1>7, <2>3, <2>4, SentAround
<1> QED
  BY <1>6, <1>7

LEMMA RewrittenFrame ==
  ASSUME NEW f, Whole(f), NEW rif, NEW mac,
         f.kind \in IPv4 \cup IPv6 => f.ttl \in Nat /\ f.ttl > 1
  PROVE  LET g == Rewritten(f, rif, mac) IN
         /\ Whole(g) /\ g.src = rif.mac /\ g.dst = mac /\ g.kind = f.kind
         /\ g.port = f.port /\ g.vs = f.vs
         /\ g.kind \in IPv4 \cup IPv6 => g.ttl > 0
<1>1. PICK ttl : ttl = IF f.kind \in IPv4 \cup IPv6 THEN f.ttl - 1 ELSE f.ttl
  OBVIOUS
<1>2. f.kind \in IPv4 \cup IPv6 => ttl > 0
  BY <1>1
<1>3. PICK g : g = [f EXCEPT !.ttl = ttl, !.src = rif.mac, !.dst = mac]
  OBVIOUS
<1>4. g = Rewritten(f, rif, mac)
  BY <1>1, <1>3 DEF Rewritten
<1>5. /\ Whole(g) /\ g.src = rif.mac /\ g.dst = mac /\ g.kind = f.kind
      /\ g.port = f.port /\ g.vs = f.vs /\ g.ttl = ttl
  BY <1>3 DEF Whole
<1> QED
  BY <1>2, <1>4, <1>5

\* _forwarding sends to a neighbour, from the router's address on its vswitch.
LEMMA ForwardSent ==
  ASSUME NEW r, IsRib(r), IsConfigured(r), NEW back, NEW apart \in BOOLEAN, NEW split,
         NEW s, NEW f, Whole(f), NotBack(split, back, f),
         f.kind \in IPv4 \cup IPv6 => f.ttl \in Nat /\ f.ttl > 1
  PROVE  Sends(r, back, apart, Forward(r, split, s, f))
<1>1. PICK family : family = IF f.kind \in IPv4 THEN 4 ELSE 6
  OBVIOUS
<1>2. PICK dst : dst = IF f.kind \in IPv4 \cup IPv6 THEN f.ip ELSE Unspecified
  OBVIOUS
<1>3. PICK nh : nh = r.route[<<family, dst>>]
  OBVIOUS
<1>4. PICK ip : ip = IF nh.connected THEN dst ELSE nh.gw
  OBVIOUS
<1>5. PICK mac : mac = r.neigh[<<family, ip>>]
  OBVIOUS
<1>6. PICK t : t = FirstIn({x \in DOMAIN r.vs : ~r.vs[x].deleted /\ r.vs[x].rif.ifindex = nh.oif})
  OBVIOUS
<1>7. PICK l : l = LinkOn(r, t, FdbPort(r, mac, r.vs[t].vlan))
  OBVIOUS
<1>8. PICK g : g = Rewritten(f, r.vs[t].rif, mac)
  OBVIOUS
<1>9. Forward(r, split, s, f) =
        IF <<family, dst>> \notin DOMAIN r.route THEN <<>>
        ELSE IF <<family, ip>> \notin DOMAIN r.neigh THEN Solicit(r, nh.oif, family, ip)
        ELSE IF t = 0 THEN <<>>
        ELSE IF l = 0 THEN <<>>
        ELSE IF r.link[l].port \in r.stopped THEN <<>>
        ELSE SendLink(r, split, l, g)
  BY <1>1, <1>2, <1>3, <1>4, <1>5, <1>6, <1>7, <1>8, ZenonT(60) DEF Forward
<1>10. t # 0 => t \in Slot /\ r.vs[t].rif.ifindex = nh.oif
  <2>1. PICK S : S = {x \in DOMAIN r.vs : ~r.vs[x].deleted /\ r.vs[x].rif.ifindex = nh.oif}
    OBVIOUS
  <2>2. S \in SUBSET (Nat \ {0}) /\ S \in SUBSET Slot
    BY <2>1, RibSlots
  <2>3. FirstIn(S) \in S \cup {0}
    BY <2>2, FirstInFacts
  <2> QED
    BY <1>6, <2>1, <2>2, <2>3
<1>11. /\ Whole(g) /\ g.src = r.vs[t].rif.mac /\ g.dst = mac /\ g.port = f.port
       /\ g.kind \in IPv4 \cup IPv6 => g.ttl > 0
  BY <1>8, RewrittenFrame
<1>12. Sends(r, back, apart, <<>>) /\ Sends(r, back, apart, Solicit(r, nh.oif, family, ip))
  BY NothingSent, SolicitSent
<1>13. ASSUME <<family, dst>> \in DOMAIN r.route, <<family, ip>> \in DOMAIN r.neigh, t # 0, l # 0
       PROVE  Sends(r, back, apart, SendLink(r, split, l, g))
  <2>1. l \in DOMAIN r.link /\ r.link[l].vs = r.vs[t].id
    BY <1>7, <1>10, <1>13, LinkOnSent
  <2>2. mac \in Range(r.neigh)
    BY <1>5, <1>13 DEF Range
  <2>3. RoutedIn(r, g, l)
    <3>1. PICK k \in DOMAIN r.route : k = <<family, dst>>
      BY <1>13
    <3>2. t \in Slot /\ r.vs[t].id = r.link[l].vs /\ r.route[k].oif = r.vs[t].rif.ifindex
      BY <1>3, <1>10, <1>13, <2>1, <3>1
    <3> QED
      BY <1>11, <3>2 DEF RoutedIn
  <2>4. Belongs(r, g, l)
    BY <1>11, <2>2, <2>3 DEF Belongs
  <2>5. 0 \notin DOMAIN r.link
    BY DEF IsRib
  <2>6. split = l \/ l # back \/ g.port = SelfPort
    BY <1>11, <2>1, <2>5 DEF NotBack
  <2> QED
    BY <1>11, <2>1, <2>4, <2>6, SendLinkSent
<1> QED
  BY <1>9, <1>12, <1>13

LEMMA Srv6Sent ==
  ASSUME NEW r, IsRib(r), IsConfigured(r), NEW back, NEW apart \in BOOLEAN, NEW from,
         NEW s, NEW f, Whole(f), f.kind \in IPv4 \cup IPv6 => f.ttl \in Nat /\ f.ttl > 1,
         back = IF AtLocalSid(r, f) THEN 0 ELSE from
  PROVE  Sends(r, back, apart, Srv6Forwarding(r, from, s, f))
<1>1. CASE f.kind \notin IPv6
  BY <1>1, OtherSent, UpIsSent DEF Srv6Forwarding
<1>2. CASE f.kind \in IPv6 /\ AtLocalSid(r, f)
  <2>1. PICK g : g = NextSegment(f)
    OBVIOUS
  <2>2. Whole(g) /\ g.ttl = f.ttl /\ g.kind = f.kind
    BY <2>1 DEF NextSegment, Whole
  <2>3. NotBack(0, back, g)
    BY <1>2 DEF NotBack
  <2>4. Sends(r, back, apart, Forward(r, 0, s, g))
    BY <2>2, <2>3, ForwardSent
  <2> QED
    BY <1>2, <2>1, <2>4 DEF Srv6Forwarding
<1>3. CASE f.kind \in IPv6 /\ ~AtLocalSid(r, f)
  <2>1. NotBack(from, back, f)
    BY <1>3 DEF NotBack
  <2>2. Sends(r, back, apart, Forward(r, from, s, f))
    BY <2>1, ForwardSent
  <2> QED
    BY <1>3, <2>2 DEF Srv6Forwarding
<1> QED
  BY <1>1, <1>2, <1>3

LEMMA RouterOfSent ==
  ASSUME NEW r, IsRib(r), IsConfigured(r), NEW back, NEW apart \in BOOLEAN, NEW p, NEW from,
         NEW s \in Slot, NEW f, On(r, s, apart, f), f.ttl \in Nat, NEW srv6,
         back = IF AtLocalSid(r, f) THEN 0 ELSE from
  PROVE  Sends(r, back, apart, RouterOf(r, p, from, s, f, srv6))
<1>1. PICK rif : rif = r.vs[s].rif
  OBVIOUS
<1>2. PICK up : up = RouterIf(r, s, f)
  OBVIOUS
<1>3. PICK first : first = IF f.dst = Broadcast THEN up ELSE <<>>
  OBVIOUS
<1>4. PICK report : report = Report(rif, f) \o (IF f.dst = Broadcast /\ ~srv6 THEN <<>> ELSE up)
  OBVIOUS
<1>5. PICK rest : rest =
        IF rif.open /\ IsControl(rif, f) THEN report
        ELSE IF f.dst # rif.mac THEN Switching(r, p, from, s, f)
        ELSE IF f.kind \in IPv4 \cup IPv6 /\ f.ttl <= 1 THEN <<>>
        ELSE IF srv6 THEN Srv6Forwarding(r, from, s, f)
        ELSE Forward(r, from, s, f)
  OBVIOUS
<1>6. RouterOf(r, p, from, s, f, srv6) = IF ForMe(rif, f) THEN up ELSE first \o rest
  BY <1>1, <1>2, <1>3, <1>4, <1>5, Zenon DEF RouterOf
<1>7. SendsUp(r, back, apart, up) /\ SendsUp(r, back, apart, <<>>)
  BY <1>2, RouterIfSent, NothingSent
<1>8. SendsUp(r, back, apart, first)
  BY <1>3, <1>7
<1>9. SendsUp(r, back, apart, report)
  <2>1. SendsUp(r, back, apart, Report(rif, f))
    BY ReportSent
  <2> QED
    BY <1>4, <1>7, <2>1, UpConcat
<1>10. Sends(r, back, apart, rest)
  <2>1. Sends(r, back, apart, report) /\ Sends(r, back, apart, <<>>)
    BY <1>7, <1>9, UpIsSent
  <2>2. NotBack(from, back, f) /\ Whole(f)
    BY DEF NotBack, On
  <2>3. Sends(r, back, apart, Switching(r, p, from, s, f))
    BY <2>2, SwitchingSent
  <2>4. ASSUME ~(f.kind \in IPv4 \cup IPv6 /\ f.ttl <= 1)
        PROVE  /\ Sends(r, back, apart, Srv6Forwarding(r, from, s, f))
               /\ Sends(r, back, apart, Forward(r, from, s, f))
    <3>1. f.kind \in IPv4 \cup IPv6 => f.ttl \in Nat /\ f.ttl > 1
      BY <2>4
    <3>2. Sends(r, back, apart, Srv6Forwarding(r, from, s, f))
      BY <2>2, <3>1, Srv6Sent
    <3>3. Sends(r, back, apart, Forward(r, from, s, f))
      BY <2>2, <3>1, ForwardSent
    <3> QED
      BY <3>2, <3>3
  <2> QED
    BY <1>5, <2>1, <2>3, <2>4
<1>11. Sends(r, back, apart, first \o rest)
  BY <1>8, <1>10, SentAround
<1> QED
  BY <1>6, <1>7, <1>11, UpIsSent

-----------------------------------------------------------------------------
(* ... and of the programs.                                                *)

\* The link of a frame is a link of the port with the frame's tag, unless
\* the frame is untagged and the port has no link for that.
LEMMA RxLinkPlace ==
  ASSUME NEW r, IsRib(r), IsConfigured(r), NEW p \in Port, NEW tag, RxLink(r, p, tag) # 0
  PROVE  \/ RxLink(r, p, tag) \in LinksOf(r, p, tag)
         \/ /\ tag = 0 /\ LinksOf(r, p, 0) = {}
            /\ RxLink(r, p, tag) = RxUntagged(r, p)
<1>1. CASE tag = 0
  <2>1. RxLink(r, p, tag) = RxUntagged(r, p)
    BY <1>1 DEF RxLink
  <2>2. RxUntagged(r, p) = r.port[p].native
    BY <2>1 DEF RxUntagged
  <2>3. LinksOf(r, p, 0) # {} => r.port[p].native \in LinksOf(r, p, 0)
    BY DEF IsConfigured
  <2> QED
    BY <1>1, <2>1, <2>2, <2>3
<1>2. CASE tag # 0
  <2>1. PICK L : L = r.port[p].vlans
    OBVIOUS
  <2>2. PICK hit : hit = {i \in DOMAIN L : r.link[L[i]].tag = tag}
    OBVIOUS
  <2>3. L \in Seq(DOMAIN r.link) /\ \A i \in DOMAIN L : r.link[L[i]].port = p
    BY <2>1 DEF IsRib, IsConfigured
  <2>4. hit \in SUBSET Nat /\ \A i \in DOMAIN L : L[i] \in DOMAIN r.link
    BY <2>2, <2>3
  <2>5. RxLink(r, p, tag) = IF hit = {} THEN 0 ELSE L[Min(hit)]
    BY <1>2, <2>1, <2>2 DEF RxLink, RxTagged
  <2>6. Min(hit) \in hit
    BY <2>4, <2>5, MinFacts
  <2>7. RxLink(r, p, tag) \in DOMAIN r.link /\ r.link[RxLink(r, p, tag)].port = p
        /\ r.link[RxLink(r, p, tag)].tag = tag
    BY <2>2, <2>3, <2>4, <2>5, <2>6
  <2> QED
    BY <2>7 DEF LinksOf
<1> QED
  BY <1>1, <1>2

\* What is known of a frame from port p: it entered the vswitch of its link.
Entering(r, p, f) ==
  /\ Whole(f) /\ f.ttl \in Nat
  /\ RxLink(r, p, f.tag) # 0 => f.vs = r.link[RxLink(r, p, f.tag)].vs

LEMMA EnteringOn ==
  ASSUME NEW r, IsRib(r), NEW p \in Port, NEW f, Entering(r, p, f), NEW apart \in BOOLEAN,
         NEW s, s = WorkerVswitch(r, RxLink(r, p, f.tag)), s # 0
  PROVE  s \in Slot /\ On(r, s, apart, f)
<1>1. PICK l : l = RxLink(r, p, f.tag)
  OBVIOUS
<1>2. l # 0 /\ s = FirstIn({t \in DOMAIN r.vs : r.vs[t].id = r.link[l].vs})
  BY <1>1 DEF WorkerVswitch
<1>3. PICK S : S = {t \in DOMAIN r.vs : r.vs[t].id = r.link[l].vs}
  OBVIOUS
<1>4. S \in SUBSET (Nat \ {0}) /\ S \in SUBSET Slot
  BY <1>3, RibSlots
<1>5. s \in S
  BY <1>2, <1>3, <1>4, FirstInFacts
<1> QED
  BY <1>1, <1>2, <1>3, <1>4, <1>5 DEF Entering, On

LEMMA RouterSent ==
  ASSUME NEW r, IsRib(r), IsConfigured(r), NEW back, NEW apart \in BOOLEAN, NEW p \in Port,
         NEW f, Entering(r, p, f), NEW srv6,
         back = IF AtLocalSid(r, f) THEN 0 ELSE RxLink(r, p, f.tag)
  PROVE  Sends(r, back, apart, RouterRx(r, p, f, srv6))
<1>1. PICK from : from = RxLink(r, p, f.tag)
  OBVIOUS
<1>2. PICK s : s = WorkerVswitch(r, from)
  OBVIOUS
<1>3. RouterRx(r, p, f, srv6) =
        IF s = 0 THEN <<>> ELSE Capture(r, s, f) \o RouterOf(r, p, from, s, f, srv6)
  BY <1>1, <1>2 DEF RouterRx
<1>4. CASE s = 0
  BY <1>3, <1>4, NothingSent
<1>5. CASE s # 0
  <2>1. s \in Slot /\ On(r, s, apart, f)
    BY <1>1, <1>2, <1>5, EnteringOn
  <2>2. SendsUp(r, back, apart, Capture(r, s, f))
    BY <2>1, CaptureSent
  <2>3. f.ttl \in Nat
    BY DEF Entering
  <2>4. Sends(r, back, apart, RouterOf(r, p, from, s, f, srv6))
    BY <1>1, <2>1, <2>3, RouterOfSent
  <2> QED
    BY <1>3, <1>5, <2>2, <2>4, SentAround
<1> QED
  BY <1>4, <1>5

LEMMA L2SwitchSent ==
  ASSUME NEW r, IsRib(r), IsConfigured(r), NEW back, NEW apart \in BOOLEAN, NEW p \in Port,
         NEW f, Entering(r, p, f), back \in {0, RxLink(r, p, f.tag)}
  PROVE  Sends(r, back, apart, L2SwitchRx(r, p, f))
<1>1. PICK from : from = RxLink(r, p, f.tag)
  OBVIOUS
<1>2. PICK s : s = WorkerVswitch(r, from)
  OBVIOUS
<1>3. PICK known : known = FdbPort(r, f.dst, r.link[from].tag)
  OBVIOUS
<1>4. PICK l : l = LinkOn(r, s, known \ (r.stopped \cup {p}))
  OBVIOUS
<1>5. PICK links :
        links = IF f.dst = Broadcast THEN SendOthers(r, s, from, r.stopped \cup {p}, f)
                ELSE IF known = {} THEN SendOthers(r, s, from, {p}, f)
                ELSE IF l = 0 THEN <<>> ELSE SendLink(r, from, l, f)
  OBVIOUS
<1>6. L2SwitchRx(r, p, f) =
        IF from = 0 THEN <<>>
        ELSE IF s = 0 THEN Emission("null", 0, f)
        ELSE links \o RawRing(r.vs[s].rif.open, <<"up", s>>, f)
                   \o RawRing(r.vs[s].cif, <<"cap", s>>, f)
  BY <1>1, <1>2, <1>3, <1>4, <1>5, Zenon DEF L2SwitchRx
<1>7. CASE from = 0
  BY <1>6, <1>7, NothingSent
<1>8. CASE from # 0 /\ s = 0
  <2>1. SendsUp(r, back, apart, Emission("null", 0, f))
    BY OtherSent
  <2> QED
    BY <1>6, <1>8, <2>1, UpIsSent
<1>9. CASE from # 0 /\ s # 0
  <2>1. s \in Slot /\ On(r, s, apart, f)
    BY <1>1, <1>2, <1>9, EnteringOn
  <2>2. NotBack(from, back, f)
    BY <1>1 DEF NotBack
  <2>3. l # 0 => Sends(r, back, apart, SendLink(r, from, l, f))
    <3> SUFFICES ASSUME l # 0 PROVE Sends(r, back, apart, SendLink(r, from, l, f))
      OBVIOUS
    <3>1. l \in DOMAIN r.link /\ r.link[l].vs = r.vs[s].id /\ 0 \notin DOMAIN r.link
      BY <1>4, <2>1, LinkOnSent, LinkFacts
    <3>2. (apart => Belongs(r, f, l)) /\ Whole(f)
      BY <2>1, <3>1 DEF On, Belongs
    <3>3. from = l \/ l # back \/ f.port = SelfPort
      BY <2>2, <3>1 DEF NotBack
    <3> QED
      BY <3>1, <3>2, <3>3, SendLinkSent
  <2>4. /\ Sends(r, back, apart, SendOthers(r, s, from, r.stopped \cup {p}, f))
        /\ Sends(r, back, apart, SendOthers(r, s, from, {p}, f))
        /\ Sends(r, back, apart, <<>>)
    BY <2>1, <2>2, OthersSent, NothingSent
  <2>5. Sends(r, back, apart, links)
    BY <1>5, <2>3, <2>4
  <2>6. PICK up, cap : /\ up = RawRing(r.vs[s].rif.open, <<"up", s>>, f)
                       /\ cap = RawRing(r.vs[s].cif, <<"cap", s>>, f)
    OBVIOUS
  <2>7. \A t \in Slot : /\ <<"up", s>> \in {<<"up", t>>, <<"cap", t>>} => t = s
                        /\ <<"cap", s>> \in {<<"up", t>>, <<"cap", t>>} => t = s
    OBVIOUS
  <2>8. SendsUp(r, back, apart, up)
    BY <2>1, <2>6, <2>7, RawRingSent DEF On
  <2>9. SendsUp(r, back, apart, cap)
    BY <2>1, <2>6, <2>7, RawRingSent DEF On
  <2>10. Sends(r, back, apart, links \o up)
    BY <2>5, <2>8, SentAround
  <2>11. Sends(r, back, apart, links \o up \o cap)
    BY <2>9, <2>10, SentAround
  <2> QED
    BY <1>6, <1>9, <2>6, <2>11
<1> QED
  BY <1>7, <1>8, <1>9

\* vlan_switch, which may take another vswitch than the frame's.
LEMMA VlanSwitchSent ==
  ASSUME NEW r, IsRib(r), IsConfigured(r), NEW back, NEW p \in Port, NEW f,
         Entering(r, p, f), back \in {0, RxLink(r, p, f.tag)}
  PROVE  Sends(r, back, FALSE, VlanSwitchRx(r, p, f))
<1>1. PICK from : from = RxLink(r, p, f.tag)
  OBVIOUS
<1>2. PICK id : id = r.link[from].vs
  OBVIOUS
<1>3. PICK links :
        links = IF from = 0 THEN <<>>
                ELSE IF id >= Len(r.vs) THEN <<>>
                ELSE SendOthers(r, id + 1, from, {p}, f)
  OBVIOUS
<1>4. VlanSwitchRx(r, p, f) = links \o RawRing(TRUE, <<"tapup", p>>, f)
  BY <1>1, <1>2, <1>3, Zenon DEF VlanSwitchRx
<1>5. Sends(r, back, FALSE, links)
  <2>1. CASE from = 0 \/ id >= Len(r.vs)
    BY <1>3, <2>1, NothingSent
  <2>2. CASE from # 0 /\ ~(id >= Len(r.vs))
    <3>1. id \in Nat
      <4>1. from \in DOMAIN r.link
        BY <1>1, <2>2, RxLinkFacts
      <4> QED
        BY <1>2, <4>1 DEF IsRib
    <3>2. Len(r.vs) \in Nat /\ Slot = 1 .. Len(r.vs)
      <4>1. r.vs \in Seq(ToSet(r.vs))
        BY DEF IsRib
      <4> QED
        BY <4>1, RibSlots, LenProperties
    <3>3. PICK s \in Slot : s = id + 1
      BY <2>2, <3>1, <3>2
    <3>4. On(r, s, FALSE, f) /\ NotBack(from, back, f)
      BY <1>1 DEF On, NotBack, Entering
    <3>5. Sends(r, back, FALSE, SendOthers(r, s, from, {p}, f))
      BY <3>4, OthersSent
    <3> QED
      BY <1>3, <2>2, <3>3, <3>5
  <2> QED
    BY <2>1, <2>2
<1>6. SendsUp(r, back, FALSE, RawRing(TRUE, <<"tapup", p>>, f))
  BY RawRingSent
<1> QED
  BY <1>4, <1>5, <1>6, SentAround

LEMMA EnhancedRepeaterSent ==
  ASSUME NEW r, IsRib(r), IsConfigured(r), NEW back, NEW apart \in BOOLEAN, NEW p \in Port,
         NEW f, Entering(r, p, f), back \in {0, RxLink(r, p, f.tag)}
  PROVE  Sends(r, back, apart, EnhancedRepeaterRx(r, p, f))
<1>1. PICK from : from = RxLink(r, p, f.tag)
  OBVIOUS
<1>2. PICK s : s = WorkerVswitch(r, from)
  OBVIOUS
<1>3. PICK app : app = IF r.app /\ f.kind = "dhcp4" THEN Emission("ring", <<"app", 0>>, f) ELSE <<>>
  OBVIOUS
<1>4. EnhancedRepeaterRx(r, p, f) =
        IF s = 0 THEN <<>>
        ELSE SendOthers(r, s, from, r.stopped \cup {p}, f)
             \o RouterIf(r, s, f) \o Capture(r, s, f) \o app
  BY <1>1, <1>2, <1>3, Zenon DEF EnhancedRepeaterRx
<1>5. CASE s = 0
  BY <1>4, <1>5, NothingSent
<1>6. CASE s # 0
  <2>1. s \in Slot /\ On(r, s, apart, f)
    BY <1>1, <1>2, <1>6, EnteringOn
  <2>2. NotBack(from, back, f)
    BY <1>1 DEF NotBack
  <2>3. PICK others, up, cap :
          /\ others = SendOthers(r, s, from, r.stopped \cup {p}, f)
          /\ up = RouterIf(r, s, f) /\ cap = Capture(r, s, f)
    OBVIOUS
  <2>4. Sends(r, back, apart, others)
    BY <2>1, <2>2, <2>3, OthersSent
  <2>5. SendsUp(r, back, apart, up) /\ SendsUp(r, back, apart, cap)
    BY <2>1, <2>3, RouterIfSent, CaptureSent
  <2>6. SendsUp(r, back, apart, app)
    <3>1. \A t \in Slot : <<"app", 0>> \notin {<<"up", t>>, <<"cap", t>>}
      OBVIOUS
    <3>2. SendsUp(r, back, apart, Emission("ring", <<"app", 0>>, f))
      BY <3>1, RingSent
    <3> QED
      BY <1>3, <3>2, NothingSent
  <2>7. Sends(r, back, apart, others \o up)
    BY <2>4, <2>5, SentAround
  <2>8. Sends(r, back, apart, others \o up \o cap)
    BY <2>5, <2>7, SentAround
  <2>9. Sends(r, back, apart, others \o up \o cap \o app)
    BY <2>6, <2>8, SentAround
  <2> QED
    BY <1>4, <1>6, <2>3, <2>9
<1> QED
  BY <1>5, <1>6

LEMMA L2RepeaterSent ==
  ASSUME NEW r, IsRib(r), NEW back, NEW p \in Port, NEW f
  PROVE  Sends(r, back, FALSE, L2RepeaterRx(r, p, f))
<1>1. PICK S : S = DOMAIN r.port \ ({p} \cup r.down)
  OBVIOUS
<1>2. PICK others : others = SetToSeq(S)
  OBVIOUS
<1>3. PICK d : d = [i \in DOMAIN others |-> Emission("port", others[i], f)]
  OBVIOUS
<1>4. L2RepeaterRx(r, p, f) = RawRing(TRUE, <<"tapup", p>>, f) \o FlattenSeq(d)
  BY <1>1, <1>2, <1>3, Zenon DEF L2RepeaterRx
<1>5. S \in SUBSET Port /\ IsFiniteSet(Port)
  BY <1>1, PlaceAssumption DEF IsRib
<1>6. others \in Seq(S)
  BY <1>2, <1>5, FS_Subset, SetToSeqFacts
<1>7. PICK n \in Nat : DOMAIN others = 1 .. n
  BY <1>6, LenProperties
<1>8. PICK X : X = {[to |-> "port", at |-> o, fr |-> f] : o \in Port}
  OBVIOUS
<1>9. d \in [1 .. n -> Seq(X)]
  <2>1. ASSUME NEW i \in 1 .. n PROVE Emission("port", others[i], f) \in Seq(X)
    <3>1. others[i] \in Port
      BY <1>5, <1>6, <1>7
    <3>2. PICK x \in X : x = [to |-> "port", at |-> others[i], fr |-> f]
      BY <1>8, <3>1
    <3>3. <<x>> \in Seq(X)
      OBVIOUS
    <3> QED
      BY <3>2, <3>3 DEF Emission
  <2> QED
    BY <1>3, <1>7, <2>1
<1>10. FlattenSeq(d) \in Seq(X)
  BY <1>9, FlattenSeqType
<1>11. \A x \in X : Proper(r, back, FALSE, x) /\ x.to # "link"
  BY <1>8 DEF Proper
<1>12. SendsUp(r, back, FALSE, FlattenSeq(d))
  BY <1>10, <1>11 DEF SendsUp
<1>13. SendsUp(r, back, FALSE, RawRing(TRUE, <<"tapup", p>>, f))
  BY RawRingSent
<1> QED
  BY <1>4, <1>12, <1>13, UpConcat, UpIsSent

\* The programs that keep vswitches apart.
Apart(program) == program \notin {"l2_repeater", "vlan_switch"}

LEMMA ProcessSent ==
  ASSUME NEW r, IsRib(r), IsConfigured(r), NEW back, NEW p \in Port, NEW f,
         Entering(r, p, f), NEW program \in Program,
         back = IF AtLocalSid(r, f) THEN 0 ELSE RxLink(r, p, f.tag)
  PROVE  Sends(r, back, Apart(program), Process(program, r, p, f))
<1>1. back \in {0, RxLink(r, p, f.tag)}
  OBVIOUS
<1>2. ASSUME NEW apart \in BOOLEAN
      PROVE  /\ Sends(r, back, apart, RouterRx(r, p, f, FALSE))
             /\ Sends(r, back, apart, RouterRx(r, p, f, TRUE))
             /\ Sends(r, back, apart, L2SwitchRx(r, p, f))
             /\ Sends(r, back, apart, EnhancedRepeaterRx(r, p, f))
  BY <1>1, RouterSent, L2SwitchSent, EnhancedRepeaterSent
<1>3. Sends(r, back, FALSE, VlanSwitchRx(r, p, f)) /\ Sends(r, back, FALSE, L2RepeaterRx(r, p, f))
  BY <1>1, VlanSwitchSent, L2RepeaterSent
<1>4. CASE program = "router"
  <2>1. Apart(program) = TRUE /\ Process(program, r, p, f) = RouterRx(r, p, f, FALSE)
    BY <1>4 DEF Apart, Process
  <2> QED
    BY <1>2, <2>1
<1>5. CASE program = "srv6_router"
  <2>1. Apart(program) = TRUE /\ Process(program, r, p, f) = RouterRx(r, p, f, TRUE)
    BY <1>5 DEF Apart, Process
  <2> QED
    BY <1>2, <2>1
<1>6. CASE program = "l2_switch"
  <2>1. Apart(program) = TRUE /\ Process(program, r, p, f) = L2SwitchRx(r, p, f)
    BY <1>6 DEF Apart, Process
  <2> QED
    BY <1>2, <2>1
<1>7. CASE program = "enhanced_repeater"
  <2>1. Apart(program) = TRUE /\ Process(program, r, p, f) = EnhancedRepeaterRx(r, p, f)
    BY <1>7 DEF Apart, Process
  <2> QED
    BY <1>2, <2>1
<1>8. CASE program = "vlan_switch"
  <2>1. Apart(program) = FALSE /\ Process(program, r, p, f) = VlanSwitchRx(r, p, f)
    BY <1>8 DEF Apart, Process
  <2> QED
    BY <1>3, <2>1
<1>9. CASE program = "l2_repeater"
  <2>1. Apart(program) = FALSE /\ Process(program, r, p, f) = L2RepeaterRx(r, p, f)
    BY <1>9 DEF Apart, Process
  <2> QED
    BY <1>3, <2>1
<1> QED
  BY <1>4, <1>5, <1>6, <1>7, <1>8, <1>9 DEF Program

LEMMA DownSent ==
  ASSUME NEW r, IsRib(r), IsConfigured(r), NEW s \in Slot, NEW f, On(r, s, TRUE, f),
         NEW program
  PROVE  Sends(r, 0, TRUE, ProcessDown(program, r, s, f))
<1>1. NotBack(0, 0, f)
  BY DEF NotBack
<1>2. Sends(r, 0, TRUE, Switching(r, SelfPort, 0, s, f)) /\ Sends(r, 0, TRUE, RepeaterTx(r, s, f))
  BY <1>1, SwitchingSent, RepeaterTxSent
<1> QED
  BY <1>2 DEF ProcessDown, RouterTx

-----------------------------------------------------------------------------
(* Frames in the queues: one from a port entered the vswitch of its link,  *)
(* one in a transmit buffer is on a link of that port, in its own vswitch  *)
(* or routed, and one in a tap ring belongs to the ring's vswitch.         *)

InPlace(r, p, f) ==
  /\ Whole(f) /\ f.ttl \in Nat
  /\ \A l \in LinksOf(r, p, f.tag) : f.vs = r.link[l].vs
  /\ f.tag = 0 /\ LinksOf(r, p, 0) = {} /\ RxUntagged(r, p) # 0 =>
       f.vs = r.link[RxUntagged(r, p)].vs

OutPlace(r, p, f) ==
  \E l \in DOMAIN r.link :
    /\ r.link[l].port = p /\ r.link[l].tag = f.tag
    /\ r.link[l].vs = f.vs \/ RoutedIn(r, f, l)

RingPlace(r, i, f) ==
  \A s \in Slot :
    /\ i = <<"dn", s>> => Whole(f) /\ f.vs = r.vs[s].id
    /\ i \in {<<"up", s>>, <<"cap", s>>} => f = Null \/ f.vs = r.vs[s].id

RxPlaced(r, q) == \A p \in Port : \A f \in ToSet(q[p]) : InPlace(r, p, f)
TxPlaced(r, q) == \A p \in Port : \A f \in ToSet(q[p]) : OutPlace(r, p, f)
RingPlaced(r, q) == \A i \in Rings : \A f \in ToSet(q[i]) : RingPlace(r, i, f)

Config == Scene[scene].rib

Placed ==
  /\ RxPlaced(Config, rx)
  /\ Apart(prog) => TxPlaced(Config, tx) /\ RingPlaced(Config, ring)

LEMMA ConfigFacts ==
  ASSUME scene \in DOMAIN Scene
  PROVE  /\ IsRib(rib) /\ IsConfigured(rib) /\ prog \in Program
         /\ rib.vs = Config.vs /\ rib.link = Config.link /\ rib.port = Config.port
         /\ rib.route = Config.route /\ rib.neigh = neigh
<1>1. PICK r : r = Config
  OBVIOUS
<1>2. IsRib(r) /\ IsConfigured(r) /\ prog \in Program
  BY <1>1, SceneAssumption, ConfigAssumption DEF Config, prog
<1>3. PICK c : c = [r EXCEPT !.fdb = fdb, !.neigh = neigh, !.stopped = stopped]
  OBVIOUS
<1>4. c.vs = r.vs /\ c.link = r.link /\ c.port = r.port /\ c.route = r.route /\ c.neigh = neigh
  BY <1>2, <1>3 DEF IsRib
<1>5. c = rib
  BY <1>1, <1>3 DEF rib, Config
<1>6. IsConfigured(c)
  <2>1. \A p, tag : LinksOf(c, p, tag) = LinksOf(r, p, tag)
    BY <1>4 DEF LinksOf
  <2> QED
    BY <1>2, <1>4, <2>1 DEF IsConfigured
<1>7. IsRib(rib)
  BY RibFacts
<1> QED
  BY <1>1, <1>2, <1>4, <1>5, <1>6, <1>7

\* The tables that change do not matter for where frames are.
LEMMA SamePlaces ==
  ASSUME scene \in DOMAIN Scene, NEW q
  PROVE  /\ RxPlaced(rib, q) <=> RxPlaced(Config, q)
         /\ TxPlaced(rib, q) <=> TxPlaced(Config, q)
         /\ RingPlaced(rib, q) <=> RingPlaced(Config, q)
<1>1. PICK r, c : r = rib /\ c = Config
  OBVIOUS
<1>2. r.vs = c.vs /\ r.link = c.link /\ r.route = c.route /\ r.port = c.port
  BY <1>1, ConfigFacts
<1>3. \A p, f : InPlace(r, p, f) <=> InPlace(c, p, f)
  <2>1. \A p, tag : LinksOf(r, p, tag) = LinksOf(c, p, tag)
    BY <1>2 DEF LinksOf
  <2>2. \A p : RxUntagged(r, p) = RxUntagged(c, p)
    BY <1>2 DEF RxUntagged
  <2> QED
    BY <1>2, <2>1, <2>2 DEF InPlace
<1>4. \A f, l : RoutedIn(r, f, l) <=> RoutedIn(c, f, l)
  BY <1>2 DEF RoutedIn
<1>5. \A p, f : OutPlace(r, p, f) <=> OutPlace(c, p, f)
  BY <1>2, <1>4 DEF OutPlace
<1>6. \A i, f : RingPlace(r, i, f) <=> RingPlace(c, i, f)
  BY <1>2 DEF RingPlace
<1> QED
  BY <1>1, <1>3, <1>5, <1>6 DEF RxPlaced, TxPlaced, RingPlaced

LEMMA ToSetFacts ==
  ASSUME NEW X, NEW q \in Seq(X), NEW x
  PROVE  /\ x \in X => ToSet(Append(q, x)) = ToSet(q) \cup {x}
         /\ q # <<>> => ToSet(Tail(q)) \subseteq ToSet(q) /\ Head(q) \in ToSet(q)
         /\ ToSet(<<>>) = {}
<1>1. PICK n \in Nat : n = Len(q) /\ DOMAIN q = 1 .. n
  OBVIOUS
<1>2. ToSet(q) = {q[i] : i \in 1 .. n}
  BY <1>1 DEF ToSet
<1>3. ASSUME x \in X PROVE ToSet(Append(q, x)) = ToSet(q) \cup {x}
  <2>1. PICK g : g = Append(q, x)
    OBVIOUS
  <2>2. DOMAIN g = 1 .. n + 1 /\ g[n + 1] = x /\ \A i \in 1 .. n : g[i] = q[i]
    BY <1>1, <1>3, <2>1
  <2>3. ToSet(g) = {g[i] : i \in 1 .. n + 1}
    BY <2>2 DEF ToSet
  <2>4. \A y \in ToSet(g) : y \in ToSet(q) \cup {x}
    BY <1>2, <2>2, <2>3
  <2>5. \A y \in ToSet(q) \cup {x} : y \in ToSet(g)
    <3>1. n + 1 \in 1 .. n + 1 /\ \A i \in 1 .. n : i \in 1 .. n + 1
      BY <1>1
    <3> QED
      BY <1>2, <2>2, <2>3, <3>1
  <2> QED
    BY <2>1, <2>4, <2>5
<1>4. ASSUME q # <<>> PROVE ToSet(Tail(q)) \subseteq ToSet(q) /\ Head(q) \in ToSet(q)
  <2>1. n > 0 /\ Head(q) = q[1] /\ 1 \in 1 .. n
    BY <1>1, <1>4
  <2>2. DOMAIN Tail(q) = 1 .. n - 1 /\ \A i \in 1 .. n - 1 : Tail(q)[i] = q[i + 1]
    BY <1>1, <1>4
  <2>3. \A i \in 1 .. n - 1 : i + 1 \in 1 .. n
    OBVIOUS
  <2>4. ToSet(Tail(q)) = {Tail(q)[i] : i \in 1 .. n - 1}
    BY <2>2 DEF ToSet
  <2> QED
    BY <1>2, <2>1, <2>2, <2>3, <2>4
<1>5. ToSet(<<>>) = {}
  BY DEF ToSet
<1> QED
  BY <1>3, <1>4, <1>5

-----------------------------------------------------------------------------
(* Emissions put frames where they may be.                                 *)

LEMMA BufferPlaced ==
  ASSUME NEW r, NEW F, NEW M, NEW b \in Work(F, M), NEW p \in Port, NEW f \in F,
         TxPlaced(r, b.tx), OutPlace(r, p, f)
  PROVE  TxPlaced(r, Buffer(b, p, f).tx)
<1>1. PICK t : t = Append(b.tx[p], f)
  OBVIOUS
<1>2. b.tx \in [Port -> Seq(F)] /\ b.pool \in Nat /\ b.out \in Seq(F)
  BY DEF Work, TxOf
<1>3. ToSet(t) = ToSet(b.tx[p]) \cup {f} /\ ToSet(<<>>) = {}
  BY <1>1, <1>2, ToSetFacts
<1>4. PICK n : n = IF b.pool = 0 THEN b.tx[p] ELSE IF Len(t) < TxBurst THEN t ELSE <<>>
  OBVIOUS
<1>5. Buffer(b, p, f).tx = [b.tx EXCEPT ![p] = n]
  <2>1. CASE b.pool = 0
    BY <1>2, <1>4, <2>1 DEF Buffer
  <2>2. CASE b.pool # 0 /\ Len(t) < TxBurst
    <3>1. Buffer(b, p, f) = [b EXCEPT !.tx[p] = t, !.pool = @ - 1]
      BY <1>1, <2>2 DEF Buffer
    <3>2. Buffer(b, p, f).tx = [b.tx EXCEPT ![p] = t]
      BY <3>1 DEF Work
    <3> QED
      BY <1>4, <2>2, <3>2
  <2>3. CASE b.pool # 0 /\ ~(Len(t) < TxBurst)
    <3>1. Buffer(b, p, f) = [b EXCEPT !.tx[p] = <<>>, !.pool = @ + Len(t) - 1, !.out = @ \o t]
      BY <1>1, <2>3 DEF Buffer
    <3>2. Buffer(b, p, f).tx = [b.tx EXCEPT ![p] = <<>>]
      BY <3>1 DEF Work
    <3> QED
      BY <1>4, <2>3, <3>2
  <2> QED
    BY <2>1, <2>2, <2>3
<1>6. \A g \in ToSet(n) : OutPlace(r, p, g)
  BY <1>3, <1>4 DEF TxPlaced
<1>7. PICK u : u = [b.tx EXCEPT ![p] = n]
  OBVIOUS
<1>8. u[p] = n /\ \A q \in Port \ {p} : u[q] = b.tx[q]
  BY <1>2, <1>7
<1>9. TxPlaced(r, u)
  BY <1>6, <1>8 DEF TxPlaced
<1> QED
  BY <1>5, <1>7, <1>9

LEMMA RingAppendPlaced ==
  ASSUME NEW r, NEW F, NEW g \in RingsOf(F), NEW i \in Rings, NEW f \in F \cup {Null},
         RingPlaced(r, g), RingPlace(r, i, f)
  PROVE  RingPlaced(r, [g EXCEPT ![i] = Append(@, f)])
<1>1. g \in [Rings -> Seq(F \cup {Null})]
  BY DEF RingsOf
<1>2. PICK u : u = [g EXCEPT ![i] = Append(@, f)]
  OBVIOUS
<1>3. u[i] = Append(g[i], f) /\ \A j \in Rings \ {i} : u[j] = g[j]
  BY <1>1, <1>2
<1>4. ToSet(u[i]) = ToSet(g[i]) \cup {f}
  BY <1>1, <1>3, ToSetFacts
<1>5. RingPlaced(r, u)
  BY <1>3, <1>4 DEF RingPlaced
<1> QED
  BY <1>2, <1>5

LEMMA EnqueuePlaced ==
  ASSUME NEW r, NEW F, NEW M, NEW b \in Work(F, M), NEW i \in Rings, NEW f \in F,
         RingPlaced(r, b.ring), RingPlace(r, i, f)
  PROVE  RingPlaced(r, Enqueue(b, i, f).ring) /\ Enqueue(b, i, f).tx = b.tx
<1>1. CASE Len(b.ring[i]) = RingSize
  BY <1>1 DEF Enqueue
<1>2. CASE Len(b.ring[i]) # RingSize
  <2>1. Enqueue(b, i, f) = [b EXCEPT !.ring[i] = Append(@, f), !.pool = @ - 1]
    BY <1>2 DEF Enqueue
  <2>2. b.ring \in RingsOf(F)
    BY DEF Work
  <2>3. Enqueue(b, i, f).ring = [b.ring EXCEPT ![i] = Append(@, f)] /\ Enqueue(b, i, f).tx = b.tx
    BY <2>1 DEF Work
  <2> QED
    BY <2>2, <2>3, RingAppendPlaced
<1> QED
  BY <1>1, <1>2

LEMMA EnqueueRawPlaced ==
  ASSUME NEW r, NEW F, NEW M, NEW b \in Work(F, M), NEW i \in UpRing, NEW f \in F,
         RingPlaced(r, b.ring), RingPlace(r, i, f)
  PROVE  RingPlaced(r, EnqueueRaw(b, i, f).ring) /\ EnqueueRaw(b, i, f).tx = b.tx
<1>1. i \in Rings
  BY DEF UpRing
<1>2. CASE b.pool > 0
  BY <1>1, <1>2, EnqueuePlaced DEF EnqueueRaw
<1>3. CASE ~(b.pool > 0) /\ Len(b.ring[i]) = RingSize
  BY <1>3 DEF EnqueueRaw
<1>4. CASE ~(b.pool > 0) /\ Len(b.ring[i]) # RingSize
  <2>1. EnqueueRaw(b, i, f) = [b EXCEPT !.ring[i] = Append(@, Null)]
    BY <1>4 DEF EnqueueRaw
  <2>2. b.ring \in RingsOf(F)
    BY DEF Work
  <2>3. /\ EnqueueRaw(b, i, f).ring = [b.ring EXCEPT ![i] = Append(@, Null)]
        /\ EnqueueRaw(b, i, f).tx = b.tx
    BY <2>1 DEF Work
  <2>4. RingPlace(r, i, Null)
    <3>1. \A s \in Slot : i # <<"dn", s>>
      BY DEF UpRing, DownRing
    <3> QED
      BY <3>1 DEF RingPlace
  <2>5. PICK x \in F \cup {Null} : x = Null
    OBVIOUS
  <2>6. RingPlaced(r, [b.ring EXCEPT ![i] = Append(@, x)])
    BY <1>1, <2>2, <2>4, <2>5, RingAppendPlaced
  <2> QED
    BY <2>3, <2>5, <2>6
<1> QED
  BY <1>2, <1>3, <1>4

\* What is Proper for a program that keeps vswitches apart is in its place.
LEMMA ProperPlaces ==
  ASSUME NEW r, NEW back, NEW x, Proper(r, back, TRUE, x)
  PROVE  /\ x.to = "link" => x.at \in DOMAIN r.link /\ OutPlace(r, r.link[x.at].port, x.fr)
         /\ x.to # "port"
         /\ x.to \in {"router_if", "ring", "raw"} /\ x.at \in UpRing => RingPlace(r, x.at, x.fr)
<1>1. ASSUME x.to = "link"
      PROVE  x.at \in DOMAIN r.link /\ OutPlace(r, r.link[x.at].port, x.fr)
  <2>1. x.at \in DOMAIN r.link /\ x.fr.tag = r.link[x.at].tag /\ Belongs(r, x.fr, x.at)
    BY <1>1 DEF Proper
  <2> QED
    BY <2>1 DEF OutPlace, Belongs
<1>2. ASSUME x.to \in {"router_if", "ring", "raw"}, x.at \in UpRing
      PROVE  RingPlace(r, x.at, x.fr)
  <2>1. \A s \in Slot : x.at # <<"dn", s>>
    BY <1>2 DEF UpRing, DownRing
  <2>2. \A s \in Slot : x.at \in {<<"up", s>>, <<"cap", s>>} => x.fr.vs = r.vs[s].id
    BY <1>2 DEF Proper
  <2> QED
    BY <2>1, <2>2 DEF RingPlace
<1>3. x.to # "port"
  BY DEF Proper
<1> QED
  BY <1>1, <1>2, <1>3

LEMMA EmitPlaced ==
  ASSUME NEW F, NEW M, NEW b \in Work(F, M), NEW back, NEW x, Proper(rib, back, TRUE, x),
         Plain(rib, x) \/ x.to \in {"alloc", "free", "null"}, x.fr \in F, rx \in [Port -> Seq(F)],
         \A l \in DOMAIN rib.link : rib.link[l].port \in Port,
         TxPlaced(rib, b.tx), RingPlaced(rib, b.ring)
  PROVE  TxPlaced(rib, Emit(b, x).tx) /\ RingPlaced(rib, Emit(b, x).ring)
<1>0. CASE ~b.ok
  BY <1>0 DEF Emit
<1>1. CASE b.ok /\ x.to = "link"
  <2>1. x.at \in DOMAIN rib.link /\ OutPlace(rib, rib.link[x.at].port, x.fr)
    BY <1>1, ProperPlaces
  <2>2. PICK p \in Port : p = rib.link[x.at].port
    BY <2>1
  <2>3. Emit(b, x) = Buffer(b, p, x.fr)
    BY <1>1, <2>2 DEF Emit
  <2>4. Buffer(b, p, x.fr).ring = b.ring
    BY BufferFacts
  <2>5. TxPlaced(rib, Buffer(b, p, x.fr).tx)
    BY <2>1, <2>2, BufferPlaced
  <2> QED
    BY <2>3, <2>4, <2>5
<1>2. CASE b.ok /\ x.to \in {"router_if", "ring", "raw"}
  <2>1. x.at \in UpRing
    BY <1>2 DEF Plain
  <2>2. RingPlace(rib, x.at, x.fr)
    BY <1>2, <2>1, ProperPlaces
  <2>3. x.at \in Rings
    BY <2>1 DEF UpRing
  <2>4. /\ RingPlaced(rib, Enqueue(b, x.at, x.fr).ring) /\ Enqueue(b, x.at, x.fr).tx = b.tx
        /\ RingPlaced(rib, EnqueueRaw(b, x.at, x.fr).ring) /\ EnqueueRaw(b, x.at, x.fr).tx = b.tx
    BY <2>1, <2>2, <2>3, EnqueuePlaced, EnqueueRawPlaced
  <2>5. Emit(b, x) \in {b, Enqueue(b, x.at, x.fr), EnqueueRaw(b, x.at, x.fr)}
    BY <1>2 DEF Emit, SendRouterIf
  <2> QED
    BY <2>4, <2>5
<1>3. CASE b.ok /\ x.to \in {"neigh", "alloc", "free", "null"}
  <2>1. Emit(b, x).tx = b.tx /\ Emit(b, x).ring = b.ring
    BY <1>3 DEF Emit, Work
  <2> QED
    BY <2>1
<1> QED
  BY <1>0, <1>1, <1>2, <1>3, ProperPlaces DEF Plain, Work

LEMMA RunPlaced ==
  ASSUME Accounted, NEW e, Emits(rib, e), NEW back, Sends(rib, back, TRUE, e),
         TxPlaced(rib, tx), RingPlaced(rib, ring)
  PROVE  TxPlaced(rib, Run(e).tx) /\ RingPlaced(rib, Run(e).ring)
<1>1. PICK F0, M0 : Kept(F0, M0)
  BY DEF Accounted
<1>2. PICK X, a, z : e \in Seq(X) /\ Bracketed(rib, e, a, z)
  BY DEF Emits
<1>3. PICK F : F = F0 \cup {e[n].fr : n \in 1 .. Len(e)}
  OBVIOUS
<1>4. PICK M : M = M0 \cup {Message(e[n]) : n \in 1 .. Len(e)}
  OBVIOUS
<1>5. \A f \in F : IsFrame(f)
  <2>1. \A n \in 1 .. Len(e) : IsFrame(e[n].fr)
    BY <1>2 DEF Bracketed
  <2>2. \A f \in F0 : IsFrame(f)
    BY <1>1 DEF Kept
  <2> QED
    BY <1>3, <2>1, <2>2
<1>6. F0 \subseteq F /\ M0 \subseteq M
  BY <1>3, <1>4
<1>7. Kept(F, M)
  BY <1>1, <1>5, <1>6, KeptGrows
<1>8. Now \in Work(F, M) /\ Now.tx = tx /\ Now.ring = ring
  <2>1. pool \in Nat /\ tx \in TxOf(F) /\ ring \in RingsOf(F) /\ msgs \in MsgsOf(M)
    BY <1>7, KeptFacts DEF Accounted
  <2>2. <<>> \in Seq(F)
    OBVIOUS
  <2> QED
    BY <2>1, <2>2 DEF Now, Work
<1>9. rx \in [Port -> Seq(F)] /\ Null \notin F
  BY <1>7, KeptFacts
<1>10. \A l \in DOMAIN rib.link : rib.link[l].port \in Port
  <2>1. IsRib(rib)
    BY RibFacts DEF Accounted
  <2> QED
    BY <2>1 DEF IsRib
<1>11. \A n \in 1 .. Len(e) : e[n].fr \in F /\ Message(e[n]) \in M
  BY <1>3, <1>4
<1>12. PICK S : S = {b \in Work(F, M) : TxPlaced(rib, b.tx) /\ RingPlaced(rib, b.ring)}
  OBVIOUS
<1>13. ASSUME NEW b \in S, NEW n \in 1 .. Len(e) PROVE Emit(b, e[n]) \in S
  <2>1. b \in Work(F, M) /\ TxPlaced(rib, b.tx) /\ RingPlaced(rib, b.ring)
    BY <1>12
  <2>2. PICK x : x = e[n]
    OBVIOUS
  <2>3. x.fr \in F /\ Message(x) \in M
    BY <1>11, <2>2
  <2>4. Plain(rib, x) \/ x.to \in {"alloc", "free", "null"}
    BY <1>2, <2>2 DEF Bracketed
  <2>5. Proper(rib, back, TRUE, x)
    <3>1. PICK Y : e \in Seq(Y) /\ \A y \in Y : Proper(rib, back, TRUE, y)
      BY DEF Sends
    <3>2. e[n] \in Y
      BY <3>1
    <3> QED
      BY <2>2, <3>1, <3>2
  <2>6. Emit(b, x) \in Work(F, M)
    <3>1. CASE ~b.ok
      BY <2>1, <3>1 DEF Emit
    <3>2. CASE b.ok /\ Plain(rib, x)
      BY <1>9, <1>10, <2>1, <2>3, <3>2, EmitPlain
    <3>3. CASE b.ok /\ x.to \in {"alloc", "free", "null"}
      BY <1>9, <2>1, <3>3, EmitOther
    <3> QED
      BY <2>1, <2>4, <3>1, <3>2, <3>3 DEF Work
  <2>7. TxPlaced(rib, Emit(b, x).tx) /\ RingPlaced(rib, Emit(b, x).ring)
    BY <1>9, <1>10, <2>1, <2>3, <2>4, <2>5, EmitPlaced
  <2> QED
    BY <1>12, <2>2, <2>6, <2>7
<1>14. Now \in S
  BY <1>8, <1>12
<1>15. PICK run \in [0 .. Len(e) -> S] : Run(e) = run[Len(e)]
  <2>1. \A b \in S, n \in 1 .. Len(e) : Emit(b, e[n]) \in S
    BY <1>13
  <2> QED
    BY <1>2, <1>14, <2>1, RunSteps
<1>16. Run(e) \in S
  <2>1. Len(e) \in Nat
    BY <1>2
  <2> QED
    BY <1>15, <2>1
<1> QED
  BY <1>12, <1>16

-----------------------------------------------------------------------------
(* The actions keep frames in their places.                                *)

\* A frame that waits in the receive queue, and what is sent for it.
LEMMA SentFacts ==
  ASSUME Accounted, Placed, NEW p \in Port, rx[p] # <<>>, NEW f, f = Head(rx[p]), NEW back,
         back = IF AtLocalSid(rib, f) THEN 0 ELSE RxLink(rib, p, f.tag)
  PROVE  /\ Whole(f) /\ Sends(rib, back, Apart(prog), Process(prog, rib, p, f))
         /\ Emits(rib, Process(prog, rib, p, f))
<1>0. scene \in DOMAIN Scene
  BY DEF Accounted
<1>1. PICK F, M : Kept(F, M)
  BY DEF Accounted
<1>2. f \in ToSet(rx[p])
  <2>1. rx[p] \in Seq(F)
    BY <1>1, KeptFacts
  <2> QED
    BY <2>1, ToSetFacts
<1>3. InPlace(rib, p, f)
  <2>1. RxPlaced(rib, rx)
    BY <1>0, SamePlaces DEF Placed
  <2> QED
    BY <1>2, <2>1 DEF RxPlaced
<1>4. IsRib(rib) /\ IsConfigured(rib) /\ prog \in Program
  BY <1>0, ConfigFacts
<1>5. Entering(rib, p, f)
  <2>1. ASSUME RxLink(rib, p, f.tag) # 0 PROVE f.vs = rib.link[RxLink(rib, p, f.tag)].vs
    <3>1. PICK l : l = RxLink(rib, p, f.tag)
      OBVIOUS
    <3>2. \/ l \in LinksOf(rib, p, f.tag)
          \/ f.tag = 0 /\ LinksOf(rib, p, 0) = {} /\ l = RxUntagged(rib, p)
      BY <1>4, <2>1, <3>1, RxLinkPlace
    <3> QED
      BY <1>3, <2>1, <3>1, <3>2 DEF InPlace
  <2> QED
    BY <1>3, <2>1 DEF Entering, InPlace
<1>6. Sends(rib, back, Apart(prog), Process(prog, rib, p, f))
  BY <1>4, <1>5, ProcessSent
<1>7. Whole(f) /\ IsFrame(f)
  BY <1>5 DEF Entering, Whole, IsFrame
<1>8. Emits(rib, Process(prog, rib, p, f))
  BY <1>4, <1>7, ProcessEmits
<1> QED
  BY <1>6, <1>7, <1>8

\* Queues that only lose frames.
LEMMA FewerPlaced ==
  ASSUME Placed, scene' = scene,
         \A p \in Port : ToSet(rx'[p]) \subseteq ToSet(rx[p]) /\ ToSet(tx'[p]) \subseteq ToSet(tx[p]),
         \A i \in Rings : ToSet(ring'[i]) \subseteq ToSet(ring[i])
  PROVE  Placed'
<1>1. Config' = Config /\ prog' = prog
  BY DEF Config, prog
<1>2. PICK c : c = Config
  OBVIOUS
<1>3. RxPlaced(c, rx) => RxPlaced(c, rx')
  BY DEF RxPlaced
<1>4. TxPlaced(c, tx) => TxPlaced(c, tx')
  BY DEF TxPlaced
<1>5. RingPlaced(c, ring) => RingPlaced(c, ring')
  BY DEF RingPlaced
<1> QED
  BY <1>1, <1>2, <1>3, <1>4, <1>5 DEF Placed

LEMMA RxTakenFewer ==
  ASSUME Accounted, NEW p \in Port, rx[p] # <<>>, rx' = [rx EXCEPT ![p] = Tail(@)]
  PROVE  \A o \in Port : ToSet(rx'[o]) \subseteq ToSet(rx[o])
<1>1. PICK F, M : Kept(F, M)
  BY DEF Accounted
<1>2. rx \in [Port -> Seq(F)]
  BY <1>1, KeptFacts
<1>3. rx'[p] = Tail(rx[p]) /\ \A o \in Port \ {p} : rx'[o] = rx[o]
  BY <1>2
<1>4. ToSet(Tail(rx[p])) \subseteq ToSet(rx[p])
  BY <1>2, ToSetFacts
<1> QED
  BY <1>3, <1>4

LEMMA RingTakenFewer ==
  ASSUME Accounted, NEW i \in Rings, RingTaken(i)
  PROVE  /\ \A j \in Rings : ToSet(ring'[j]) \subseteq ToSet(ring[j])
         /\ Head(ring[i]) \in ToSet(ring[i])
<1>1. PICK F, M : Kept(F, M)
  BY DEF Accounted
<1>2. ring \in [Rings -> Seq(F \cup {Null})] /\ ring[i] # <<>>
      /\ ring' = [ring EXCEPT ![i] = Tail(@)]
  BY <1>1, KeptFacts DEF RingTaken
<1>3. ring'[i] = Tail(ring[i]) /\ \A j \in Rings \ {i} : ring'[j] = ring[j]
  BY <1>2
<1>4. ToSet(Tail(ring[i])) \subseteq ToSet(ring[i]) /\ Head(ring[i]) \in ToSet(ring[i])
  BY <1>2, ToSetFacts
<1> QED
  BY <1>3, <1>4

LEMMA RingTakenPlaced ==
  ASSUME Accounted, Placed, NEW i \in Rings, RingTaken(i), scene' = scene, rx' = rx, tx' = tx
  PROVE  Placed'
<1>1. \A j \in Rings : ToSet(ring'[j]) \subseteq ToSet(ring[j])
  BY RingTakenFewer
<1> QED
  BY <1>1, FewerPlaced

LEMMA WorkerRxPlaced ==
  ASSUME Accounted, Placed, NEW p \in Port, WorkerRx(p)
  PROVE  Placed'
<1>0. scene \in DOMAIN Scene
  BY DEF Accounted
<1>1. rx[p] # <<>> /\ rx' = [rx EXCEPT ![p] = Tail(@)]
  BY DEF WorkerRx, RxTaken
<1>2. PICK f : f = Head(rx[p])
  OBVIOUS
<1>3. PICK e : e = Process(prog, rib, p, f)
  OBVIOUS
<1>4. PICK b : b = Run(e)
  OBVIOUS
<1>5. Done(b) /\ ring' = b.ring /\ UNCHANGED Rib
  <2>1. PICK d \in {Process(prog, r, p, g) : r \in {rib}, g \in {Head(rx[p])}} :
          \E c \in {Run(d)} : Done(c) /\ ring' = c.ring
    BY DEF WorkerRx
  <2>2. d = e
    BY <1>2, <1>3, <2>1
  <2>3. UNCHANGED Rib
    BY DEF WorkerRx
  <2> QED
    BY <1>4, <2>1, <2>2, <2>3
<1>6. tx' = b.tx /\ scene' = scene
  BY <1>5 DEF Done, Rib
<1>7. Config' = Config /\ prog' = prog
  BY <1>6 DEF Config, prog
<1>8. RxPlaced(Config, rx')
  <2>1. \A o \in Port : ToSet(rx'[o]) \subseteq ToSet(rx[o])
    BY <1>1, RxTakenFewer
  <2> QED
    BY <2>1 DEF Placed, RxPlaced
<1>9. ASSUME Apart(prog) PROVE TxPlaced(Config, tx') /\ RingPlaced(Config, ring')
  <2>1. PICK back : back = IF AtLocalSid(rib, f) THEN 0 ELSE RxLink(rib, p, f.tag)
    OBVIOUS
  <2>2. Sends(rib, back, Apart(prog), e) /\ Emits(rib, e)
    BY <1>1, <1>2, <1>3, <2>1, SentFacts
  <2>3. Sends(rib, back, TRUE, e)
    <3>1. Apart(prog) = TRUE
      BY <1>9 DEF Apart
    <3> QED
      BY <2>2, <3>1
  <2>4. TxPlaced(rib, tx) /\ RingPlaced(rib, ring)
    BY <1>0, <1>9, SamePlaces DEF Placed
  <2>5. TxPlaced(rib, b.tx) /\ RingPlaced(rib, b.ring)
    BY <1>4, <2>2, <2>3, <2>4, RunPlaced
  <2>6. TxPlaced(Config, b.tx) /\ RingPlaced(Config, b.ring)
    BY <1>0, <2>5, SamePlaces
  <2> QED
    BY <1>5, <1>6, <2>6
<1> QED
  BY <1>7, <1>8, <1>9 DEF Placed

LEMMA WorkerTxPlaced ==
  ASSUME Accounted, Placed, NEW s \in Slot, WorkerTx(s)
  PROVE  Placed'
<1>0. scene \in DOMAIN Scene
  BY DEF Accounted
<1>1. PICK i : i = <<"dn", s>>
  OBVIOUS
<1>2. i \in Rings /\ i \in DownRing /\ RingTaken(i) /\ L3
  BY <1>1 DEF Rings, DownRing, WorkerTx, DnTaken
<1>3. PICK f : f = Head(ring[i])
  OBVIOUS
<1>4. PICK e : e = ProcessDown(prog, rib, s, f)
  OBVIOUS
<1>5. PICK b : b = Run(e)
  OBVIOUS
<1>6. Done(b) /\ UNCHANGED <<Rib, rx>>
  <2>1. PICK d \in {ProcessDown(prog, r, s, g) : r \in {rib}, g \in {Head(ring[<<"dn", s>>])}} :
          \E c \in {Run(d)} : Done(c)
    BY DEF WorkerTx
  <2>2. d = e
    BY <1>1, <1>3, <1>4, <2>1
  <2>3. UNCHANGED <<Rib, rx>>
    BY DEF WorkerTx
  <2> QED
    BY <1>5, <2>1, <2>2, <2>3
<1>7. tx' = b.tx /\ scene' = scene /\ rx' = rx
  BY <1>6 DEF Done, Rib
<1>8. Config' = Config /\ prog' = prog
  BY <1>7 DEF Config, prog
<1>9. Apart(prog)
  BY <1>2 DEF L3, Apart
<1>10. TxPlaced(rib, tx) /\ RingPlaced(rib, ring)
  BY <1>0, <1>9, SamePlaces DEF Placed
<1>11. /\ \A j \in Rings : ToSet(ring'[j]) \subseteq ToSet(ring[j])
       /\ f \in ToSet(ring[i])
  BY <1>2, <1>3, RingTakenFewer
<1>12. On(rib, s, TRUE, f) /\ IsFrame(f)
  <2>1. RingPlace(rib, i, f)
    BY <1>2, <1>10, <1>11 DEF RingPlaced
  <2> QED
    BY <1>1, <2>1 DEF RingPlace, On, Whole, IsFrame
<1>13. IsRib(rib) /\ IsConfigured(rib)
  BY <1>0, ConfigFacts
<1>14. Sends(rib, 0, TRUE, e)
  BY <1>4, <1>12, <1>13, DownSent
<1>15. Emits(rib, e)
  BY <1>4, <1>12, <1>13, ProcessDownEmits, LinksArePlain, PlainIsEmitted
<1>16. TxPlaced(Config, b.tx)
  <2>1. TxPlaced(rib, b.tx)
    BY <1>5, <1>10, <1>14, <1>15, RunPlaced
  <2> QED
    BY <1>0, <2>1, SamePlaces
<1>17. RingPlaced(Config, ring')
  BY <1>9, <1>11 DEF Placed, RingPlaced
<1> QED
  BY <1>7, <1>8, <1>16, <1>17 DEF Placed

LEMMA FlushPlaced ==
  ASSUME Accounted, Placed, NEW p \in Port, Flush(p)
  PROVE  Placed'
<1>1. PICK F, M : Kept(F, M)
  BY DEF Accounted
<1>2. /\ tx \in [Port -> Seq(F)] /\ tx' = [tx EXCEPT ![p] = <<>>]
      /\ scene' = scene /\ rx' = rx /\ ring' = ring
  BY <1>1, KeptFacts DEF Flush, Rib
<1>3. tx'[p] = <<>> /\ \A o \in Port \ {p} : tx'[o] = tx[o]
  BY <1>2
<1>4. ToSet(<<>>) = {}
  BY DEF ToSet
<1>5. \A o \in Port : ToSet(tx'[o]) \subseteq ToSet(tx[o])
  BY <1>3, <1>4
<1> QED
  BY <1>2, <1>5, FewerPlaced

\* The vswitch a frame enters is that of all links of its port and tag; if
\* there are none, that of the native link.
LEMMA ReceivedPlace ==
  ASSUME scene \in DOMAIN Scene, NEW p \in Port, NEW f, f.ttl \in Nat
  PROVE  InPlace(Config, p, Received(f, p, Entered(p, f.tag)))
<1>1. PICK v : v = Entered(p, f.tag)
  OBVIOUS
<1>2. PICK g : g = Received(f, p, v)
  OBVIOUS
<1>3. Whole(g) /\ g.ttl = f.ttl /\ g.tag = f.tag /\ g.vs = v
  BY <1>2 DEF Received, Whole
<1>4. PICK c : c = Config
  OBVIOUS
<1>5. PICK hit, n : hit = LinksOf(c, p, f.tag) /\ n = RxUntagged(c, p)
  OBVIOUS
<1>6. v = IF hit # {} THEN c.link[CHOOSE k \in hit : TRUE].vs
          ELSE IF f.tag = 0 /\ n # 0 THEN c.link[n].vs ELSE 0
  <2>1. rib.link = c.link /\ rib.port = c.port
    BY <1>4, ConfigFacts
  <2>2. LinksOf(rib, p, f.tag) = hit
    BY <1>5, <2>1 DEF LinksOf
  <2>3. RxUntagged(rib, p) = n
    BY <1>5, <2>1 DEF RxUntagged
  <2> QED
    BY <1>1, <2>1, <2>2, <2>3 DEF Entered
<1>7. IsConfigured(c)
  BY <1>4, ConfigAssumption DEF Config
<1>8. ASSUME NEW l \in hit PROVE v = c.link[l].vs
  <2>1. PICK k : k = CHOOSE m \in hit : TRUE
    OBVIOUS
  <2>2. k \in hit
    BY <2>1
  <2>3. /\ k \in DOMAIN c.link /\ c.link[k].port = p /\ c.link[k].tag = f.tag
        /\ l \in DOMAIN c.link /\ c.link[l].port = p /\ c.link[l].tag = f.tag
    BY <1>5, <2>2 DEF LinksOf
  <2>4. c.link[k].vs = c.link[l].vs
    BY <1>7, <2>3 DEF IsConfigured
  <2> QED
    BY <1>6, <2>1, <2>2, <2>4
<1>9. f.tag = 0 /\ LinksOf(c, p, 0) = {} /\ n # 0 => v = c.link[n].vs
  BY <1>5, <1>6
<1> QED
  BY <1>1, <1>2, <1>3, <1>4, <1>5, <1>8, <1>9 DEF InPlace

LEMMA ArrivePlaced ==
  ASSUME Accounted, Placed, NEW p \in Port, NEW f, f.ttl \in Nat, Arrive(p, f)
  PROVE  Placed'
<1>1. PICK F0, M : Kept(F0, M)
  BY DEF Accounted
<1>2. PICK g : g = Received(f, p, Entered(p, f.tag))
  OBVIOUS
<1>3. rx' = [rx EXCEPT ![p] = Append(@, g)] /\ scene' = scene /\ tx' = tx /\ ring' = ring
  BY <1>2 DEF Arrive, Rib
<1>4. PICK F : F = F0 \cup {g}
  OBVIOUS
<1>5. rx \in [Port -> Seq(F)]
  <2>1. rx \in [Port -> Seq(F0)]
    BY <1>1, KeptFacts
  <2>2. Seq(F0) \subseteq Seq(F)
    BY <1>4
  <2> QED
    BY <2>1, <2>2
<1>6. rx'[p] = Append(rx[p], g) /\ \A o \in Port \ {p} : rx'[o] = rx[o]
  BY <1>3, <1>5
<1>7. ToSet(rx'[p]) = ToSet(rx[p]) \cup {g}
  BY <1>4, <1>5, <1>6, ToSetFacts
<1>8. InPlace(Config, p, g)
  BY <1>2, ReceivedPlace DEF Accounted
<1>9. RxPlaced(Config, rx')
  BY <1>6, <1>7, <1>8 DEF Placed, RxPlaced
<1>10. Config' = Config /\ prog' = prog
  BY <1>3 DEF Config, prog
<1> QED
  BY <1>3, <1>9, <1>10 DEF Placed

LEMMA L3DownPlaced ==
  ASSUME Accounted, Placed, NEW s \in Slot, NEW f, L3Down(s, f)
  PROVE  Placed'
<1>0. scene \in DOMAIN Scene
  BY DEF Accounted
<1>1. PICK F0, M : Kept(F0, M)
  BY DEF Accounted
<1>2. PICK i : i = <<"dn", s>>
  OBVIOUS
<1>3. PICK g : g = Received(f, SelfPort, rib.vs[s].id)
  OBVIOUS
<1>4. /\ ring' = (IF Len(ring[i]) = RingSize THEN ring ELSE [ring EXCEPT ![i] = Append(@, g)])
      /\ scene' = scene /\ rx' = rx /\ tx' = tx
  BY <1>2, <1>3 DEF L3Down, Rib
<1>5. Config' = Config /\ prog' = prog
  BY <1>4 DEF Config, prog
<1>6. i \in Rings
  BY <1>2 DEF Rings
<1>7. ASSUME RingPlaced(Config, ring) PROVE RingPlaced(Config, ring')
  <2>1. PICK F : F = F0 \cup {g}
    OBVIOUS
  <2>2. Whole(g) /\ IsFrame(g) /\ g.vs = Config.vs[s].id
    <3>1. rib.vs = Config.vs
      BY <1>0, ConfigFacts
    <3> QED
      BY <1>3, <3>1 DEF Received, Whole, IsFrame
  <2>3. ring \in RingsOf(F)
    <3>1. \A h \in F : IsFrame(h)
      BY <1>1, <2>1, <2>2, KeptFacts
    <3>2. Kept(F, M)
      BY <1>1, <2>1, <3>1, KeptGrows
    <3> QED
      BY <3>2, KeptFacts
  <2>4. RingPlace(Config, i, g)
    BY <1>2, <2>2 DEF RingPlace
  <2>5. RingPlaced(Config, [ring EXCEPT ![i] = Append(@, g)])
    BY <1>6, <1>7, <2>1, <2>3, <2>4, RingAppendPlaced
  <2> QED
    BY <1>4, <1>7, <2>5
<1> QED
  BY <1>4, <1>5, <1>7 DEF Placed

LEMMA SamePlaced ==
  ASSUME Placed, scene' = scene, rx' = rx, tx' = tx, ring' = ring
  PROVE  Placed'
BY FewerPlaced

\* tap_handler serves the programs that do not keep vswitches apart.
LEMMA TapDownPlaced ==
  ASSUME Accounted, Placed, NEW f, TapDown(f)
  PROVE  Placed'
<1>1. ~L3 /\ scene' = scene /\ rx' = rx
  BY DEF TapDown, Rib
<1>2. prog \in Program
  BY ConfigFacts DEF Accounted
<1>3. ~Apart(prog)
  BY <1>1, <1>2 DEF L3, Apart, Program
<1>4. Config' = Config /\ prog' = prog
  BY <1>1 DEF Config, prog
<1> QED
  BY <1>1, <1>3, <1>4 DEF Placed

LEMMA InputPlaced ==
  ASSUME Accounted, Placed, Input
  PROVE  Placed'
<1>1. ASSUME NEW m \in Scene[scene].rx \cup Scene[scene].flow \cup Scene[scene].answer,
             Arrive(m.port, m.fr)
      PROVE  Placed'
  <2>1. m.port \in Port /\ m.fr.ttl \in Nat
    BY SceneAssumption DEF Accounted
  <2> QED
    BY <1>1, <2>1, ArrivePlaced
<1>2. ASSUME NEW m \in Scene[scene].rx, Receive(m.port, m.fr) PROVE Placed'
  BY <1>1, <1>2 DEF Receive
<1>3. CASE Flow
  BY <1>1, <1>3 DEF Flow, Receive
<1>4. CASE Answers
  BY <1>1, <1>4 DEF Answers, Answer
<1>5. ASSUME NEW f, TapDown(f) PROVE Placed'
  BY <1>5, TapDownPlaced
<1>6. ASSUME NEW f, NEW s \in Slot, L3Down(s, f) PROVE Placed'
  BY <1>6, L3DownPlaced
<1>7. ASSUME NEW p \in Port, StopPort(p) PROVE Placed'
  BY <1>7, SamePlaced DEF StopPort
<1>8. ASSUME NEW h, Forget(h) PROVE Placed'
  BY <1>8, SamePlaced DEF Forget
<1>9. CASE Quiet
  BY <1>9, SamePlaced DEF Quiet, Rib
<1> QED
  BY <1>2, <1>3, <1>4, <1>5, <1>6, <1>7, <1>8, <1>9 DEF Input

LEMMA ThreadsPlaced ==
  ASSUME Accounted, Placed, Threads
  PROVE  Placed'
<1>1. ASSUME NEW p \in Port, WorkerRx(p) \/ Flush(p) PROVE Placed'
  BY <1>1, WorkerRxPlaced, FlushPlaced
<1>2. ASSUME NEW i \in Rings, RingTaken(i), scene' = scene, rx' = rx, tx' = tx PROVE Placed'
  BY <1>2, RingTakenPlaced
<1>3. ASSUME NEW p \in Port, TapUp(p) PROVE Placed'
  <2>1. <<"tapup", p>> \in Rings
    BY DEF Rings
  <2>2. RingTaken(<<"tapup", p>>) /\ scene' = scene /\ rx' = rx /\ tx' = tx
    BY <1>3 DEF TapUp, Take, Rib
  <2> QED
    BY <1>2, <2>1, <2>2
<1>4. ASSUME NEW p \in Port, NEW taken \in BOOLEAN, WorkerTxRaw(p, taken) PROVE Placed'
  <2>1. <<"tapdn", p>> \in Rings
    BY DEF Rings
  <2>2. RingTaken(<<"tapdn", p>>) /\ scene' = scene /\ rx' = rx /\ tx' = tx
    BY <1>4 DEF WorkerTxRaw, Rib
  <2> QED
    BY <1>2, <2>1, <2>2
<1>5. ASSUME NEW s \in Slot, WorkerTx(s) PROVE Placed'
  BY <1>5, WorkerTxPlaced
<1>6. ASSUME NEW i \in Rings, L3Up(i) PROVE Placed'
  <2>1. RingTaken(i) /\ scene' = scene /\ rx' = rx /\ tx' = tx
    BY <1>6 DEF L3Up, Take, Rib
  <2> QED
    BY <1>2, <2>1
<1>7. CASE AppRead
  <2>1. <<"app", 0>> \in Rings
    BY DEF Rings
  <2>2. RingTaken(<<"app", 0>>) /\ scene' = scene /\ rx' = rx /\ tx' = tx
    BY <1>7 DEF AppRead, Take, Rib
  <2> QED
    BY <1>2, <2>1, <2>2
<1>8. CASE Handle
  BY <1>8, SamePlaced DEF Handle
<1>9. ASSUME NEW p \in Port, StopPort(p) \/ StartPort(p) PROVE Placed'
  BY <1>9, SamePlaced DEF StopPort, StartPort
<1>10. CASE Restart
  BY <1>9, <1>10 DEF Restart
<1> QED
  BY <1>1, <1>3, <1>4, <1>5, <1>6, <1>7, <1>8, <1>10 DEF Threads

LEMMA InitPlaced == ASSUME Init PROVE Placed
<1>1. /\ rx = [p \in Port |-> <<>>] /\ tx = [p \in Port |-> <<>>]
      /\ ring = [i \in Rings |-> <<>>]
  BY DEF Init
<1>2. ToSet(<<>>) = {}
  BY DEF ToSet
<1>3. \A p \in Port : ToSet(rx[p]) = {} /\ ToSet(tx[p]) = {}
  BY <1>1, <1>2
<1>4. \A i \in Rings : ToSet(ring[i]) = {}
  BY <1>1, <1>2
<1> QED
  BY <1>3, <1>4 DEF Placed, RxPlaced, TxPlaced, RingPlaced

LEMMA AlwaysPlaced == Spec => [](Accounted /\ Placed)
<1>1. Init => Accounted /\ Placed
  BY InitAccounted, InitPlaced
<1>2. Accounted /\ Placed /\ [Next]_vars => Accounted' /\ Placed'
  <2> SUFFICES ASSUME Accounted, Placed, [Next]_vars PROVE Accounted' /\ Placed'
    OBVIOUS
  <2>1. CASE Next
    BY <2>1, InputAccounted, ThreadsAccounted, InputPlaced, ThreadsPlaced DEF Next
  <2>2. CASE UNCHANGED vars
    <3>1. /\ stopped' \subseteq Port /\ scene' = scene /\ fault' = fault /\ pool' = pool
          /\ lost' = lost /\ rx' = rx /\ tx' = tx /\ ring' = ring /\ msgs' = msgs
      BY <2>2 DEF vars, Accounted
    <3> QED
      BY <3>1, QuietStep, SamePlaced
  <2> QED
    BY <2>1, <2>2
<1> QED
  BY <1>1, <1>2, PTL DEF Spec

LEMMA PlacedEstablishesOnce == Accounted /\ Placed => OncePerLink
<1> SUFFICES ASSUME Accounted, Placed, NEW p \in Port, rx[p] # <<>>, NEW e, e = Sent(p),
                    NEW f, f = Head(rx[p]), NEW i \in DOMAIN e, e[i].to = "link"
             PROVE  /\ \A j \in DOMAIN e : e[j].to = "link" /\ e[j].at = e[i].at => j = i
                    /\ e[i].at = RxLink(rib, p, f.tag) =>
                         AtLocalSid(rib, f) \/ e[i].fr.port = SelfPort
  BY DEF OncePerLink
<1>1. PICK back : back = IF AtLocalSid(rib, f) THEN 0 ELSE RxLink(rib, p, f.tag)
  OBVIOUS
<1>2. Sends(rib, back, Apart(prog), e)
  BY <1>1, SentFacts DEF Sent
<1>3. PICK X : e \in Seq(X) /\ \A x \in X : Proper(rib, back, Apart(prog), x)
  BY <1>2 DEF Sends
<1>4. DOMAIN e = 1 .. Len(e) /\ e[i] \in X
  BY <1>3
<1>5. \A j \in DOMAIN e : e[j].to = "link" /\ e[j].at = e[i].at => j = i
  BY <1>2, <1>4 DEF Sends, OnceEach
<1>6. e[i].at = back => e[i].fr.port = SelfPort
  BY <1>3, <1>4 DEF Proper
<1> QED
  BY <1>1, <1>5, <1>6

LEMMA PlacedEstablishesIsolated == Accounted /\ Placed => Isolated
<1> SUFFICES ASSUME Accounted, Placed, Apart(prog)
             PROVE  Isolated
  BY DEF Isolated, Apart
<1>0. scene \in DOMAIN Scene
  BY DEF Accounted
<1>1. TxPlaced(rib, tx) /\ RingPlaced(rib, ring)
  BY <1>0, SamePlaces DEF Placed
<1>2. ASSUME NEW p \in Port, NEW f \in ToSet(tx[p])
      PROVE  \E l \in DOMAIN rib.link :
               /\ rib.link[l].port = p /\ rib.link[l].tag = f.tag
               /\ rib.link[l].vs = f.vs \/ RoutedTo(f, l)
  <2>1. OutPlace(rib, p, f)
    BY <1>1 DEF TxPlaced
  <2> QED
    BY <2>1 DEF OutPlace, RoutedIn, RoutedTo
<1>3. ASSUME NEW s \in Slot,
             NEW f \in ToSet(ring[<<"up", s>>]) \cup ToSet(ring[<<"cap", s>>])
      PROVE  f # Null => f.vs = rib.vs[s].id
  <2>1. <<"up", s>> \in Rings /\ <<"cap", s>> \in Rings
    BY DEF Rings
  <2>2. RingPlace(rib, <<"up", s>>, f) \/ RingPlace(rib, <<"cap", s>>, f)
    BY <1>1, <2>1 DEF RingPlaced
  <2> QED
    BY <2>2 DEF RingPlace
<1>4. ASSUME NEW p \in Port, rx[p] # <<>>, NEW x \in ToSet(Sent(p)), x.to = "link"
      PROVE  rib.link[x.at].vs = x.fr.vs \/ x.fr.dst \in Range(neigh)
  <2>1. PICK f : f = Head(rx[p])
    OBVIOUS
  <2>2. PICK back : back = IF AtLocalSid(rib, f) THEN 0 ELSE RxLink(rib, p, f.tag)
    OBVIOUS
  <2>3. PICK e : e = Sent(p)
    OBVIOUS
  <2>4. Sends(rib, back, Apart(prog), e)
    BY <1>4, <2>1, <2>2, <2>3, SentFacts DEF Sent
  <2>5. PICK X : e \in Seq(X) /\ \A y \in X : Proper(rib, back, Apart(prog), y)
    BY <2>4 DEF Sends
  <2>6. x \in X
    BY <2>3, <2>5, RangeFacts
  <2>7. Belongs(rib, x.fr, x.at)
    BY <1>4, <2>5, <2>6 DEF Proper
  <2>8. rib.neigh = neigh
    BY <1>0, ConfigFacts
  <2> QED
    BY <2>7, <2>8 DEF Belongs
<1> QED
  BY <1>2, <1>3, <1>4 DEF Isolated

\* For any configured vswitches, routes and hosts and each of the six worker
\* programs: a frame goes out of a link at most once, and not back out of the
\* link it came in on, except as the next segment of a segment list or the
\* solicitation that the worker generates instead.
THEOREM OneCopyPerLink == Spec => []OncePerLink
BY AlwaysPlaced, PlacedEstablishesOnce, PTL

\* ... and the four programs that work on vswitches keep them apart: what
\* waits in a transmit buffer or in a tap ring belongs to the vswitch the
\* frame entered, under the tag of the link, or was routed there, and nothing
\* is routed but to a neighbour.
THEOREM VswitchesAreIsolated == Spec => []Isolated
BY AlwaysPlaced, PlacedEstablishesIsolated, PTL
=============================================================================
