----------------------------- MODULE Fdb_proofs -----------------------------
(***************************************************************************)
(* Proof that the FDB finds the port learned last, for every size of the   *)
(* table, every hash function and any number of hosts.                     *)
(***************************************************************************)
EXTENDS Fdb, TLAPS, WellFoundedInduction

-----------------------------------------------------------------------------
(* Facts about the operators.                                              *)

LEMMA MinNat ==
  ASSUME NEW S \in SUBSET Nat, S # {}
  PROVE  Min(S) \in S /\ \A y \in S : Min(S) <= y
<1>1. PICK x \in S : \A y \in S : ~(<<y, x>> \in OpToRel(<, Nat))
  BY NatLessThanWellFounded, WFMin
<1>2. \A y \in S : x <= y
  <2> SUFFICES ASSUME NEW y \in S, y < x PROVE FALSE
    OBVIOUS
  <2>1. <<y, x>> \in OpToRel(<, Nat)
    BY DEF OpToRel
  <2> QED
    BY <1>1, <2>1
<1> QED
  BY <1>2 DEF Min

LEMMA MinUnique ==
  ASSUME NEW S \in SUBSET Nat, NEW x \in S, \A y \in S : x <= y
  PROVE  Min(S) = x
<1>1. Min(S) \in S /\ Min(S) <= x
  BY MinNat
<1>2. x \in Nat /\ Min(S) \in Nat /\ x <= Min(S)
  BY <1>1
<1> QED
  BY <1>1, <1>2

LEMMA ProbeSlot ==
  ASSUME NEW h \in Host, NEW i \in Slot
  PROVE  Probe(h, i) \in Slot
<1>1. Hash[h] \in Int /\ i \in Int /\ Size \in Nat \ {0}
  BY HashAssumption, SizeAssumption DEF Slot
<1>2. \A x \in Int : x % Size \in 0 .. Size - 1
  BY <1>1
<1> QED
  BY <1>1, <1>2, SMTT(30) DEF Probe, Slot

LEMMA FreshLookup ==
  ASSUME NEW h \in Host, Fresh(h)
  PROVE  Lookup(h) = learned[h].port
<1>1. PICK i \in Hits(h) : /\ \A j \in Hits(h) : i <= j
                           /\ fdb[Probe(h, i)].port = learned[h].port
  BY DEF Fresh
<1>2. Hits(h) \in SUBSET Nat
  BY SizeAssumption DEF Hits, Slot
<1>3. Min(Hits(h)) = i
  BY <1>1, <1>2, MinUnique
<1> QED
  BY <1>1, <1>3 DEF Lookup

-----------------------------------------------------------------------------
(* FdbInv is inductive.                                                    *)

LEMMA InitInv == Init => FdbInv
<1> SUFFICES ASSUME Init PROVE FdbInv
  OBVIOUS
<1>1. TypeOK
  BY SizeAssumption, AgeAssumption DEF Init, TypeOK, Entry, Slot, Age
<1>2. \A h \in Host : ~(learned[h].age <= MaxAge)
  BY AgeAssumption DEF Init
<1> QED
  BY <1>1, <1>2 DEF FdbInv

LEMMA SendType ==
  ASSUME TypeOK, NEW h \in Host, NEW p \in Port, Send(h, p)
  PROVE  ring' \in Seq(Message)
<1>1. [host |-> h, port |-> p] \in Message
  BY DEF Message
<1> QED
  BY <1>1 DEF TypeOK, Send

\* Steps that leave the table and the history alone.
LEMMA Framed ==
  ASSUME FdbInv, UNCHANGED <<fdb, learned>>, aging' \in 0 .. Size,
         ring' \in Seq(Message)
  PROVE  FdbInv'
<1>1. TypeOK'
  BY DEF FdbInv, TypeOK
<1>2. \A h \in Host : Fresh(h) => Fresh(h)'
  BY DEF Fresh, Hits, Holds
<1> QED
  BY <1>1, <1>2 DEF FdbInv

LEMMA AddInv ==
  ASSUME FdbInv, FdbEntryAdd
  PROVE  FdbInv'
<1>1. Head(ring) \in Message /\ Tail(ring) \in Seq(Message)
  BY DEF FdbEntryAdd, FdbInv, TypeOK
<1>0. PICK h \in Host, p \in Port : h = Head(ring).host /\ p = Head(ring).port
  BY <1>1 DEF Message
<1> DEFINE new == [active |-> TRUE, host |-> h, port |-> p, age |-> 0]
<1>2. new \in Entry /\ AddEntry(h, p) /\ ring' = Tail(ring) /\ aging' = aging
  BY <1>0, AgeAssumption DEF FdbEntryAdd, Entry, Age
<1>3. CASE Stops(h) = {}
  BY <1>1, <1>2, <1>3, Framed DEF AddEntry, FdbInv, TypeOK
<1>4. CASE Stops(h) # {}
  <2>1. Stops(h) \in SUBSET Nat /\ Stops(h) \subseteq Slot
    BY SizeAssumption DEF Stops, Hits, Slot
  <2>2. PICK k \in Stops(h) : k = Min(Stops(h)) /\ \A j \in Stops(h) : k <= j
    BY <1>4, <2>1, MinNat
  <2>3. PICK s \in Slot : s = Probe(h, k)
    BY <2>1, ProbeSlot
  <2>4. /\ fdb' = [fdb EXCEPT ![s] = new]
        /\ learned' = [learned EXCEPT ![h] = [port |-> p, age |-> 0]]
    BY <1>2, <1>4, <2>2, <2>3 DEF AddEntry
  <2>5. ~fdb[s].active \/ fdb[s].host = h
    BY <2>3 DEF Stops, Hits, Holds
  <2>6. TypeOK'
    <3>1. fdb' \in [Slot -> Entry]
      BY <1>2, <2>4 DEF FdbInv, TypeOK
    <3>2. learned' \in [Host -> [port : Port \cup {NoPort}, age : Age]]
      BY <1>2, <2>4, AgeAssumption DEF FdbInv, TypeOK, Age
    <3> QED
      BY <1>1, <1>2, <3>1, <3>2 DEF FdbInv, TypeOK
  <2>7. Fresh(h)'
    <3>1. k \in Hits(h)'
      BY <2>1, <2>3, <2>4 DEF Hits, Holds, Probe, FdbInv, TypeOK
    <3>2. \A j \in Hits(h)' : k <= j
      <4> SUFFICES ASSUME NEW j \in Hits(h)' PROVE j \in Stops(h)
        BY <2>2
      <4>1. j \in Slot /\ fdb'[Probe(h, j)].active /\ fdb'[Probe(h, j)].host = h
        BY DEF Hits, Holds, Probe
      <4>2. CASE Probe(h, j) = s
        BY <2>5, <4>1, <4>2 DEF Stops, Hits, Holds, FdbInv, TypeOK, Entry
      <4>3. CASE Probe(h, j) # s
        <5>1. Probe(h, j) \in Slot
          BY <1>2, <4>1, ProbeSlot
        <5>2. fdb'[Probe(h, j)] = fdb[Probe(h, j)]
          BY <2>3, <2>4, <4>3, <5>1 DEF FdbInv, TypeOK
        <5> QED
          BY <4>1, <5>2 DEF Stops, Hits, Holds
      <4> QED
        BY <4>2, <4>3
    <3>3. fdb'[s].port = p /\ fdb'[s].age = 0
      BY <2>3, <2>4 DEF FdbInv, TypeOK
    <3>4. learned'[h].port = p /\ learned'[h].age = 0
      BY <1>2, <2>4 DEF FdbInv, TypeOK
    <3> QED
      BY <2>3, <3>1, <3>2, <3>3, <3>4 DEF Fresh, Probe
  <2>8. \A g \in Host \ {h} : learned'[g].age <= MaxAge => Fresh(g)'
    <3> SUFFICES ASSUME NEW g \in Host, g # h, learned'[g].age <= MaxAge
                 PROVE  Fresh(g)'
      OBVIOUS
    <3>1. learned'[g] = learned[g]
      BY <2>4 DEF FdbInv, TypeOK
    <3>2. \A j \in Slot : /\ Probe(g, j) \in Slot
                          /\ Holds(Probe(g, j), g)' <=> Holds(Probe(g, j), g)
                          /\ Holds(Probe(g, j), g) =>
                               fdb'[Probe(g, j)] = fdb[Probe(g, j)]
      BY <2>3, <2>4, <2>5, ProbeSlot DEF Holds, FdbInv, TypeOK
    <3>3. Hits(g)' = Hits(g)
      BY <3>2 DEF Hits
    <3>4. Fresh(g)
      BY <3>1 DEF FdbInv
    <3> QED
      BY <3>1, <3>2, <3>3, <3>4 DEF Fresh, Hits
  <2> QED
    BY <2>6, <2>7, <2>8 DEF FdbInv
<1> QED
  BY <1>3, <1>4

LEMMA AgingStepInv ==
  ASSUME FdbInv, AgingStep
  PROVE  FdbInv'
<1>1. aging \in Slot
  BY SizeAssumption DEF AgingStep, FdbInv, TypeOK, Slot
<1>2. \A s \in Slot : /\ fdb'[s].host = fdb[s].host
                      /\ fdb'[s].port = fdb[s].port
                      /\ fdb'[s].age = fdb[s].age
                      /\ fdb'[s].active => fdb[s].active
                      /\ fdb[s].active /\ fdb[s].age <= MaxAge => fdb'[s].active
  BY <1>1, AgeAssumption DEF AgingStep, FdbInv, TypeOK, Entry, Age
<1>3. TypeOK'
  <2>1. fdb' \in [Slot -> Entry]
    BY <1>1 DEF AgingStep, FdbInv, TypeOK, Entry
  <2>2. aging' \in 0 .. Size
    BY <1>1, SizeAssumption DEF AgingStep, Slot
  <2> QED
    BY <2>1, <2>2 DEF AgingStep, FdbInv, TypeOK
<1>4. ASSUME NEW h \in Host, learned'[h].age <= MaxAge
      PROVE  Fresh(h)'
  <2>1. learned' = learned
    BY DEF AgingStep
  <2>2. PICK i \in Hits(h) : /\ \A j \in Hits(h) : i <= j
                             /\ fdb[Probe(h, i)].port = learned[h].port
                             /\ fdb[Probe(h, i)].age = learned[h].age
    BY <1>4, <2>1 DEF FdbInv, Fresh
  <2>3. i \in Slot /\ Probe(h, i) \in Slot /\ Holds(Probe(h, i), h)
    BY ProbeSlot DEF Hits
  <2>4. i \in Hits(h)'
    BY <1>2, <1>4, <2>1, <2>2, <2>3 DEF Hits, Holds
  <2>5. Hits(h)' \subseteq Hits(h)
    BY <1>2, ProbeSlot DEF Hits, Holds
  <2> QED
    BY <1>2, <2>1, <2>2, <2>3, <2>4, <2>5 DEF Fresh
<1> QED
  BY <1>3, <1>4 DEF FdbInv

LEMMA TickInv ==
  ASSUME FdbInv, Tick
  PROVE  FdbInv'
<1>1. \A a \in Age : Older(a) \in Age /\ (Older(a) <= MaxAge => a <= MaxAge)
  BY AgeAssumption DEF Older, Age
<1>2. \A s \in Slot : /\ fdb'[s].host = fdb[s].host
                      /\ fdb'[s].port = fdb[s].port
                      /\ fdb'[s].active = fdb[s].active
                      /\ fdb'[s].age = Older(fdb[s].age)
  BY DEF Tick, FdbInv, TypeOK, Entry
<1>3. \A h \in Host : /\ learned'[h].port = learned[h].port
                      /\ learned'[h].age = Older(learned[h].age)
                      /\ learned[h].age \in Age
  BY DEF Tick, FdbInv, TypeOK
<1>4. TypeOK'
  <2>1. fdb' \in [Slot -> Entry]
    BY <1>1 DEF Tick, FdbInv, TypeOK, Entry
  <2>2. learned' \in [Host -> [port : Port \cup {NoPort}, age : Age]]
    BY <1>1 DEF Tick, FdbInv, TypeOK
  <2> QED
    BY <2>1, <2>2 DEF Tick, FdbInv, TypeOK
<1>5. ASSUME NEW h \in Host, learned'[h].age <= MaxAge
      PROVE  Fresh(h)'
  <2>1. Fresh(h)
    BY <1>1, <1>3, <1>5 DEF FdbInv
  <2>2. Hits(h)' = Hits(h)
    BY <1>2, ProbeSlot DEF Hits, Holds
  <2> QED
    BY <1>2, <1>3, <2>1, <2>2, ProbeSlot DEF Fresh, Hits
<1> QED
  BY <1>4, <1>5 DEF FdbInv

LEMMA StepInv == FdbInv /\ [Next]_vars => FdbInv'
<1> SUFFICES ASSUME FdbInv, [Next]_vars PROVE FdbInv'
  OBVIOUS
<1>1. ASSUME NEW h \in Host, NEW p \in Port,
             TapHandlerPacket(h, p) \/ L3TapHandlerPacket(h, p)
      PROVE  FdbInv'
  BY <1>1, SendType, Framed
  DEF TapHandlerPacket, L3TapHandlerPacket, FdbInv, TypeOK
<1>2. CASE AgingStart
  BY <1>2, Framed, SizeAssumption DEF AgingStart, FdbInv, TypeOK
<1>3. CASE UNCHANGED vars
  BY <1>3, Framed DEF vars, FdbInv, TypeOK
<1> QED
  BY <1>1, <1>2, <1>3, AddInv, AgingStepInv, TickInv DEF Next

-----------------------------------------------------------------------------
(* The theorems.                                                           *)

\* Every variable of the FDB's model keeps its type.
THEOREM FdbTypeCorrect == Spec => []TypeOK
<1>1. FdbInv => TypeOK
  BY DEF FdbInv
<1> QED
  BY <1>1, InitInv, StepInv, PTL DEF Spec

\* fdb_lookup_entry finds every host learned within the aging time at the
\* port it was learned on last, although emptied slots leave no tombstones.
THEOREM FdbFreshest == Spec => []FreshestFound
<1>1. FdbInv => FreshestFound
  BY FreshLookup DEF FdbInv, FreshestFound
<1> QED
  BY <1>1, InitInv, StepInv, PTL DEF Spec

-----------------------------------------------------------------------------
(* Aging.                                                                  *)

LEMMA AgingInit == Init => AgingInv
<1> SUFFICES ASSUME Init PROVE AgingInv
  OBVIOUS
<1>1. NotYounger /\ Swept
  BY DEF Init, NotYounger, Swept
<1> QED
  BY <1>1, InitInv DEF AgingInv

LEMMA AgingNext == AgingInv /\ [Next]_vars => AgingInv'
<1> SUFFICES ASSUME AgingInv, [Next]_vars PROVE AgingInv'
  OBVIOUS
<1>0. FdbInv /\ FdbInv' /\ TypeOK /\ NotYounger /\ Swept
  BY StepInv DEF AgingInv, FdbInv
<1>1. \A s \in Slot : fdb[s].host \in Host /\ fdb[s].age \in Age /\ fdb[s].active \in BOOLEAN
  BY <1>0 DEF TypeOK, Entry
<1>2. \A h \in Host : learned[h].age \in Age
  BY <1>0 DEF TypeOK
<1>3. ASSUME UNCHANGED <<fdb, learned>>, aging' = aging \/ aging' = 0
      PROVE  NotYounger' /\ Swept'
  BY <1>0, <1>3 DEF NotYounger, Swept, Slot
<1>4. CASE FdbEntryAdd
  <2>1. aging = Size /\ aging' = Size
    BY <1>4 DEF FdbEntryAdd
  <2>2. Head(ring) \in Message
    BY <1>0, <1>4 DEF FdbEntryAdd, TypeOK
  <2>3. PICK h \in Host, p \in Port : h = Head(ring).host /\ p = Head(ring).port
    BY <2>2 DEF Message
  <2> DEFINE new == [active |-> TRUE, host |-> h, port |-> p, age |-> 0]
  <2>4. AddEntry(h, p)
    BY <1>4, <2>3 DEF FdbEntryAdd
  <2>5. CASE Stops(h) = {}
    BY <1>0, <1>3, <2>1, <2>4, <2>5 DEF AddEntry, AgingInv
  <2>6. CASE Stops(h) # {}
    <3>1. /\ fdb' = [fdb EXCEPT ![Probe(h, Min(Stops(h)))] = new]
          /\ learned' = [learned EXCEPT ![h] = [port |-> p, age |-> 0]]
      BY <2>4, <2>6 DEF AddEntry
    <3>2. \A g \in Host : learned'[g] = IF g = h THEN [port |-> p, age |-> 0] ELSE learned[g]
      BY <1>0, <3>1 DEF TypeOK
    <3>3. \A s \in Slot : fdb'[s] = new \/ fdb'[s] = fdb[s]
      BY <1>0, <3>1 DEF TypeOK
    <3>4. NotYounger'
      <4> SUFFICES ASSUME NEW s \in Slot, fdb'[s].active
                   PROVE  learned'[fdb'[s].host].age <= fdb'[s].age
        BY DEF NotYounger
      <4>1. CASE fdb'[s] = new
        BY <3>2, <4>1
      <4>2. CASE fdb'[s] = fdb[s]
        <5>1. fdb[s].host \in Host /\ fdb[s].age \in Nat
          BY <1>1, AgeAssumption DEF Age
        <5>2. learned[fdb[s].host].age <= fdb[s].age
          BY <1>0, <4>2 DEF NotYounger
        <5>3. learned'[fdb[s].host].age = 0 \/ learned'[fdb[s].host] = learned[fdb[s].host]
          BY <3>2, <5>1
        <5> QED
          BY <4>2, <5>1, <5>2, <5>3
      <4> QED
        BY <3>3, <4>1, <4>2
    <3> QED
      BY <1>0, <2>1, <3>4 DEF Swept, AgingInv
  <2> QED
    BY <1>0, <2>5, <2>6 DEF AgingInv
<1>5. CASE AgingStep
  <2>1. aging \in Slot /\ aging \in Nat /\ aging' = aging + 1 /\ aging # Size
    BY <1>0, <1>5, SizeAssumption DEF AgingStep, TypeOK, Slot
  <2>2. /\ \A s \in Slot : /\ fdb'[s].host = fdb[s].host /\ fdb'[s].age = fdb[s].age
                           /\ fdb'[s].active => fdb[s].active
        /\ fdb'[aging].active => ~(fdb[aging].age > MaxAge)
    BY <1>0, <1>5, <2>1 DEF AgingStep, TypeOK, Entry
  <2>3. NotYounger'
    BY <1>0, <1>5, <2>2 DEF NotYounger, AgingStep
  <2>4. \A s \in Slot : s < aging + 1 /\ fdb'[s].active => fdb'[s].age <= MaxAge
    <3> SUFFICES ASSUME NEW s \in Slot, s < aging + 1 /\ fdb'[s].active
                 PROVE  fdb'[s].age <= MaxAge
      OBVIOUS
    <3>1. s = aging \/ s < aging
      BY <2>1 DEF Slot
    <3>2. fdb[s].age \in Nat /\ MaxAge \in Nat
      BY <1>1, AgeAssumption DEF Age
    <3>3. CASE s = aging
      <4>1. ~(fdb[s].age > MaxAge) /\ fdb'[s].age = fdb[s].age
        BY <2>2, <3>3
      <4> QED
        BY <3>2, <4>1
    <3>4. CASE s < aging
      <4>1. fdb[s].age <= MaxAge /\ fdb'[s].age = fdb[s].age
        BY <1>0, <2>1, <2>2, <3>4, Zenon DEF Swept
      <4> QED
        BY <4>1
    <3> QED
      BY <3>1, <3>3, <3>4
  <2> QED
    BY <1>0, <2>1, <2>3, <2>4 DEF AgingInv, Swept
<1>6. CASE Tick
  <2>1. \A a, b \in Age : a <= b => Older(a) <= Older(b)
    BY AgeAssumption DEF Older, Age
  <2>2. \A s \in Slot : /\ fdb'[s].host = fdb[s].host
                        /\ fdb'[s].active = fdb[s].active
                        /\ fdb'[s].age = Older(fdb[s].age)
    BY <1>0, <1>6 DEF Tick, TypeOK, Entry
  <2>3. \A h \in Host : learned'[h].age = Older(learned[h].age)
    BY <1>0, <1>6 DEF Tick, TypeOK
  <2>4. NotYounger'
    BY <1>0, <1>1, <1>2, <2>1, <2>2, <2>3 DEF NotYounger
  <2>5. aging' = Size
    BY <1>6 DEF Tick
  <2> QED
    BY <1>0, <2>4, <2>5 DEF AgingInv, Swept
<1>7. CASE ~(FdbEntryAdd \/ AgingStep \/ Tick)
  <2>1. UNCHANGED <<fdb, learned>> /\ (aging' = aging \/ aging' = 0)
    BY <1>7 DEF Next, TapHandlerPacket, L3TapHandlerPacket, AgingStart, vars
  <2> QED
    BY <1>0, <1>3, <2>1 DEF AgingInv
<1> QED
  BY <1>4, <1>5, <1>6, <1>7

\* When fdb_aging_process has gone through the table, no host is found whose
\* last learning is older than the aging time: not through an old duplicate
\* either, for every size of the table and every hash function.
THEOREM FdbExpired == Spec => ExpiredForgotten
<1>1. ASSUME AgingInv, AgingInv', [Next]_vars, aging # Size, aging' = Size,
             NEW h \in Host, learned'[h].age > MaxAge
      PROVE  Lookup(h)' = NoPort
  <2>0. TypeOK /\ TypeOK' /\ NotYounger' /\ Swept
    BY <1>1 DEF AgingInv, FdbInv
  <2>1. AgingStep
    BY <1>1, SizeAssumption DEF Next, vars, TapHandlerPacket, L3TapHandlerPacket,
       FdbEntryAdd, AgingStart, Tick
  <2>2. aging \in Nat /\ aging' = aging + 1 /\ aging = Size - 1 /\ aging \in Slot
    BY <1>1, <2>0, <2>1, SizeAssumption DEF AgingStep, TypeOK, Slot
  <2>3. /\ \A s \in Slot : /\ fdb'[s].age = fdb[s].age
                           /\ fdb'[s].active => fdb[s].active
        /\ fdb'[aging].active => ~(fdb[aging].age > MaxAge)
    BY <2>0, <2>1, <2>2 DEF AgingStep, TypeOK, Entry
  <2>4. \A s \in Slot : fdb'[s].active => fdb'[s].age <= MaxAge
    <3> SUFFICES ASSUME NEW s \in Slot, fdb'[s].active = TRUE
                 PROVE  fdb'[s].age <= MaxAge
      OBVIOUS
    <3>1. s = aging \/ s < aging
      BY <2>2, SizeAssumption DEF Slot
    <3>2. fdb[s].age \in Nat /\ MaxAge \in Nat
      BY <2>0, AgeAssumption DEF TypeOK, Entry, Age
    <3>3. CASE s = aging
      <4>1. ~(fdb[s].age > MaxAge) /\ fdb'[s].age = fdb[s].age
        BY <2>3, <3>3, Zenon
      <4> QED
        BY <3>2, <4>1
    <3>4. CASE s < aging
      <4>1. fdb[s].age <= MaxAge /\ fdb'[s].age = fdb[s].age
        BY <1>1, <2>0, <2>3, <3>4, Zenon DEF Swept
      <4> QED
        BY <4>1
    <3> QED
      BY <3>1, <3>3, <3>4
  <2>5. \A s \in Slot : ~(fdb'[s].active /\ fdb'[s].host = h)
    <3> SUFFICES ASSUME NEW s \in Slot, fdb'[s].active, fdb'[s].host = h
                 PROVE  FALSE
      OBVIOUS
    <3>1. learned'[h].age <= fdb'[s].age /\ fdb'[s].age <= MaxAge
      BY <2>0, <2>4 DEF NotYounger
    <3>2. learned'[h].age \in Nat /\ fdb'[s].age \in Nat /\ MaxAge \in Nat
      BY <2>0, AgeAssumption DEF TypeOK, Entry, Age
    <3> QED
      BY <1>1, <3>1, <3>2
  <2>6. Hits(h)' = {}
    BY <2>5, ProbeSlot DEF Hits, Holds, Probe
  <2> QED
    BY <2>6 DEF Lookup
<1>2. AgingInv /\ AgingInv' /\ [Next]_vars =>
        [aging # Size /\ aging' = Size =>
           \A h \in Host : learned'[h].age > MaxAge => Lookup(h)' = NoPort]_vars
  BY <1>1
<1> QED
  BY <1>2, AgingInit, AgingNext, PTL DEF Spec, ExpiredForgotten
=============================================================================
