-------------------------------- MODULE Fdb ---------------------------------
(***************************************************************************)
(* The forwarding database: which port a host was last seen on.            *)
(*                                                                         *)
(* The FDB is an open-addressing hash table inside the rib.  The tap       *)
(* handlers look hosts up and send messages, rib_manager adds entries, and *)
(* every minute ages the published table in place, slot by slot, while the *)
(* workers look destinations up in it.  An aged slot is simply emptied:    *)
(* there are no tombstones, so one host may come to have several entries.  *)
(*                                                                         *)
(* A host is a pair of MAC address and VLAN.  Times are kept as ages,      *)
(* which stop growing once they exceed the aging time.                     *)
(***************************************************************************)
EXTENDS Integers, Sequences, FiniteSetsExt

CONSTANTS
  Host,        \* (l2addr, vlan_id) pairs
  Port,        \* ports
  NoPort,      \* the result of a lookup that misses
  Size,        \* FDB_SIZE
  Hash,        \* fdb_jenkins_hash
  MaxAge,      \* FDB_AGING_TIME_DEFAULT
  RingSize     \* usable slots of msg_queue_rib

ASSUME SizeAssumption == Size \in Nat \ {0}
ASSUME HashAssumption == Hash \in [Host -> 0 .. Size - 1]
ASSUME AgeAssumption == MaxAge \in Nat
ASSUME PortAssumption == NoPort \notin Port
ASSUME RingAssumption == RingSize \in Nat

VARIABLES
  fdb,         \* the table of the published rib
  ring,        \* FDB_ENTRY_ADD messages under way
  aging,       \* next slot of a running fdb_aging_process, or Size
  learned      \* history: what rib_manager last learned of each host

vars == <<fdb, ring, aging, learned>>

Slot == 0 .. Size - 1
Age == 0 .. MaxAge + 1
Message == [host : Host, port : Port]
Entry == [active : BOOLEAN, host : Host, port : Port, age : Age]

\* A slot that was never used holds no host; any will do, as it is inactive.
Init ==
  /\ \E h \in Host, p \in Port :
       fdb = [s \in Slot |-> [active |-> FALSE, host |-> h, port |-> p, age |-> 0]]
  /\ ring = <<>>
  /\ aging = Size
  /\ learned = [h \in Host |-> [port |-> NoPort, age |-> MaxAge + 1]]

-----------------------------------------------------------------------------
\* The i-th slot visited for a host.
Probe(h, i) == (Hash[h] + i) % Size

Holds(s, h) == fdb[s].active /\ fdb[s].host = h

\* Where the probe sequence of h meets its entries.
Hits(h) == {i \in Slot : Holds(Probe(h, i), h)}

\* Mutant: the loop condition that is commented out in fdb_lookup_entry; the
\* search ends at the first empty slot.
LookupToNone(h) ==
  LET reach == {i \in Hits(h) : \A j \in 0 .. i : fdb[Probe(h, j)].active}
  IN  IF reach = {} THEN NoPort ELSE fdb[Probe(h, Min(reach))].port

\* fdb_lookup_entry: the first active entry of the host, all round the table.
Lookup(h) == IF Hits(h) = {} THEN NoPort ELSE fdb[Probe(h, Min(Hits(h)))].port

\* fdb_add_entry stops at the host's entry or at an empty slot.
Stops(h) == Hits(h) \cup {i \in Slot : ~fdb[Probe(h, i)].active}

\* internal_msg_send_to: a message for a full ring is lost.
Send(h, p) ==
  ring' = IF Len(ring) < RingSize THEN Append(ring, [host |-> h, port |-> p])
                                  ELSE ring

\* A frame from h on port p reaches tap_handler, which always sends.
TapHandlerPacket(h, p) ==
  /\ Send(h, p)
  /\ UNCHANGED <<fdb, aging, learned>>

\* ... or l3_tap_handler, which sends only for an unknown source.
L3TapHandlerPacket(h, p) ==
  /\ Lookup(h) = NoPort
  /\ Send(h, p)
  /\ UNCHANGED <<fdb, aging, learned>>

\* fdb_add_entry; a full table without the host refuses it.
AddEntry(h, p) ==
  IF Stops(h) = {} THEN UNCHANGED <<fdb, learned>>
  ELSE /\ fdb' = [fdb EXCEPT ![Probe(h, Min(Stops(h)))] =
                    [active |-> TRUE, host |-> h, port |-> p, age |-> 0]]
       /\ learned' = [learned EXCEPT ![h] = [port |-> p, age |-> 0]]

\* rib_manager handles FDB_ENTRY_ADD.
FdbEntryAdd ==
  /\ aging = Size /\ ring # <<>>
  /\ AddEntry(Head(ring).host, Head(ring).port)
  /\ ring' = Tail(ring)
  /\ UNCHANGED aging

\* fdb_aging_process of the published table starts, when it is due.
AgingStart ==
  /\ aging = Size
  /\ aging' = 0
  /\ UNCHANGED <<fdb, ring, learned>>

\* Mutants: the pass visits one slot too many; it ends at the first entry
\* that it ages.
AgingStepBeyond ==
  /\ aging <= Size
  /\ fdb' = [s \in Slot |-> IF s = aging /\ fdb[s].age > MaxAge
                            THEN [fdb[s] EXCEPT !.active = FALSE] ELSE fdb[s]]
  /\ aging' = aging + 1
  /\ UNCHANGED <<ring, learned>>

AgingStepOne ==
  /\ aging < Size
  /\ LET old == fdb[aging].active /\ fdb[aging].age > MaxAge
     IN  /\ fdb' = [fdb EXCEPT ![aging].active = @ /\ ~old]
         /\ aging' = IF old THEN Size ELSE aging + 1
  /\ UNCHANGED <<ring, learned>>

AgingStep ==
  /\ aging < Size
  /\ fdb' = IF fdb[aging].active /\ fdb[aging].age > MaxAge
            THEN [fdb EXCEPT ![aging].active = FALSE] ELSE fdb
  /\ aging' = aging + 1
  /\ UNCHANGED <<ring, learned>>

Older(a) == IF a > MaxAge THEN a ELSE a + 1

\* Time passes; one aging pass sees one current_time.
Tick ==
  /\ aging = Size
  /\ fdb' = [s \in Slot |-> [fdb[s] EXCEPT !.age = Older(@)]]
  /\ learned' = [h \in Host |-> [learned[h] EXCEPT !.age = Older(@)]]
  /\ UNCHANGED <<ring, aging>>

Next ==
  \/ \E h \in Host, p \in Port : TapHandlerPacket(h, p) \/ L3TapHandlerPacket(h, p)
  \/ FdbEntryAdd
  \/ AgingStart
  \/ AgingStep
  \/ Tick

Spec == Init /\ [][Next]_vars

-----------------------------------------------------------------------------
(* Properties.                                                             *)

TypeOK ==
  /\ fdb \in [Slot -> Entry]
  /\ ring \in Seq(Message)
  /\ aging \in 0 .. Size
  /\ learned \in [Host -> [port : Port \cup {NoPort}, age : Age]]

\* A host learned within the aging time is found at the port it was last
\* learned on, also when the table holds older entries of it, when slots
\* before it were emptied, and in the middle of an aging pass.
FreshestFound ==
  \A h \in Host : learned[h].age <= MaxAge => Lookup(h) = learned[h].port

\* The strengthening that makes it inductive: the entry the lookup meets
\* first is the one learned last.
Fresh(h) ==
  \E i \in Hits(h) :
    /\ \A j \in Hits(h) : i <= j
    /\ fdb[Probe(h, i)].port = learned[h].port
    /\ fdb[Probe(h, i)].age = learned[h].age

FdbInv == TypeOK /\ \A h \in Host : learned[h].age <= MaxAge => Fresh(h)

\* No entry of a host is younger than what was last learned of it, and a pass
\* leaves no old entry behind it.
NotYounger ==
  \A s \in Slot : fdb[s].active => learned[fdb[s].host].age <= fdb[s].age
Swept ==
  aging # Size => \A s \in Slot : s < aging /\ fdb[s].active => fdb[s].age <= MaxAge

AgingInv == FdbInv /\ NotYounger /\ Swept

\* When an aging pass is over no host is found whose last learning is
\* older than the aging time.
ExpiredForgotten ==
  [][aging # Size /\ aging' = Size =>
       \A h \in Host : learned'[h].age > MaxAge => Lookup(h)' = NoPort]_vars
=============================================================================
