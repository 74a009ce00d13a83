-------------------------- MODULE NeighReplication --------------------------
(***************************************************************************)
(* The neighbour table and its replica.                                    *)
(*                                                                         *)
(* neigh_manager's master table is an array sorted by address.  Every      *)
(* change of the master is sent to rib_manager as a delta, a position and  *)
(* the new number of entries, which rib_manager applies to the rib's copy  *)
(* of the array without looking at addresses.  Both rings are bounded and  *)
(* a message that does not fit is lost.  Netlink composes this component   *)
(* with the thread that feeds it and with the other messages of            *)
(* msg_queue_rib.                                                          *)
(*                                                                         *)
(* One table is modelled; the ARP and the ND table differ in key length.   *)
(***************************************************************************)
EXTENDS Integers, Sequences, FiniteSets, SequencesExt

CONSTANTS
  Key,         \* protocol addresses, as numbers in memcmp order
  Mac,         \* link-layer addresses
  None,        \* no link-layer address
  MaxEntry,    \* MAX_NEIGHBOR_ENTRY_SIZE
  NeighRing,   \* usable slots of msg_queue_neigh
  RibRing      \* usable slots of msg_queue_rib

ASSUME KeyAssumption == Key \subseteq Nat \ {0} /\ None \notin Mac
ASSUME SizeAssumption == MaxEntry \in Nat \ {0}
ASSUME RingAssumption == NeighRing \in Nat /\ RibRing \in Nat

VARIABLES
  neighq,      \* msg_queue_neigh
  master,      \* master_neigh_tables[type]
  ribq,        \* msg_queue_rib
  rib,         \* neigh_tables[type] of the published rib
  crashed      \* a memmove with a negative length

neighVars == <<neighq, master, ribq, rib, crashed>>

\* Arrays are indexed from 0; a zeroed entry has the address 0.
Index == 0 .. MaxEntry - 1
Entry == [key : Key \cup {0}, mac : Mac \cup {None}]
ZeroEntry == [key |-> 0, mac |-> None]
NeighTable == [entries : [Index -> Entry], num : 0 .. MaxEntry]
EmptyTable == [entries |-> [i \in Index |-> ZeroEntry], num |-> 0]

Event == [op : {"add", "del"}, data : Entry]
Delta == [op : {"add", "del"}, data : Entry, pos : Index, num : 0 .. MaxEntry]

NeighInit ==
  /\ neighq = <<>> /\ ribq = <<>>
  /\ master = EmptyTable /\ rib = EmptyTable
  /\ crashed = FALSE

-----------------------------------------------------------------------------
(* Array operations.                                                       *)

\* memmove (&e[to], &e[from], n entries); what falls off the end is dropped.
Memmove(e, to, from, n) ==
  [i \in Index |-> IF to <= i /\ i < to + n /\ from + (i - to) \in Index
                   THEN e[from + (i - to)] ELSE e[i]]

\* One turn of the loop of the binary search.
Probe(t, key, at) ==
  LET mid == (at.left + at.right) \div 2
  IN  IF at.found \/ at.left > at.right THEN at
      ELSE IF t.entries[mid].key = key THEN [left |-> mid, right |-> mid, found |-> TRUE]
      ELSE IF t.entries[mid].key < key
      THEN [left |-> mid + 1, right |-> at.right, found |-> FALSE]
      ELSE [left |-> at.left, right |-> mid - 1, found |-> FALSE]

\* neigh_manager_lookup: the position of the entry, or where to insert it.
\* Every turn looks at another entry.
Lookup(t, key) ==
  LET turn[n \in 0 .. t.num] ==
        IF n = 0 THEN [left |-> 0, right |-> t.num - 1, found |-> FALSE]
        ELSE Probe(t, key, turn[n - 1])
      end == turn[t.num]
  IN  [pos |-> end.left, found |-> end.found]

InsertEntry(t, pos, d) ==
  [entries |-> [Memmove(t.entries, pos + 1, pos, t.num - pos) EXCEPT ![pos] = d],
   num |-> t.num + 1]

RemoveEntry(t, pos) ==
  [entries |-> Memmove(t.entries, pos, pos + 1, t.num - 1 - pos),
   num |-> t.num - 1]

-----------------------------------------------------------------------------
(* Rings.                                                                  *)

\* internal_msg_send_to: a message for a full ring is freed and lost.
Enqueue(q, size, m) == IF Len(q) < size THEN Append(q, m) ELSE q

-----------------------------------------------------------------------------
(* neigh_manager.                                                          *)

\* Mutant: the entry goes behind the position the lookup returned.
AddEntryBehind(t, d) ==
  LET at == Lookup(t, d.key)
  IN  IF t.num >= MaxEntry THEN [pos |-> -1, table |-> t]
      ELSE IF at.found
      THEN [pos |-> at.pos, table |-> [t EXCEPT !.entries[at.pos] = d]]
      ELSE LET p == IF at.pos < t.num THEN at.pos + 1 ELSE at.pos
           IN  [pos |-> p, table |-> InsertEntry(t, p, d)]

\* Mutant: an existing entry is left alone.
AddEntryNoUpdate(t, d) ==
  LET at == Lookup(t, d.key)
  IN  IF t.num >= MaxEntry \/ at.found THEN [pos |-> -1, table |-> t]
      ELSE [pos |-> at.pos, table |-> InsertEntry(t, at.pos, d)]

\* neigh_manager_add_entry: a full table refuses updates, too.
AddEntry(t, d) ==
  LET at == Lookup(t, d.key)
  IN  IF t.num >= MaxEntry THEN [pos |-> -1, table |-> t]
      ELSE IF at.found
      THEN [pos |-> at.pos, table |-> [t EXCEPT !.entries[at.pos] = d]]
      ELSE [pos |-> at.pos, table |-> InsertEntry(t, at.pos, d)]

\* neigh_manager_delete_entry.
DeleteEntry(t, d) ==
  LET at == Lookup(t, d.key)
  IN  IF at.found THEN [pos |-> at.pos, table |-> RemoveEntry(t, at.pos)]
      ELSE [pos |-> -1, table |-> t]

\* Mutant: the delta carries the number of entries before the change.
NeighManagerOldNum ==
  /\ ~crashed /\ neighq # <<>>
  /\ LET ev == Head(neighq)
         res == IF ev.op = "add" THEN AddEntry(master, ev.data)
                                 ELSE DeleteEntry(master, ev.data)
     IN  /\ master' = res.table
         /\ ribq' = IF res.pos < 0 THEN ribq
                    ELSE Enqueue(ribq, RibRing,
                                 [op |-> ev.op, data |-> ev.data,
                                  pos |-> res.pos, num |-> master.num])
  /\ neighq' = Tail(neighq)
  /\ UNCHANGED <<rib, crashed>>

\* neigh_manager_process_message: change the master, send the delta.
NeighManager ==
  /\ ~crashed /\ neighq # <<>>
  /\ LET ev == Head(neighq)
         res == IF ev.op = "add" THEN AddEntry(master, ev.data)
                                 ELSE DeleteEntry(master, ev.data)
     IN  /\ master' = res.table
         /\ ribq' = IF res.pos < 0 THEN ribq
                    ELSE Enqueue(ribq, RibRing,
                                 [op |-> ev.op, data |-> ev.data,
                                  pos |-> res.pos, num |-> res.table.num])
  /\ neighq' = Tail(neighq)
  /\ UNCHANGED <<rib, crashed>>

-----------------------------------------------------------------------------
(* rib_manager.                                                            *)

\* NEIGH_ENTRY_ADD: more entries in the master than here mean an insertion.
ApplyAdd(t, d) ==
  LET moved == IF d.num > t.num
               THEN Memmove(t.entries, d.pos + 1, d.pos, t.num - d.pos)
               ELSE t.entries
  IN  [entries |-> [moved EXCEPT ![d.pos] = d.data], num |-> d.num]

\* The length of the memmove of NEIGH_ENTRY_ADD is computed as a size_t.
NegativeLength(t, d) == d.op = "add" /\ d.num > t.num /\ t.num < d.pos

\* Mutant: only the number of entries is taken over.
ApplyDelNoMove(t, d) == [entries |-> t.entries, num |-> d.num]

\* NEIGH_ENTRY_DEL.
ApplyDel(t, d) ==
  [entries |-> Memmove(t.entries, d.pos, d.pos + 1, d.num - d.pos),
   num |-> d.num]

Apply(t, d) == IF d.op = "add" THEN ApplyAdd(t, d) ELSE ApplyDel(t, d)

IsDelta(m) == m.op \in {"add", "del"}

\* The neighbour messages of rib_manager_process_message.
NeighMessage ==
  /\ ~crashed /\ ribq # <<>> /\ IsDelta(Head(ribq))
  /\ IF NegativeLength(rib, Head(ribq))
     THEN crashed' = TRUE /\ UNCHANGED rib
     ELSE crashed' = FALSE /\ rib' = Apply(rib, Head(ribq))
  /\ ribq' = Tail(ribq)
  /\ UNCHANGED <<neighq, master>>

-----------------------------------------------------------------------------
(* Properties.                                                             *)

NeighTypeOK ==
  /\ neighq \in Seq(Event)
  /\ \A i \in DOMAIN ribq : IsDelta(ribq[i]) => ribq[i] \in Delta
  /\ master \in NeighTable /\ rib \in NeighTable
  /\ crashed \in BOOLEAN

\* The binary search relies on it: the master's addresses strictly ascend,
\* whatever insertions and deletions were made in the middle of the array.
MasterSorted ==
  \A i, j \in 0 .. master.num - 1 :
    i < j => master.entries[i].key < master.entries[j].key

Same(s, t) ==
  s.num = t.num /\ \A i \in 0 .. s.num - 1 : s.entries[i] = t.entries[i]

\* The rib's table r after each of the messages of q under way.
Tables(r, q) ==
  LET after[n \in 0 .. Len(q)] ==
        IF n = 0 THEN r
        ELSE IF IsDelta(q[n]) THEN Apply(after[n - 1], q[n]) ELSE after[n - 1]
  IN  after

Pending == Tables(rib, ribq)[Len(ribq)]

\* The deltas under way turn the rib's table into the master's, although
\* they name positions and not addresses, and none of them can crash.
ReplicaFollows == ~crashed /\ Same(Pending, master)

\* No delta under way is about a position behind the end of the table it
\* will find (part of the inductive invariant).
DeltasFitTables ==
  \A n \in 1 .. Len(ribq) :
    IsDelta(ribq[n]) => ~NegativeLength(Tables(rib, ribq)[n - 1], ribq[n])

\* msg_queue_rib has room whenever neigh_manager has something to send.
DeltasSent == [][NeighManager => Len(ribq) < RibRing]_neighVars

\* The mac a worker finds for an address in the rib.
Resolve(k) ==
  LET at == Lookup(rib, k) IN IF at.found THEN rib.entries[at.pos].mac ELSE None
=============================================================================
