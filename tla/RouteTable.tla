----------------------------- MODULE RouteTable -----------------------------
(***************************************************************************)
(* Routing tables: the binary radix tree that holds the routes, and the    *)
(* 2^K-ary tree of leaves that is rebuilt from it for the workers.         *)
(*                                                                         *)
(* A prefix is a sequence of bits, an address one of full width.  The      *)
(* radix tree is the set of its nodes (a node is named by the path to it)  *)
(* and the entries of the valid ones.  The FIB is a tree of nested records *)
(* and a pointer to a node is <<node>>, or <<>> for NULL.                  *)
(*                                                                         *)
(* FibAdd, FibLookup and Traverse recur like the code, so that this module *)
(* is for TLC only.                                                        *)
(***************************************************************************)
EXTENDS Naturals, Sequences, FiniteSets, FiniteSetsExt, SequencesExt

CONSTANTS
  Width,       \* bits of an address
  K,           \* bits per level of the FIB
  Nexthop,     \* sdplane_nh_ids
  Family,      \* address families, a sequence in the order the workers assume
  MaxRoutes,   \* bound: routes per family
  RoutePrefix, \* the prefixes routes are for
  Deletions    \* "none", "present" (only of routes in the table) or "any"

ASSUME WidthAssumption == K \in Nat \ {0} /\ Width \in Nat /\ Width % K = 0
ASSUME DeletionsAssumption == Deletions \in {"none", "present", "any"}

VARIABLES
  table,     \* rib_tree_master: the tables in the order they were created
  routes     \* history: the kernel's routes of each family

vars == <<table, routes>>

Bits(n) == [1 .. n -> {0, 1}]
Prefix == UNION {Bits(n) : n \in 0 .. Width}
ASSUME PrefixAssumption == RoutePrefix \subseteq Prefix

Families == ToSet(Family)
NoRoutes == [p \in {} |-> 0]

Init ==
  /\ table = <<>>
  /\ routes = [f \in Families |-> NoRoutes]

-----------------------------------------------------------------------------
(* The radix tree.                                                         *)

Insert(f, p, x) == [q \in DOMAIN f \cup {p} |-> IF q = p THEN x ELSE f[q]]
Without(f, S) == [q \in DOMAIN f \ S |-> f[q]]
Below(nodes, p) == {q \in nodes : IsPrefix(p, q)}

\* _add creates the nodes on the path and overwrites an entry.
RadixAdd(t, p, nh) ==
  [t EXCEPT !.nodes = @ \cup {q \in Prefix : IsPrefix(q, p)},
            !.entry = Insert(@, p, nh)]

\* _delete.  Below a deleted route _shrink frees the nodes that lead to no
\* route.  If the node of p holds no route, _delete returns NULL for it, and
\* all that is below p leaves the tree.
RadixDelete(t, p) ==
  IF p \in DOMAIN t.entry
  THEN LET entry == Without(t.entry, {p})
       IN  [t EXCEPT
              !.nodes = @ \ {q \in Below(@, p) : Below(DOMAIN entry, q) = {}},
              !.entry = entry]
  ELSE [t EXCEPT !.nodes = @ \ Below(@, p), !.entry = Without(@, Below(t.nodes, p))]

\* _traverse: a node, then its left, then its right subtree.
RECURSIVE Traverse(_, _)
Traverse(t, p) ==
  IF p \notin t.nodes THEN <<>>
  ELSE (IF p \in DOMAIN t.entry THEN <<p>> ELSE <<>>)
       \o Traverse(t, Append(p, 0)) \o Traverse(t, Append(p, 1))

-----------------------------------------------------------------------------
(* The FIB.                                                                *)

Branch == 0 .. 2 ^ K - 1

NewNode == [leaf |-> FALSE, key |-> <<>>, nh |-> 0, child |-> [i \in Branch |-> <<>>]]

\* BIT_INDEX: n bits of the key from bit s on.  The key is zero behind its
\* length.
BitIndex(key, s, n) ==
  LET bit(i) == IF s + i <= Len(key) THEN key[s + i] ELSE 0
  IN  FoldLeft(LAMBDA acc, i : 2 * acc + bit(i), 0, [i \in 1 .. n |-> i])

\* Mutant: the base is not shifted.
CoveredUnshifted(key, plen, bits) ==
  LET first == BitIndex(key, plen, bits)
  IN  first .. first + 2 ^ (K - bits) - 1

\* The children a prefix that ends within this level covers.
Covered(key, plen, bits) ==
  LET first == BitIndex(key, plen, bits) * 2 ^ (K - bits)
  IN  first .. first + 2 ^ (K - bits) - 1

\* _add of fib.c.  A leaf holds the longest prefix of its range; when a leaf
\* is split its prefix is pushed down to all children.
RECURSIVE FibAdd(_, _, _, _)
FibAdd(ptr, key, nh, plen) ==
  LET n == IF ptr = <<>> THEN NewNode ELSE ptr[1]
      bits == IF Len(key) >= plen + K THEN K ELSE Len(key) - plen
      pushed(i) == IF n.leaf THEN FibAdd(n.child[i], n.key, n.nh, plen + K)
                             ELSE n.child[i]
      add(child) == FibAdd(child, key, nh, plen + K)
  IN  IF Len(key) <= plen
      THEN IF ~n.leaf /\ ptr # <<>>
           THEN <<[n EXCEPT !.child = [i \in Branch |-> add(n.child[i])]]>>
           ELSE IF n.leaf /\ Len(key) <= Len(n.key) THEN ptr
           ELSE <<[n EXCEPT !.leaf = TRUE, !.key = key, !.nh = nh]>>
      ELSE IF Len(key) < plen + K \/ n.leaf
      THEN <<[n EXCEPT !.leaf = FALSE,
                       !.child = [i \in Branch |->
                          IF i \in Covered(key, plen, bits) THEN add(pushed(i))
                                                            ELSE pushed(i)]]>>
      ELSE <<[n EXCEPT !.child[BitIndex(key, plen, K)] = add(@)]>>

\* _lookup of fib.c: the last leaf on the way down.
RECURSIVE FibLookup(_, _, _, _)
FibLookup(ptr, cand, addr, plen) ==
  IF ptr = <<>> THEN cand
  ELSE FibLookup(ptr[1].child[BitIndex(addr, plen, K)],
                 IF ptr[1].leaf THEN ptr[1].nh ELSE cand, addr, plen + K)

\* rebuild_fib_from_rib
Rebuild(t) ==
  FoldLeft(LAMBDA fib, p : FibAdd(fib, p, t.entry[p], 0), <<>>, Traverse(t, <<>>))

-----------------------------------------------------------------------------
(* Route messages.                                                         *)

\* route_table_lookup_id and route_table_alloc_slot; only the main table of
\* each family exists, and there is a slot for each of them.
TableOf(f) == {i \in DOMAIN table : table[i].family = f}

RouteEntryAdd(f, p, nh) ==
  LET empty == [family |-> f, nodes |-> {}, entry |-> NoRoutes]
  IN  /\ Cardinality(DOMAIN routes[f] \cup {p}) <= MaxRoutes
      /\ table' = IF TableOf(f) = {} THEN Append(table, RadixAdd(empty, p, nh))
                  ELSE [table EXCEPT ![Min(TableOf(f))] = RadixAdd(@, p, nh)]
      /\ routes' = [routes EXCEPT ![f] = Insert(@, p, nh)]

\* The kernel reports a route gone; one prefix may have several, so that a
\* prefix may be reported twice.
RouteEntryDel(f, p) ==
  /\ Deletions = "any" \/ (Deletions = "present" /\ p \in DOMAIN routes[f])
  /\ TableOf(f) # {}
  /\ table' = [table EXCEPT ![Min(TableOf(f))] = RadixDelete(@, p)]
  /\ routes' = [routes EXCEPT ![f] = Without(@, {p})]

Next ==
  \E f \in Families, p \in RoutePrefix :
    RouteEntryDel(f, p) \/ \E nh \in Nexthop : RouteEntryAdd(f, p, nh)

Spec == Init /\ [][Next]_vars

-----------------------------------------------------------------------------
(* Properties.                                                             *)

\* Reference: the next hop of the longest prefix of the address, or 0.
Longest(r, addr) ==
  LET match == {p \in DOMAIN r : IsPrefix(p, addr)}
  IN  IF match = {} THEN 0
      ELSE r[CHOOSE p \in match : \A q \in match : Len(q) <= Len(p)]

\* The radix tree is a tree: it holds the path to each node, and every entry
\* has its node.
TypeOK ==
  \A i \in DOMAIN table :
    LET t == table[i]
    IN  /\ t.family \in Families
        /\ t.nodes \subseteq Prefix
        /\ \A p \in t.nodes, q \in Prefix : IsPrefix(q, p) => q \in t.nodes
        /\ DOMAIN t.entry \subseteq t.nodes

\* A lookup in the rebuilt FIB gives the next hop of the longest prefix among
\* the kernel's routes, for every address, however the tree was shaped by the
\* routes added, replaced and deleted before.
FibIsLongestPrefix ==
  /\ TypeOK
  /\ \A i \in DOMAIN table :
       LET fib == Rebuild(table[i])
       IN  \A addr \in Bits(Width) :
             FibLookup(fib, 0, addr, 0) = Longest(routes[table[i].family], addr)
=============================================================================
