---------------------------- MODULE RibSnapshot -----------------------------
(***************************************************************************)
(* What rib_manager promises the worker lcores, without memory, copies or  *)
(* grace periods: a register of immutable snapshots.  A worker takes the   *)
(* current snapshot and keeps exactly it until it lets go.  Snapshots that *)
(* assign rx queues differently are separated by the empty snapshot, and   *)
(* the new assignment appears only when nobody uses the old one.           *)
(***************************************************************************)
CONSTANTS
  Reader,       \* the readers
  Assignment,   \* assignments of rx queues to lcores
  Fib,          \* forwarding tables
  Version,      \* version numbers
  Nothing,      \* no snapshot
  Empty         \* the snapshot without contents (the zero rib)

VARIABLES
  cur,          \* the current snapshot
  view          \* the snapshot each worker uses

Snapshot == [kind : {"rib"}, ver : Version, qconf : Assignment, fib : Fib]

Init == cur = Nothing /\ view = [w \in Reader |-> Nothing]

\* The first snapshot, or one with the same assignment of queues.
Update ==
  /\ cur # Empty
  /\ cur' \in Snapshot
  /\ cur # Nothing => cur'.qconf = cur.qconf
  /\ UNCHANGED view

\* The two steps of a change of the assignment.
Clear ==
  /\ cur \notin {Nothing, Empty}
  /\ cur' = Empty
  /\ UNCHANGED view

Change ==
  /\ cur = Empty
  /\ \A w \in Reader : view[w] \in {Nothing, Empty}
  /\ cur' \in Snapshot
  /\ UNCHANGED view

Take(w) ==
  /\ view[w] = Nothing
  /\ view' = [view EXCEPT ![w] = cur]
  /\ UNCHANGED cur

Release(w) ==
  /\ view' = [view EXCEPT ![w] = Nothing]
  /\ UNCHANGED cur

Next ==
  \/ Update
  \/ Clear
  \/ Change
  \/ \E w \in Reader : Take(w) \/ Release(w)

Spec == Init /\ [][Next]_<<cur, view>>
=============================================================================
