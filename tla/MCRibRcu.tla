------------------------------ MODULE MCRibRcu ------------------------------
(* A small instance of RibRcu for TLC. *)
EXTENDS RibRcu, TLC

CONSTANTS c1, c2, p1, a1, a2, a3, r1

MCLcore == {c1, c2}
MCPort == {p1}
MCQueueId == {0, 1}
MCAddr == {a1, a2, a3}
MCRoute == {r1}
MCQconfRoute == {"qconf", "route"}
MCPaths == {"qconf", "txrx", "tap_if", "port_get"}
MCPortGet == {"route", "port_get"}

\* Addresses are interchangeable: nothing compares them but for equality.
MCSymmetry == Permutations(MCAddr)
=============================================================================
