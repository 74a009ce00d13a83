------------------------------- MODULE MCFdb --------------------------------
(* A small instance of Fdb for TLC: three hosts, two of which collide, in a  *)
(* table of three slots.                                                     *)
EXTENDS Fdb, TLC

CONSTANTS h1, h2, h3, p1, p2

MCHost == {h1, h2, h3}
MCPort == {p1, p2}
MCHash == h1 :> 2 @@ h2 :> 2 @@ h3 :> 0
MCSymmetry == Permutations(MCPort) \cup Permutations({h1, h2})
=============================================================================
