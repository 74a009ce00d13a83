----------------------------- MODULE MCNexthop ------------------------------
(* Small instances of Nexthop for TLC.                                       *)
EXTENDS Nexthop

MCInfos == {s \in BoundedSeq(Info, MaxPaths) : IsInjective(s)}
MCSymmetry == Permutations(Info) \cup Permutations(NhId) \cup Permutations(Prefix)
=============================================================================
