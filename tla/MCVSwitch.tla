----------------------------- MODULE MCVSwitch ------------------------------
(* Slots of two links are deleted and reused on one port; three links,      *)
(* tagged and untagged, are added on two ports.                             *)
EXTENDS VSwitch

MCSite ==
  {[deletes |-> TRUE, port |-> {0}, tag |-> {}, links |-> 2],
   [deletes |-> FALSE, port |-> {0, 1}, tag |-> {30}, links |-> 3]}
=============================================================================
