------------------------------ MODULE MCNetlink ------------------------------
(* Small instances of Netlink for TLC. *)
EXTENDS Netlink, TLC

CONSTANTS m1, m2, t1, t2, a1, a2

MCKey == 1 .. 3
MCMac == {m1, m2}
MCTap == {t1, t2}
MCNameLen == t1 :> 6 @@ t2 :> 3
MCAddr == {a1, a2}
MCSlot == 1 .. 2

Nothing == [x \in {} |-> None]
Has(i, mac, v4, ll) ==
  [idx |-> i, addr |-> [f \in Field |-> CASE f = "mac" -> mac [] f = "v4" -> v4
                                          [] f = "v6" -> Zero [] f = "ll" -> ll]]

Base == [key |-> {}, lladdr |-> Nothing, tap |-> {}, field |-> {"mac"}, addr |-> MCAddr,
         kernel |-> Nothing, dev |-> Nothing,
         wait |-> FALSE, late |-> FALSE, remove |-> FALSE, refuse |-> FALSE, reject |-> FALSE]

\* Neighbours that come, change and go in any order.
Neighbours == [Base EXCEPT !.key = {1, 2, 3},
                           !.lladdr = 1 :> {m1} @@ 2 :> {m1, m2, None} @@ 3 :> {m1}]

\* The dump meets neighbours that change, or is refused.
NeighDump == [Base EXCEPT !.key = {1, 3}, !.kernel = 1 :> m1 @@ 3 :> m2,
                          !.wait = TRUE, !.refuse = TRUE,
                          !.lladdr = [k \in {1, 3} |-> {m1, m2, None}]]

\* The startup configuration sets an interface for a device that is there.
Startup == [Base EXCEPT !.tap = {t1}, !.field = Field, !.wait = TRUE,
                        !.dev = t1 :> Has(1, a1, a2, Zero)]

\* Interfaces are set, renamed and deleted at any time.
Rename == [Base EXCEPT !.tap = {t1, t2}, !.field = {"mac"}, !.addr = {a1},
                       !.late = TRUE, !.reject = TRUE]

\* Devices are removed while messages about them are under way.
Removal == [Base EXCEPT !.tap = {t1}, !.field = {"mac", "v4"}, !.late = TRUE, !.remove = TRUE]

MCSite == {Neighbours, NeighDump, Startup, Rename, Removal}
=============================================================================
