---------------------------- MODULE MCRouteTable ----------------------------
(* Small instances of RouteTable for TLC.                                    *)
EXTENDS RouteTable

MCOneFamily == <<"ipv4">>

\* Nested and neighbouring prefixes of every length, ending within and at the
\* end of a level of the FIB.
MCSomePrefixes ==
  {<<>>, <<0>>, <<0, 1>>, <<0, 1, 1>>, <<0, 1, 1, 0>>, <<0, 1, 0>>,
   <<0, 1, 1, 1>>, <<1, 0>>, <<1, 0, 1>>}
=============================================================================
