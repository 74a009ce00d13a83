----------------------------- MODULE MCVtyShell -----------------------------
(* The situations TLC explores of VtyShell. *)
EXTENDS VtyShell

CONSTANTS k1, k2, k3

MCSlots == <<"v0", "v1", "v2">>
MCClient == {k1, k2, k3}
MCPrintable == {"a", "b", " ", "/", "#", "P", "[", "A", "q", "s", "f", "x", "p"}
MCByte == [k \in {"^@", "P", "^X", "NAWS"} |->
             CASE k = "^@" -> 0 [] k = "P" -> 80 [] k = "^X" -> 24 [] OTHER -> 31]

C(w) == <<w>>
Branch == <<<<"a", "b">>, <<"b">>>>
Leaf == <<<<"a", "a">>, Variable>>
MCEffect ==
  [c \in {C(<<"b">>), Branch, Leaf, C(<<"s">>), C(<<"f">>), C(<<"x">>), C(<<"p">>)} |->
     CASE c = C(<<"s">>) -> "sleep" [] c = C(<<"f">>) -> "fail"
       [] c = C(<<"x">>) -> "exit" [] c = C(<<"p">>) -> "pager" [] OTHER -> "ok"]
MCCommands == DOMAIN MCEffect

Nothing == [inputs |-> {}, sends |-> 0, ahead |-> FALSE, slots |-> 2, served |-> <<>>,
            connect |-> {}, hangup |-> FALSE, ribs |-> 1, config |-> NoConfig]

\* Every editing key, one client.
EditKeys == {"a", "b", " ", "/", "^A", "^B", "^D", "^E", "^F", "^H", "^I", "^K", "^L",
             "^R", "^U", "^W", "^Y", "DEL", "?"}
Edit == [Nothing EXCEPT
  !.inputs = {<<k>> : k \in EditKeys} \cup
             {<<"ESC", "b">>, <<"ESC", "f">>, <<"ESC", "DEL">>, <<"ESC", "[", "C">>,
              <<"ESC", "[", "D">>, <<"ESC", "ESC">>, <<"^@">>, <<"a", "^B", " ">>},
  !.sends = 4, !.served = [v0 |-> k1]]

\* Lines executed and recalled.
History == [Nothing EXCEPT
  !.inputs = {<<"b", "^M">>, <<"s", "^M">>, <<"a", " ", "^J">>, <<"^P">>, <<"^N">>,
              <<"ESC", "[", "A">>, <<"ESC", "[", "B">>, <<"^M">>},
  !.sends = 6, !.served = [v0 |-> k1]]

\* Telnet negotiation between keys and inside an escape sequence.
Telnet == [Nothing EXCEPT
  !.inputs = {<<"a">>, <<"ESC">>, <<"IAC", "DO", "SGA">>, <<"IAC", "NOP">>, <<"^R">>,
              <<"IAC", "SB", "NAWS", "^@", "P", "^@", "^X", "IAC", "SE">>},
  !.sends = 6, !.served = [v0 |-> k1]]

\* Pasted commands of two clients, with ribs replaced under them.
Paste == [Nothing EXCEPT
  !.inputs = {<<"s", "^M", "b", "^M">>, <<"b", "^M">>},
  !.sends = 2, !.ahead = TRUE, !.served = [v0 |-> k1, v1 |-> k2], !.ribs = 3]

\* Clients that come, leave and wait for a slot.
Visit == [Nothing EXCEPT
  !.inputs = {<<"x", "^M">>, <<"s", "^M">>},
  !.sends = 1, !.served = [v0 |-> k1], !.connect = {k2, k3}, !.hangup = TRUE, !.ribs = 2]

\* Commands with a pager.
Pager == [Nothing EXCEPT
  !.inputs = {<<"p", "^M">>, <<"q">>, <<"s", "^M", "a">>, <<"b", "^M", "^J">>},
  !.sends = 3, !.ahead = TRUE, !.served = [v0 |-> k1], !.hangup = TRUE]

\* Clients that come while a pager runs, and get the number of its pipe.
PagerCuts == [Nothing EXCEPT
  !.inputs = {<<"p", "^M">>, <<"b", "^M">>},
  !.sends = 2, !.slots = 3, !.served = [v0 |-> k1], !.connect = {k2, k3},
  !.hangup = TRUE]

\* Startup configurations, read in pieces; a client is there already.
Configs == {
  <<"b", "^J", "s", "^J", "b", "^J">>,
  <<"b", " ", "#", "x", "^J", "#", "^J", "a", "b", " ", " ", "b", "^J">>,
  <<"b", "^J", "f", "^J", "b", "^J", "s", "^J">>,
  <<"b", "^J", "a", "^J", "s", "^J">>,
  <<"b", "^J", "x", "^J", "b", "^J", "b", "^J">>,
  <<"x", "^J", "b", "^J">>,
  <<"x", "^J", "#", "^J", "b", "^J">>,
  <<"p", "^J", "#", "#", "#", "^J", "b", "^J", "#", "#", "b", "^J">>,
  <<" ", "#", "^J", "b", "^J">>,
  <<"b", "^J", "b">>}
Config(c) == [Nothing EXCEPT
  !.inputs = {<<"s", "^M", "b", "^M">>}, !.sends = 1, !.connect = {k1}, !.ribs = 2,
  !.config = c]

StartSites == {Config(c) : c \in Configs}

MCSite == {Edit, History, Telnet, Paste, Visit, Pager, PagerCuts} \cup StartSites
=============================================================================
