------------------------------- MODULE MCApp -------------------------------
(* Options for App: addresses with a port above 2^16, with port 0, without *)
(* an ip, and 0.0.0.0; port lists with a range, with a range that is cut   *)
(* to nothing, with port 0 after the cut, reversed, empty, malformed.      *)
EXTENDS App

CONSTANTS g1, g2

Addr(i, p) == [ip |-> i, port |-> p]

MCTaddrs == {Addr("remote", 65616), Addr("remote", 0), Addr("", 80), Addr("zero", NoPort)}
MCLudps == {Addr("local", 30000), Addr("local", NoPort), Addr("", NotNumber)}
MCPortLists == {<<<<80>>, <<10001, 10005>>>>, <<<<65536>>>>, <<<<65530, 65540>>>>,
                <<<<10005, 10001>>>>, <<>>, <<BadItem>>}

\* Lists whose ports are in range, for App_udp.
MCPlainPorts == {<<<<80>>, <<10001, 10005>>>>}
=============================================================================
