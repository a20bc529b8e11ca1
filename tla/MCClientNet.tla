---------------------------- MODULE MCClientNet ----------------------------
(* ClientNet for TLC. *)
EXTENDS ClientNet

CONSTANTS p1, p2, s1, s2, d1, d2, d3, u1

MCPorts == {p1, p2}
MCSrcPorts == {s1, s2}
MCDials == {d1, d2, d3}
MCUdp == {u1}
=============================================================================
