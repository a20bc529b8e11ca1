------------------------------- MODULE MCConv -------------------------------
(* Conv for TLC. *)
EXTENDS Conv

CONSTANTS a1, a2, ip1, ip2

\* Two applications at a client that stays where it is, and one application at
\* a client that changes its address.
MCSites == {[apps |-> {a1, a2}, ips |-> {ip1}, maxNet |-> 3],
            [apps |-> {a1}, ips |-> {ip1, ip2}, maxNet |-> 1]}
=============================================================================
