--------------------------- MODULE MCServerGroup ---------------------------
(* ServerGroup for TLC.  Client a dials a1 and then, from the same port and  *)
(* through the same port of the NAT, a2; its a3 has another port of the      *)
(* server but, the type bit being in the way, the same key, and a4 another   *)
(* key.  Client b uses the ports of a1 from another address.  A segment of   *)
(* a1, a2 or b1 has a key that is theirs.                                    *)
EXTENDS ServerGroup, TLC

CONSTANTS a, b, a1, a2, a3, a4, b1, v1

MCIds == {a, b}
MCConns == {a1, a2, a3, a4, b1}
MCConvs == {v1}
MCTcp ==
    (a1 :> [id |-> a, ip |-> 1, sp |-> 10001, dp |-> 10001, nat |-> 14097]) @@
    (a2 :> [id |-> a, ip |-> 1, sp |-> 10001, dp |-> 10001, nat |-> 14097]) @@
    (a3 :> [id |-> a, ip |-> 1, sp |-> 10001, dp |-> 14097, nat |-> 40001]) @@
    (a4 :> [id |-> a, ip |-> 1, sp |-> 40004, dp |-> 10001, nat |-> 40004]) @@
    (b1 :> [id |-> b, ip |-> 2, sp |-> 10001, dp |-> 10001, nat |-> 14097])
=============================================================================
