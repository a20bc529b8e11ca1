------------------------------ MODULE MCRoute ------------------------------
(* Route for TLC: two Ethernet devices and one without a link header.     *)
EXTENDS Route

CONSTANTS n1, n2, n3

MCLink == [n \in Networks |-> IF n = n3 THEN "NULL" ELSE "EN10MB"]
=============================================================================
