---------------------------- MODULE MCStreamSync ----------------------------
(* StreamSync for TLC: packets of one and of three bytes, shorter and longer *)
(* reads than a length field.                                               *)
EXTENDS StreamSync, TLC

CONSTANTS p1, p3

MCPkts == {p1, p3}
MCLenOf == (p1 :> 1) @@ (p3 :> 3)
=============================================================================
