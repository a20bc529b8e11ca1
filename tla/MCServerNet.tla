---------------------------- MODULE MCServerNet ----------------------------
(* ServerNet for TLC. *)
EXTENDS ServerNet

CONSTANTS k1, k2

MCKeys == {k1, k2}
MCResetKeys == {k1}
=============================================================================
