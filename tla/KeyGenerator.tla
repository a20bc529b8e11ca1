---------------------------- MODULE KeyGenerator ----------------------------
(***************************************************************************)
(* The key of a TCP connection (src/util/KeyGenerator.cpp): a type bit     *)
(* or'ed into the destination port, above the source port.  A key is       *)
(* written here as the pair of its two 16-bit halves <<upper, lower>>; the *)
(* upper 32 bits of the 64-bit key are always zero.                        *)
(***************************************************************************)
LOCAL INSTANCE Naturals

PortNumbers == 1 .. 65535

\* x | 2^12: TYPE_TCP, 0x10000000, seen from the upper half.
OrTypeTcp(x) == IF (x \div 4096) % 2 = 1 THEN x ELSE x + 4096

KeyForTcp(sp, dp) == <<OrTypeTcp(dp), sp>>

=============================================================================
