--------------------------- MODULE MCTimerService ---------------------------
(* TimerService for TLC: two observers with one period, and two others. *)
EXTENDS TimerService

CONSTANTS o1, o2, o3, o4

MCIntervals == [o \in Observers |-> CASE o = o3 -> 3 [] o = o4 -> 5 [] OTHER -> 2]
=============================================================================
