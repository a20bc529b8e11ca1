----------------------------- MODULE PortSlots -----------------------------
(***************************************************************************)
(* What the client promises for each configured server port: the port has  *)
(* one slot that is connected, broken or being dialled, the three follow   *)
(* each other in that order, and a slot is given up only while dialling or *)
(* when the client closes.  Once given up it is never taken again.         *)
(***************************************************************************)
CONSTANT Ports

VARIABLE slot

States == {"up", "down", "dialing", "none"}

Init == slot \in [Ports -> {"up", "none"}]

\* The connection of p is found dead.
Break(p) ==
    /\ slot[p] = "up"
    /\ slot' = [slot EXCEPT ![p] = "down"]

\* The dead connection of p has been closed and its port is dialled again.
Redial(p) ==
    /\ slot[p] = "down"
    /\ slot' = [slot EXCEPT ![p] = "dialing"]

Connect(p) ==
    /\ slot[p] = "dialing"
    /\ slot' = [slot EXCEPT ![p] = "up"]

\* Some of the ports being dialled are given up.
GiveUp ==
    \E lost \in SUBSET {p \in Ports : slot[p] = "dialing"} :
        slot' = [p \in Ports |-> IF p \in lost THEN "none" ELSE slot[p]]

Shutdown == slot' = [p \in Ports |-> "none"]

Next ==
    \/ \E p \in Ports : Break(p) \/ Redial(p) \/ Connect(p)
    \/ GiveUp
    \/ Shutdown

Spec == Init /\ [][Next]_slot

=============================================================================
