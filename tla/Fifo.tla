-------------------------------- MODULE Fifo --------------------------------
(***************************************************************************)
(* What the socket pair between the pcap thread and the loop thread        *)
(* promises, whatever it is made of: every packet is delivered once, whole *)
(* and in the order of sending.                                            *)
(***************************************************************************)
EXTENDS Naturals, Sequences

CONSTANT Msgs

VARIABLES sent, delivered

Init ==
    /\ sent = <<>>
    /\ delivered = <<>>

Send(m) ==
    /\ sent' = Append(sent, m)
    /\ UNCHANGED delivered

Deliver ==
    /\ Len(delivered) < Len(sent)
    /\ delivered' = Append(delivered, sent[Len(delivered) + 1])
    /\ UNCHANGED sent

Next == (\E m \in Msgs : Send(m)) \/ Deliver

Spec == Init /\ [][Next]_<<sent, delivered>>

=============================================================================
