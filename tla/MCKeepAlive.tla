---------------------------- MODULE MCKeepAlive ----------------------------
(* KeepAlive for TLC. *)
EXTENDS KeepAlive

CONSTANTS k1, k2

\* Two connections, of which one gets old enough to be asked about by the
\* client, and one connection that both ends ask about.
MCSettings ==
    {[dialled |-> {k1, k2}, ages |-> {k1}, probers |-> {Client},
      routeEnds |-> {Client}, maxNet |-> 1],
     [dialled |-> {k1}, ages |-> {k1}, probers |-> Ends, routeEnds |-> Ends, maxNet |-> 2]}
=============================================================================
