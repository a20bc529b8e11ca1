-------------------------- MODULE KeepAliveProofs --------------------------
(***************************************************************************)
(* Proofs about KeepAlive for every set of keys, every retry limit and     *)
(* every setting.                                                          *)
(*                                                                         *)
(* EndsMatch is inductive together with PoolSound: the server may create   *)
(* its end of a connection long after it was accepted, and then the other  *)
(* end is there or its FIN is in the server's kernel.                      *)
(*                                                                         *)
(* TimeoutAfterThreeTrials needs Counted, which relates the trials the     *)
(* code counts by key to the requests sent for the object that has the     *)
(* key, and the facts that keep an old count away from a new object.       *)
(***************************************************************************)
EXTENDS KeepAlive, TLAPS

Conns == [Keys -> NetConn \cup {NoEnd}]

Shapes ==
    /\ conn \in [Ends -> Conns]
    /\ mReqMap \in [Ends -> [Keys -> Int]]
    /\ todo \in [Ends -> SUBSET Keys]
    /\ accepted \subseteq Keys
    /\ fin \in [Ends -> SUBSET Keys]
    /\ used \subseteq Keys

\* A pooled socket has no object yet; the client's end is there or has sent FIN.
PoolSound ==
    \A k \in accepted : /\ conn[Server][k] = NoEnd
                        /\ conn[Client][k] # NoEnd \/ k \in fin[Server]

\* The loop of OnFlush only visits connections that are there.
TodoExists == \A e \in Ends : \A k \in todo[e] : conn[e][k] # NoEnd

EndsInv == Shapes /\ EndsMatch /\ PoolSound /\ TodoExists

\* What remains to be shown of EndsInv when the other variables are typed.
EndsKept ==
    /\ conn \in [Ends -> Conns]
    /\ fin \in [Ends -> SUBSET Keys]
    /\ EndsMatch
    /\ PoolSound
    /\ TodoExists

\* The objects tbl a callback of e makes of its connections: the same ones, of
\* which none has come back to life.
Evolved(e, tbl) ==
    /\ tbl \in Conns
    /\ \A j \in Keys :
         /\ tbl[j] = NoEnd <=> conn[e][j] = NoEnd
         /\ conn[e][j] # NoEnd =>
              /\ tbl[j].alive /\ tbl[j].member => conn[e][j].alive /\ conn[e][j].member
              /\ tbl[j].cut = conn[e][j].cut

\* The same objects with the same history of requests.
SameCounts(e, tbl) ==
    \A j \in Keys : conn[e][j] # NoEnd =>
        tbl[j].sent = conn[e][j].sent /\ tbl[j].timedOut = conn[e][j].timedOut

-----------------------------------------------------------------------------
\* The members of a group have an object.
LEMMA MembersExist ==
    ASSUME Shapes, NEW e \in Ends
    PROVE  /\ Members(e) \subseteq {k \in Keys : conn[e][k] # NoEnd}
           /\ Live(e) \subseteq Members(e)
  BY Zenon DEF Members, Live

\* Taking members out of the group changes nothing else.
LEMMA RemovedEvolves ==
    ASSUME Shapes, NEW e \in Ends, NEW gone, gone \subseteq Members(e)
    PROVE  Evolved(e, Removed(e, gone)) /\ SameCounts(e, Removed(e, gone))
  <1> DEFINE tbl == Removed(e, gone)
  <1>1. ASSUME NEW j \in Keys
        PROVE  /\ tbl[j] \in NetConn \cup {NoEnd}
               /\ tbl[j] = NoEnd <=> conn[e][j] = NoEnd
               /\ conn[e][j] # NoEnd =>
                    /\ tbl[j].alive = conn[e][j].alive
                    /\ tbl[j].member => conn[e][j].member
                    /\ tbl[j].cut = conn[e][j].cut
                    /\ tbl[j].sent = conn[e][j].sent
                    /\ tbl[j].timedOut = conn[e][j].timedOut
    <2>1. CASE j \notin gone
      BY <2>1 DEF Removed, Shapes, Conns
    <2>2. CASE j \in gone
      <3>1. conn[e][j] \in NetConn /\ conn[e][j] # NoEnd
        BY <2>2, MembersExist DEF Shapes, Conns
      <3>2. tbl[j] = [conn[e][j] EXCEPT !.member = FALSE]
        BY Zenon, <2>2 DEF Removed
      <3>3. tbl[j] \in NetConn
        BY Zenon, <3>1, <3>2 DEF NetConn
      <3> QED
        BY Zenon, <3>1, <3>2, <3>3, ConstantsAssumption DEF NetConn
    <2> QED BY Zenon, <2>1, <2>2
  <1>2. tbl \in Conns
    BY Zenon, <1>1 DEF Removed, Conns
  <1> QED BY Zenon, <1>1, <1>2 DEF Evolved, SameCounts

\* Output marks the carrier as used and changes nothing else.
LEMMA OutputEvolves ==
    ASSUME Shapes, NEW e \in Ends, NEW tbl, Evolved(e, tbl), SameCounts(e, tbl),
           NEW via \in Keys, conn[e][via] # NoEnd
    PROVE  Evolved(e, Output(tbl, via)) /\ SameCounts(e, Output(tbl, via))
  <1>1. tbl[via] \in NetConn
    BY Zenon DEF Evolved, Conns
  <1>2. /\ Output(tbl, via)[via] \in NetConn
        /\ Output(tbl, via)[via] # NoEnd
        /\ \A f \in {"member", "alive", "cut", "sent", "timedOut"} :
             Output(tbl, via)[via][f] = tbl[via][f]
    BY <1>1, ConstantsAssumption, ZenonT(30) DEF Output, NetConn, Evolved, Conns
  <1>3. \A j \in Keys \ {via} : Output(tbl, via)[j] = tbl[j]
    BY Zenon DEF Output, Evolved, Conns
  <1>4. Output(tbl, via) \in Conns
    BY Zenon, <1>2, <1>3 DEF Output, Evolved, Conns
  <1> QED
    BY <1>1, <1>2, <1>3, <1>4 DEF Evolved, SameCounts

\* A send removes members that are dead and marks the carrier as used.
LEMMA SentEvolves ==
    ASSUME Shapes, NEW e \in Ends, NEW cmd, NEW k, NEW key, NEW q,
           NEW s \in Sent(e, cmd, k, key, q)
    PROVE  Evolved(e, s.tbl) /\ SameCounts(e, s.tbl)
  <1>1. PICK r \in DoSendResults(Members(e), Live(e), key) :
          s = IF r.via = NoConn THEN [tbl |-> Removed(e, r.removed), net |-> q]
              ELSE [tbl |-> Output(Removed(e, r.removed), r.via),
                    net |-> Deliver(q, Peer(e), [cmd |-> cmd,
                              key |-> IF cmd = "DATA" THEN r.via ELSE k])]
    BY Zenon DEF Sent
  <1>2. r.removed \subseteq Members(e) /\ (r.via # NoConn => r.via \in Members(e))
    BY MembersExist DEF DoSendResults, LiveConns, DeadConns
  <1> QED
    BY Zenon, <1>1, <1>2, RemovedEvolves, OutputEvolves, MembersExist

-----------------------------------------------------------------------------
\* An end and its peer are different and are all the ends there are.
LEMMA PeerFacts ==
    ASSUME NEW e \in Ends
    PROVE  Peer(e) \in Ends /\ Peer(e) # e /\ Peer(Peer(e)) = e /\ Ends = {e, Peer(e)}
  BY ConstantsAssumption DEF Peer, Ends

\* What an end must have: the invariant for one connection of one end.
Told(e, k) ==
    k \in Live(e) => HasPeer(e, k) \/ k \in fin[e] \/ conn[e][k].cut

\* The end of a callback: whatever object it drops, the peer gets the FIN.
LEMMA LeaveKeepsEnds ==
    ASSUME EndsInv, NEW e \in Ends, NEW tbl, Evolved(e, tbl), Leave(e, tbl),
           todo' \in [Ends -> SUBSET Keys], \A f \in Ends : todo'[f] \subseteq todo[f],
           accepted' = accepted
    PROVE  EndsKept'
  <1> DEFINE closed == {k \in Keys : tbl[k] # NoEnd /\ ~tbl[k].member /\ todo'[e] = {}}
             new == [k \in Keys |-> IF k \in closed THEN NoEnd ELSE tbl[k]]
  <1>1. new \in Conns
    BY Zenon DEF Evolved, Conns
  <1>2. /\ conn' = [conn EXCEPT ![e] = new]
        /\ fin' = [fin EXCEPT ![e] = @ \ closed, ![Peer(e)] = @ \cup closed]
    BY Zenon DEF Leave
  <1>3. /\ conn'[e] = new
        /\ conn'[Peer(e)] = conn[Peer(e)]
        /\ fin'[e] = fin[e] \ closed
        /\ fin'[Peer(e)] = fin[Peer(e)] \cup closed
    BY Zenon, <1>2, PeerFacts DEF EndsInv, Shapes
  <1>4. conn' \in [Ends -> Conns] /\ fin' \in [Ends -> SUBSET Keys]
    BY Zenon, <1>1, <1>2 DEF EndsInv, Shapes
  <1>5. ASSUME NEW k \in Keys PROVE Told(e, k)'
    <2> SUFFICES ASSUME k \in Live(e)' PROVE HasPeer(e, k)' \/ k \in fin'[e] \/ conn'[e][k].cut
      BY Zenon DEF Told
    <2>1. new[k] # NoEnd /\ new[k].member /\ new[k].alive
      BY Zenon, <1>3 DEF Live, Members
    <2>2. k \notin closed /\ new[k] = tbl[k] /\ conn[e][k] # NoEnd
      BY Zenon, <2>1 DEF Evolved
    <2>3. k \in Live(e) /\ tbl[k].cut = conn[e][k].cut
      BY Zenon, <2>1, <2>2 DEF Evolved, Live, Members
    <2>4. HasPeer(e, k)' <=> HasPeer(e, k)
      BY Zenon, <1>3 DEF HasPeer
    <2> QED
      BY Zenon, <2>2, <2>3, <2>4, <1>3 DEF EndsInv, EndsMatch
  <1>6. ASSUME NEW k \in Keys PROVE Told(Peer(e), k)'
    <2> DEFINE f == Peer(e)
    <2> SUFFICES ASSUME k \in Live(f)' PROVE HasPeer(f, k)' \/ k \in fin'[f] \/ conn'[f][k].cut
      BY Zenon DEF Told
    <2>1. k \in Live(f)
      BY Zenon, <1>3 DEF Live, Members
    <2>2. HasPeer(f, k) \/ k \in fin[f] \/ conn[f][k].cut
      BY Zenon, <2>1, PeerFacts DEF EndsInv, EndsMatch
    <2>3. HasPeer(f, k) /\ k \notin closed => HasPeer(f, k)'
      BY <1>3, PeerFacts DEF HasPeer, Evolved
    <2> QED
      BY Zenon, <2>2, <2>3, <1>3
  <1>7. EndsMatch'
    BY Zenon, <1>4, <1>5, <1>6, PeerFacts DEF EndsMatch, Told, Live, Members
  <1>8. ASSUME NEW k \in accepted
        PROVE  conn'[Server][k] = NoEnd /\ (conn'[Client][k] # NoEnd \/ k \in fin'[Server])
    <2>1. k \in Keys /\ conn[Server][k] = NoEnd /\ (conn[Client][k] # NoEnd \/ k \in fin[Server])
      BY Zenon DEF EndsInv, PoolSound, Shapes
    <2>2. CASE e = Server
      BY <2>1, <2>2, <1>3, ConstantsAssumption DEF Evolved, Peer
    <2>3. CASE e = Client
      BY <2>1, <2>3, <1>3, ConstantsAssumption DEF Evolved, Peer
    <2> QED BY Zenon, <2>2, <2>3 DEF Ends
  <1>9. ASSUME NEW f \in Ends, NEW k \in todo'[f] PROVE conn'[f][k] # NoEnd
    <2>1. k \in Keys /\ conn[f][k] # NoEnd
      BY Zenon DEF EndsInv, TodoExists, Shapes
    <2>2. CASE f = e
      <3>1. closed = {} /\ tbl[k] # NoEnd
        BY Zenon, <2>1, <2>2 DEF Evolved
      <3> QED BY Zenon, <3>1, <2>1, <2>2, <1>3
    <2>3. CASE f = Peer(e)
      BY Zenon, <2>1, <2>3, <1>3
    <2> QED BY Zenon, <2>2, <2>3, PeerFacts
  <1> QED
    BY Zenon, <1>4, <1>7, <1>8, <1>9 DEF EndsKept, PoolSound, TodoExists

\* A packet sent at the end of a callback.
LEMMA SendKeepsEnds ==
    ASSUME EndsInv, NEW e \in Ends, NEW cmd, NEW k, NEW key, NEW q,
           NEW s \in Sent(e, cmd, k, key, q), Leave(e, s.tbl),
           todo' \in [Ends -> SUBSET Keys], \A f \in Ends : todo'[f] \subseteq todo[f],
           accepted' = accepted
    PROVE  EndsKept'
  BY Zenon, SentEvolves, LeaveKeepsEnds DEF EndsInv

\* A new object on the server: the other end is there, or has left its FIN.
LEMMA CreateKeepsEnds ==
    ASSUME EndsInv, NEW k \in accepted, NEW q, CreateNetConn(k, q), todo' = todo, Idle(Server)
    PROVE  EndsKept'
  <1> DEFINE tbl == [conn[Server] EXCEPT ![k] = NewNetConn]
             closed == {j \in Keys : tbl[j] # NoEnd /\ ~tbl[j].member /\ todo'[Server] = {}}
             new == [j \in Keys |-> IF j \in closed THEN NoEnd ELSE tbl[j]]
  <1>1. k \in Keys /\ NewNetConn \in NetConn /\ NewNetConn.member /\ ~NewNetConn.cut
    BY ConstantsAssumption DEF EndsInv, Shapes, NewNetConn, NetConn
  <1>2. Server \in Ends /\ Client \in Ends /\ Server # Client /\ Peer(Server) = Client
    BY Zenon, ConstantsAssumption DEF Ends, Peer
  <1>3. tbl \in Conns /\ new \in Conns /\ new[k] = NewNetConn
    BY <1>1, <1>2 DEF EndsInv, Shapes, Conns
  <1>4. /\ conn' = [conn EXCEPT ![Server] = new]
        /\ fin' = [fin EXCEPT ![Server] = @ \ closed, ![Client] = @ \cup closed]
        /\ accepted' = accepted \ {k}
    BY Zenon, <1>2 DEF CreateNetConn, Leave
  <1>5. /\ conn' \in [Ends -> Conns] /\ fin' \in [Ends -> SUBSET Keys]
        /\ conn'[Server] = new /\ conn'[Client] = conn[Client]
        /\ fin'[Server] = fin[Server] \ closed /\ fin'[Client] = fin[Client] \cup closed
    BY Zenon, <1>2, <1>3, <1>4 DEF EndsInv, Shapes
  <1>6. ASSUME NEW j \in Keys, j \in Live(Server)'
        PROVE  HasPeer(Server, j)' \/ j \in fin'[Server] \/ conn'[Server][j].cut
    <2>1. CASE j = k
      BY Zenon, <2>1, <1>1, <1>2, <1>3, <1>5, ConstantsAssumption DEF EndsInv, PoolSound, HasPeer
    <2>2. CASE j # k
      <3>0. conn'[Server][j] # NoEnd /\ conn'[Server][j].member /\ conn'[Server][j].alive
        BY Zenon, <1>6 DEF Live, Members
      <3>1. j \notin closed /\ new[j] = conn[Server][j]
        BY Zenon, <3>0, <2>2, <1>1, <1>2, <1>5 DEF EndsInv, Shapes, Conns
      <3>2. j \in Live(Server)
        BY Zenon, <3>0, <3>1, <1>5 DEF Live, Members
      <3> QED BY Zenon, <3>2, <3>1, <1>2, <1>5 DEF EndsInv, EndsMatch, HasPeer
    <2> QED BY Zenon, <2>1, <2>2
  <1>7. ASSUME NEW j \in Keys, j \in Live(Client)'
        PROVE  HasPeer(Client, j)' \/ j \in fin'[Client] \/ conn'[Client][j].cut
    <2>1. j \in Live(Client)
      BY Zenon, <1>5, <1>7 DEF Live, Members
    <2>2. HasPeer(Client, j) \/ j \in fin[Client] \/ conn[Client][j].cut
      BY Zenon, <2>1, <1>2 DEF EndsInv, EndsMatch
    <2>3. HasPeer(Client, j) /\ j \notin closed => HasPeer(Client, j)'
      <3>1. Peer(Client) = Server
        BY Zenon DEF Peer
      <3>2. CASE j = k
        BY Zenon, <3>1, <3>2, <1>1, <1>3, <1>5, ConstantsAssumption DEF HasPeer
      <3>3. CASE j # k
        BY <3>1, <3>3, <1>4, <1>5, <1>2, <1>1, SMTT(60) DEF HasPeer, EndsInv, Shapes, Conns
      <3> QED BY Zenon, <3>2, <3>3
    <2> QED BY Zenon, <2>2, <2>3, <1>5
  <1>8. EndsMatch'
    BY Zenon, <1>5, <1>6, <1>7 DEF EndsMatch, Ends, Live, Members
  <1>9. PoolSound'
    <2> SUFFICES ASSUME NEW j \in accepted, j # k
                 PROVE  conn'[Server][j] = NoEnd /\ (conn'[Client][j] # NoEnd \/ j \in fin'[Server])
      BY Zenon, <1>4 DEF PoolSound
    <2>1. j \in Keys /\ conn[Server][j] = NoEnd /\ (conn[Client][j] # NoEnd \/ j \in fin[Server])
      BY Zenon DEF EndsInv, PoolSound, Shapes
    <2>2. tbl[j] = NoEnd
      BY Zenon, <2>1, <1>2 DEF EndsInv, Shapes, Conns
    <2> QED BY Zenon, <2>1, <2>2, <1>5
  <1>10. TodoExists'
    BY <1>2, <1>5 DEF EndsInv, TodoExists, Idle, Ends
  <1> QED BY Zenon, <1>5, <1>8, <1>9, <1>10 DEF EndsKept

-----------------------------------------------------------------------------
\* A request, an answer and a timeout change what the history records and mAlive.
LEMMA RequestedEvolves ==
    ASSUME Shapes, NEW e \in Ends, NEW tbl, Evolved(e, tbl), NEW k \in Keys, conn[e][k] # NoEnd
    PROVE  Evolved(e, Requested(tbl, k))
  <1>1. tbl[k] \in NetConn
    BY Zenon DEF Evolved, Conns
  <1>2. /\ Requested(tbl, k)[k] \in NetConn
        /\ Requested(tbl, k)[k] # NoEnd
        /\ \A f \in {"member", "alive", "cut"} : Requested(tbl, k)[k][f] = tbl[k][f]
    BY <1>1, ConstantsAssumption DEF Requested, NetConn, Evolved, Conns
  <1>3. \A j \in Keys \ {k} : Requested(tbl, k)[j] = tbl[j]
    BY Zenon DEF Requested, Evolved, Conns
  <1>4. Requested(tbl, k) \in Conns
    BY Zenon, <1>2, <1>3 DEF Requested, Evolved, Conns
  <1> QED
    BY Zenon, <1>1, <1>2, <1>3, <1>4 DEF Evolved

LEMMA TimedOutEvolves ==
    ASSUME Shapes, NEW e \in Ends, NEW tbl, Evolved(e, tbl), NEW dead
    PROVE  Evolved(e, TimedOut(tbl, dead))
  <1>1. ASSUME NEW j \in Keys
        PROVE  /\ TimedOut(tbl, dead)[j] \in NetConn \cup {NoEnd}
               /\ TimedOut(tbl, dead)[j] = NoEnd <=> tbl[j] = NoEnd
               /\ tbl[j] # NoEnd =>
                    /\ TimedOut(tbl, dead)[j].alive => tbl[j].alive
                    /\ TimedOut(tbl, dead)[j].member = tbl[j].member
                    /\ TimedOut(tbl, dead)[j].cut = tbl[j].cut
    <2>1. CASE j \in dead /\ tbl[j] # NoEnd /\ tbl[j].member
      <3>1. tbl[j] \in NetConn
        BY Zenon, <2>1 DEF Evolved, Conns
      <3>2. TimedOut(tbl, dead)[j] = [tbl[j] EXCEPT !.alive = FALSE, !.timedOut = TRUE]
        BY Zenon, <2>1 DEF TimedOut
      <3>3. TimedOut(tbl, dead)[j] \in NetConn
        BY Zenon, <3>1, <3>2 DEF NetConn
      <3> QED BY Zenon, <2>1, <3>1, <3>2, <3>3, ConstantsAssumption DEF NetConn
    <2>2. CASE ~(j \in dead /\ tbl[j] # NoEnd /\ tbl[j].member)
      BY Zenon, <2>2 DEF TimedOut, Evolved, Conns
    <2> QED BY Zenon, <2>1, <2>2
  <1>2. TimedOut(tbl, dead) \in Conns
    BY Zenon, <1>1 DEF TimedOut, Conns
  <1> QED BY Zenon, <1>1, <1>2 DEF Evolved

LEMMA AnsweredEvolves ==
    ASSUME Shapes, NEW e \in Ends, NEW k
    PROVE  Evolved(e, Answered(conn[e], k))
  <1>1. conn[e] \in Conns
    BY Zenon DEF Shapes
  <1>2. CASE k \in Keys /\ conn[e][k] # NoEnd
    <2>1. conn[e][k] \in NetConn
      BY Zenon, <1>1, <1>2 DEF Conns
    <2>2. /\ Answered(conn[e], k)[k] \in NetConn
          /\ Answered(conn[e], k)[k] # NoEnd
          /\ \A f \in {"member", "alive", "cut"} : Answered(conn[e], k)[k][f] = conn[e][k][f]
      BY <1>1, <1>2, <2>1, ConstantsAssumption DEF Answered, NetConn, Conns
    <2>3. \A j \in Keys \ {k} : Answered(conn[e], k)[j] = conn[e][j]
      BY Zenon, <1>1, <1>2 DEF Answered, Conns
    <2>4. Answered(conn[e], k) \in Conns
      BY Zenon, <1>1, <1>2, <2>2, <2>3 DEF Answered, Conns
    <2> QED BY Zenon, <1>1, <1>2, <2>1, <2>2, <2>3, <2>4 DEF Evolved
  <1>3. CASE ~(k \in Keys /\ conn[e][k] # NoEnd)
    <2>1. Answered(conn[e], k) = conn[e]
      BY Zenon, <1>1, <1>3 DEF Answered, Conns
    <2> QED BY Zenon, <1>1, <2>1 DEF Evolved
  <1> QED BY Zenon, <1>2, <1>3

\* A reset marks a member dead and leaves everything else.
LEMMA ResetEvolves ==
    ASSUME Shapes, NEW e \in Ends, NEW k
    PROVE  LET tbl == IF k \in Members(e) THEN [conn[e] EXCEPT ![k].alive = FALSE] ELSE conn[e]
           IN  Evolved(e, tbl) /\ SameCounts(e, tbl)
  <1> DEFINE tbl == IF k \in Members(e) THEN [conn[e] EXCEPT ![k].alive = FALSE] ELSE conn[e]
  <1>1. conn[e] \in Conns
    BY Zenon DEF Shapes
  <1>2. CASE k \in Members(e)
    <2>1. k \in Keys /\ conn[e][k] # NoEnd /\ conn[e][k] \in NetConn
      BY Zenon, <1>1, <1>2, MembersExist DEF Conns
    <2>2. /\ tbl[k] = [conn[e][k] EXCEPT !.alive = FALSE]
          /\ \A j \in Keys \ {k} : tbl[j] = conn[e][j]
      BY Zenon, <1>1, <1>2, <2>1 DEF Conns
    <2>0. tbl = [j \in Keys |-> tbl[j]]
      BY Zenon, <1>1, <1>2, <2>1 DEF Conns
    <2> HIDE DEF tbl
    <2>3. tbl[k] \in NetConn
      BY Zenon, <2>1, <2>2 DEF NetConn
    <2>4. /\ ~tbl[k].alive /\ tbl[k].cut = conn[e][k].cut
          /\ tbl[k].sent = conn[e][k].sent /\ tbl[k].timedOut = conn[e][k].timedOut
      BY Zenon, <2>1, <2>2 DEF NetConn
    <2>5. tbl \in Conns /\ tbl[k] # NoEnd
      BY Zenon, <1>1, <2>0, <2>1, <2>2, <2>3, ConstantsAssumption DEF Conns
    <2>6. Evolved(e, tbl) /\ SameCounts(e, tbl)
      BY Zenon, <2>1, <2>2, <2>4, <2>5 DEF Evolved, SameCounts
    <2> QED BY Zenon, <2>6 DEF tbl
  <1>3. CASE k \notin Members(e)
    BY Zenon, <1>1, <1>3 DEF Evolved, SameCounts
  <1> QED BY Zenon, <1>2, <1>3

\* A callback that closes nothing; a FIN is taken only by an end that dies of it.
LEMMA EvolvedKeepsEnds ==
    ASSUME EndsInv, NEW e \in Ends, NEW tbl, Evolved(e, tbl),
           conn' = [conn EXCEPT ![e] = tbl], accepted' = accepted, todo' = todo,
           fin' \in [Ends -> SUBSET Keys],
           \A f \in Ends, k \in Keys : k \in fin[f] =>
               \/ k \in fin'[f]
               \/ f = e /\ conn[e][k] # NoEnd /\ ~(tbl[k].alive /\ tbl[k].member)
    PROVE  EndsKept'
  <1>1. /\ conn' \in [Ends -> Conns]
        /\ conn'[e] = tbl /\ conn'[Peer(e)] = conn[Peer(e)]
    BY Zenon, PeerFacts DEF EndsInv, Shapes, Evolved
  <1>2. ASSUME NEW f \in Ends, NEW k \in Keys PROVE (conn'[f][k] = NoEnd) <=> (conn[f][k] = NoEnd)
    BY Zenon, <1>1, PeerFacts DEF Evolved
  <1>3. ASSUME NEW f \in Ends, NEW k \in Keys, k \in Live(f)'
        PROVE  HasPeer(f, k)' \/ k \in fin'[f] \/ conn'[f][k].cut
    <2>1. k \in Live(f) /\ conn'[f][k].cut = conn[f][k].cut
      BY <1>1, <1>2, <1>3, PeerFacts DEF Evolved, Live, Members
    <2>2. HasPeer(f, k) => HasPeer(f, k)'
      BY Zenon, <1>2, PeerFacts DEF HasPeer
    <2>3. f = e => tbl[k].alive /\ tbl[k].member
      BY Zenon, <1>1, <1>3 DEF Live, Members
    <2> QED
      BY Zenon, <2>1, <2>2, <2>3 DEF EndsInv, EndsMatch
  <1>4. EndsMatch'
    BY Zenon, <1>3 DEF EndsMatch, Live, Members
  <1>5. ASSUME NEW k \in accepted
        PROVE  conn'[Server][k] = NoEnd /\ (conn'[Client][k] # NoEnd \/ k \in fin'[Server])
    <2>1. k \in Keys /\ conn[Server][k] = NoEnd /\ (conn[Client][k] # NoEnd \/ k \in fin[Server])
      BY Zenon DEF EndsInv, PoolSound, Shapes
    <2> QED BY Zenon, <2>1, <1>2 DEF Ends
  <1>6. TodoExists'
    BY <1>2 DEF EndsInv, TodoExists, Shapes
  <1> QED BY Zenon, <1>1, <1>4, <1>5, <1>6 DEF EndsKept, PoolSound

LEMMA InputKeepsEnds ==
    ASSUME EndsInv, NEW e \in Ends, Input(e)
    PROVE  EndsInv'
  <1>1. /\ Idle(e) /\ todo' = todo /\ used' = used
        /\ \A f \in Ends : todo'[f] \subseteq todo[f]
        /\ todo' \in [Ends -> SUBSET Keys]
    BY Zenon DEF Input, EndsInv, Shapes
  <1>2. PICK k, q : \/ InputData(e, k, q) \/ InputRequest(e, k, q)
                    \/ OnRecvResponse(e, k, q) \/ OnRecvNetConnRst(e, k, q)
    BY Zenon DEF Input
  <1>3. CASE InputData(e, k, q)
    <2>1. mReqMap' = mReqMap /\ accepted' \subseteq accepted
      BY Zenon, <1>3 DEF InputData, CreateNetConn
    <2>2. CASE UNCHANGED <<conn, fin, accepted>>
      BY Zenon, <2>1, <2>2, <1>1
        DEF EndsInv, Shapes, EndsMatch, PoolSound, TodoExists, Live, Members, HasPeer
    <2>3. CASE e = Server /\ k \in accepted /\ CreateNetConn(k, q)
      BY Zenon, <2>1, <2>3, <1>1, CreateKeepsEnds DEF EndsInv, EndsKept, Shapes
    <2>4. CASE SendNetConnRst(e, k, q) /\ UNCHANGED accepted
      BY Zenon, <2>1, <2>4, <1>1, SendKeepsEnds DEF SendNetConnRst, EndsInv, EndsKept, Shapes
    <2> QED BY Zenon, <1>3, <2>2, <2>3, <2>4 DEF InputData
  <1>4. CASE InputRequest(e, k, q)
    BY Zenon, <1>1, <1>4, SendKeepsEnds
      DEF InputRequest, SendNetConnRst, SendResponse, EndsInv, EndsKept, Shapes
  <1>5. CASE OnRecvResponse(e, k, q)
    <2>1. mReqMap' \in [Ends -> [Keys -> Int]]
      <3>1. mReqMap[e] \in [Keys -> Int]
        BY Zenon DEF EndsInv, Shapes
      <3>2. [mReqMap[e] EXCEPT ![k] = -1] \in [Keys -> Int]
        <4>1. -1 \in Int
          OBVIOUS
        <4> DEFINE minusOne == -1
        <4> HIDE DEF minusOne
        <4>2. [mReqMap[e] EXCEPT ![k] = minusOne] \in [Keys -> Int]
          BY <3>1, <4>1, Zenon DEF minusOne
        <4> QED BY Zenon, <4>2 DEF minusOne
      <3> QED
        BY Zenon, <1>5, <3>2 DEF OnRecvResponse, EndsInv, Shapes
    <2>2. Evolved(e, Answered(conn[e], k))
      BY Zenon, AnsweredEvolves DEF EndsInv
    <2>3. Leave(e, Answered(conn[e], k)) /\ accepted' = accepted
      BY Zenon, <1>5 DEF OnRecvResponse
    <2>4. EndsKept'
      BY Zenon, <1>1, <2>2, <2>3, LeaveKeepsEnds
    <2> QED
      BY Zenon, <1>1, <2>1, <2>3, <2>4 DEF EndsInv, EndsKept, Shapes
  <1>6. CASE OnRecvNetConnRst(e, k, q)
    <2> DEFINE tbl == IF k \in Members(e) THEN [conn[e] EXCEPT ![k].alive = FALSE] ELSE conn[e]
    <2>1. Evolved(e, tbl)
      BY Zenon, ResetEvolves DEF EndsInv
    <2>2. Leave(e, tbl) /\ accepted' = accepted /\ mReqMap' = mReqMap
      BY Zenon, <1>6 DEF OnRecvNetConnRst
    <2> HIDE DEF tbl
    <2> QED
      BY Zenon, <1>1, <2>1, <2>2, LeaveKeepsEnds DEF EndsInv, EndsKept, Shapes
  <1> QED BY Zenon, <1>2, <1>3, <1>4, <1>5, <1>6

\* The object the callbacks of time, of the route and of the kernel change.
LEMMA FieldEvolves ==
    ASSUME Shapes, NEW e \in Ends, NEW k \in Keys, conn[e][k] # NoEnd, NEW c \in NetConn,
           c.cut = conn[e][k].cut, c.member = conn[e][k].member,
           c.alive => conn[e][k].alive
    PROVE  Evolved(e, [conn[e] EXCEPT ![k] = c])
  BY Zenon, ConstantsAssumption DEF Shapes, Evolved, Conns

LEMMA OnFlushStepKeepsEnds ==
    ASSUME EndsInv, NEW e \in Ends, NEW k \in Keys, OnFlushStep(e, k)
    PROVE  EndsInv'
  <1>1. /\ k \in todo[e] /\ conn[e][k] # NoEnd
        /\ todo' = [todo EXCEPT ![e] = @ \ {k}]
        /\ accepted' = accepted /\ used' = used
    BY Zenon DEF OnFlushStep, Visit, EndsInv, TodoExists
  <1>2. /\ todo' \in [Ends -> SUBSET Keys]
        /\ \A f \in Ends : todo'[f] \subseteq todo[f]
    BY Zenon, <1>1 DEF EndsInv, Shapes
  <1>3. mReqMap' \in [Ends -> [Keys -> Int]]
    <2>1. mReqMap[e] \in [Keys -> Int]
      BY Zenon DEF EndsInv, Shapes
    <2>2. Visited(e, k) \in [Keys -> Int]
      BY <2>1 DEF Visited
    <2>3. [j \in Keys |-> IF j \in Expired(e, k) THEN -1 ELSE Visited(e, k)[j]] \in [Keys -> Int]
      BY <2>2
    <2> QED BY Zenon, <2>3 DEF OnFlushStep, EndsInv, Shapes
  <1>4. EndsKept'
    <2>1. ASSUME NEW s \in Sent(e, "KEEP_ALIVE_REQ", k, NoConn, net),
                 Leave(e, TimedOut(Requested(s.tbl, k), Expired(e, k)))
          PROVE  EndsKept'
      <3>1. Evolved(e, TimedOut(Requested(s.tbl, k), Expired(e, k)))
        BY Zenon, <1>1, SentEvolves, RequestedEvolves, TimedOutEvolves DEF EndsInv
      <3> QED BY Zenon, <2>1, <3>1, <1>1, <1>2, LeaveKeepsEnds
    <2>2. ASSUME Leave(e, TimedOut(conn[e], Expired(e, k)))
          PROVE  EndsKept'
      <3>1. Evolved(e, conn[e])
        BY Zenon DEF EndsInv, Shapes, Evolved
      <3>2. Evolved(e, TimedOut(conn[e], Expired(e, k)))
        BY Zenon, <3>1, TimedOutEvolves DEF EndsInv
      <3> QED BY Zenon, <2>2, <3>2, <1>1, <1>2, LeaveKeepsEnds
    <2> QED BY Zenon, <2>1, <2>2 DEF OnFlushStep
  <1> QED BY Zenon, <1>1, <1>2, <1>3, <1>4 DEF EndsInv, EndsKept, Shapes

\* A FIN is taken by an end that dies of it; time makes a connection old.
LEMMA LocalKeepsEnds ==
    ASSUME EndsInv, NEW e \in Ends, NEW k \in Keys, ReadErr(e, k) \/ Age(e, k)
    PROVE  EndsInv'
  <1>1. conn[e] \in Conns /\ conn \in [Ends -> Conns] /\ fin \in [Ends -> SUBSET Keys] /\ Shapes
    BY Zenon DEF EndsInv, Shapes
  <1>2. CASE ReadErr(e, k)
    <2> DEFINE c == [conn[e][k] EXCEPT !.alive = FALSE]
    <2>1. conn[e][k] \in NetConn /\ conn[e][k] # NoEnd
      BY Zenon, <1>1, <1>2, MembersExist DEF ReadErr, Conns
    <2>2. c \in NetConn /\ ~c.alive /\ c.member = conn[e][k].member /\ c.cut = conn[e][k].cut
      BY Zenon, <2>1 DEF NetConn
    <2>3. conn' = [conn EXCEPT ![e] = [conn[e] EXCEPT ![k] = c]]
      BY Zenon, <1>1, <1>2 DEF ReadErr
    <2>4. /\ fin' = [fin EXCEPT ![e] = @ \ {k}] /\ mReqMap' = mReqMap
          /\ todo' = todo /\ accepted' = accepted /\ used' = used
      BY Zenon, <1>2 DEF ReadErr
    <2> HIDE DEF c
    <2> DEFINE tbl == [conn[e] EXCEPT ![k] = c]
    <2>5. Evolved(e, tbl) /\ tbl[k] = c
      BY Zenon, <1>1, <2>1, <2>2, FieldEvolves DEF Conns
    <2> HIDE DEF tbl
    <2>6. EndsKept'
      <3>1. fin' \in [Ends -> SUBSET Keys]
        BY Zenon, <1>1, <2>4
      <3>2. ASSUME NEW f \in Ends, NEW j \in Keys, j \in fin[f]
            PROVE  \/ j \in fin'[f]
                   \/ f = e /\ conn[e][j] # NoEnd /\ ~(tbl[j].alive /\ tbl[j].member)
        BY Zenon, <1>1, <2>1, <2>2, <2>4, <2>5, <3>2
      <3>3. conn' = [conn EXCEPT ![e] = tbl]
        BY Zenon, <2>3 DEF tbl
      <3> QED BY Zenon, <2>4, <2>5, <3>1, <3>2, <3>3, EvolvedKeepsEnds
    <2> QED BY Zenon, <2>4, <2>6 DEF EndsInv, EndsKept, Shapes
  <1>3. CASE Age(e, k)
    <2> DEFINE c == [conn[e][k] EXCEPT !.aged = TRUE]
    <2>1. conn[e][k] \in NetConn /\ conn[e][k] # NoEnd
      BY Zenon, <1>1, <1>3, MembersExist DEF Age, Conns
    <2>2. c \in NetConn /\ c.alive = conn[e][k].alive /\ c.member = conn[e][k].member
          /\ c.cut = conn[e][k].cut
      BY Zenon, <2>1 DEF NetConn
    <2>3. conn' = [conn EXCEPT ![e] = [conn[e] EXCEPT ![k] = c]]
      BY Zenon, <1>1, <1>3 DEF Age
    <2>4. UNCHANGED <<fin, mReqMap, todo, accepted, used>>
      BY Zenon, <1>3 DEF Age
    <2> HIDE DEF c
    <2>5. Evolved(e, [conn[e] EXCEPT ![k] = c])
      BY Zenon, <1>1, <2>1, <2>2, FieldEvolves
    <2>6. EndsKept'
      BY Zenon, <1>1, <2>3, <2>4, <2>5, EvolvedKeepsEnds
    <2> QED BY Zenon, <2>4, <2>6 DEF EndsInv, EndsKept, Shapes
  <1> QED BY Zenon, <1>2, <1>3

\* A route change excuses every request.
LEMMA RouteKeepsEnds ==
    ASSUME EndsInv, NEW e \in Ends, NEW up \in BOOLEAN, OnRouteChange(e, up)
    PROVE  EndsInv'
  <1>1. Shapes
    BY Zenon DEF EndsInv
  <1> DEFINE tbl == [j \in Keys |-> Answered(conn[e], j)[j]]
  <1>2. \A j \in Keys : Evolved(e, Answered(conn[e], j))
    BY Zenon, <1>1, AnsweredEvolves
  <1>3. Evolved(e, tbl)
    BY Zenon, <1>2 DEF Evolved, Conns
  <1>4. /\ conn' = [conn EXCEPT ![e] = tbl] /\ mReqMap' = [mReqMap EXCEPT ![e] = NoReqs]
        /\ UNCHANGED <<fin, todo, accepted, used>>
    BY Zenon DEF OnRouteChange
  <1>5. NoReqs \in [Keys -> Int]
    BY DEF NoReqs
  <1> HIDE DEF tbl
  <1>6. EndsKept'
    BY Zenon, <1>1, <1>3, <1>4, EvolvedKeepsEnds DEF Shapes
  <1> QED BY Zenon, <1>1, <1>4, <1>5, <1>6 DEF EndsInv, EndsKept, Shapes

\* A connection is opened or expires in the pool.
LEMMA KernelKeepsEnds ==
    ASSUME EndsInv, NEW k \in Keys, Dial(k) \/ ExpirePooled(k)
    PROVE  EndsInv'
  <1>1. /\ Shapes /\ Client \in Ends /\ Server \in Ends /\ Client # Server
        /\ Peer(Client) = Server /\ Peer(Server) = Client
    BY Zenon, ConstantsAssumption DEF EndsInv, Ends, Peer
  <1>2. CASE Dial(k)
    <2>1. NewNetConn \in NetConn /\ NewNetConn # NoEnd
      <3>1. NewNetConn \in NetConn
        BY ConstantsAssumption DEF NewNetConn, NetConn
      <3> QED BY Zenon, <3>1, ConstantsAssumption
    <2>2. /\ conn[Client][k] = NoEnd /\ conn[Server][k] = NoEnd
          /\ conn' = [conn EXCEPT ![Client] = [conn[Client] EXCEPT ![k] = NewNetConn]]
          /\ accepted' = accepted \cup {k} /\ used' = used \cup {k}
          /\ fin' = [e \in Ends |-> fin[e] \ {k}]
          /\ UNCHANGED <<mReqMap, todo>>
      BY Zenon, <1>1, <1>2 DEF Dial, Shapes
    <2>3. Shapes'
      BY Zenon, <1>1, <2>1, <2>2 DEF Shapes, Conns
    <2>4. /\ \A j \in Keys \ {k} : conn'[Client][j] = conn[Client][j]
          /\ conn'[Client][k] = NewNetConn /\ conn'[Server] = conn[Server]
      BY Zenon, <1>1, <2>1, <2>2 DEF Shapes, Conns
    <2>5. ASSUME NEW e \in Ends, NEW j \in Keys, j \in Live(e)'
          PROVE  HasPeer(e, j)' \/ j \in fin'[e] \/ conn'[e][j].cut
      <3>1. CASE j = k
        <4>1. e = Client
          BY Zenon, <3>1, <2>2, <2>4, <2>5 DEF Live, Members, Ends
        <4> QED BY Zenon, <3>1, <4>1, <2>2 DEF HasPeer
      <3>2. CASE j # k
        <4>1. conn'[e][j] = conn[e][j] /\ conn'[Peer(e)][j] = conn[Peer(e)][j]
          BY Zenon, <1>1, <2>4, <3>2 DEF Ends
        <4>2. j \in Live(e)
          BY Zenon, <4>1, <2>5 DEF Live, Members
        <4> QED BY Zenon, <4>1, <4>2, <2>2, <3>2 DEF EndsInv, EndsMatch, HasPeer
      <3> QED BY Zenon, <3>1, <3>2
    <2>6. EndsMatch'
      BY Zenon, <2>5 DEF EndsMatch, Live, Members
    <2>7. PoolSound'
      BY Zenon, <1>1, <2>1, <2>2, <2>4 DEF EndsInv, PoolSound, Shapes
    <2>8. TodoExists'
      BY <1>1, <2>1, <2>2, <2>4 DEF EndsInv, TodoExists, Shapes, Ends
    <2> QED BY Zenon, <2>3, <2>6, <2>7, <2>8 DEF EndsInv
  <1>3. CASE ExpirePooled(k)
    <2>1. /\ k \in accepted /\ accepted' = accepted \ {k}
          /\ fin' = [fin EXCEPT ![Client] = @ \cup {k}]
          /\ UNCHANGED <<conn, mReqMap, todo, used>>
      BY Zenon, <1>3 DEF ExpirePooled
    <2>2. Shapes'
      BY Zenon, <1>1, <2>1 DEF Shapes
    <2>3. fin'[Client] = fin[Client] \cup {k} /\ fin'[Server] = fin[Server]
      BY Zenon, <1>1, <2>1 DEF Shapes
    <2>4. EndsMatch'
      <3> SUFFICES ASSUME NEW e \in Ends, NEW j \in Live(e)
                   PROVE  HasPeer(e, j)' \/ j \in fin'[e] \/ conn'[e][j].cut
        BY Zenon, <2>1 DEF EndsMatch, Live, Members
      <3>1. HasPeer(e, j) \/ j \in fin[e] \/ conn[e][j].cut
        BY Zenon DEF EndsInv, EndsMatch
      <3> QED BY Zenon, <3>1, <2>1, <2>3, <1>1 DEF HasPeer, Ends
    <2>5. PoolSound' /\ TodoExists'
      BY Zenon, <2>1, <2>3 DEF EndsInv, PoolSound, TodoExists
    <2> QED BY Zenon, <2>2, <2>4, <2>5 DEF EndsInv
  <1> QED BY Zenon, <1>2, <1>3

\* The server loses power: the clients' ends are marked.
LEMMA RestartKeepsEnds ==
    ASSUME EndsInv, Restart
    PROVE  EndsInv'
  <1>1. Shapes /\ Client \in Ends /\ Server \in Ends /\ Client # Server
    BY Zenon, ConstantsAssumption DEF EndsInv, Ends
  <1> DEFINE tbl == [j \in Keys |-> IF conn[Client][j] = NoEnd THEN NoEnd
                                   ELSE [conn[Client][j] EXCEPT !.cut = TRUE]]
  <1>2. /\ conn' = [conn EXCEPT ![Server] = NoConns, ![Client] = tbl]
        /\ mReqMap' = [mReqMap EXCEPT ![Server] = NoReqs]
        /\ todo' = [todo EXCEPT ![Server] = {}]
        /\ accepted' = {}
        /\ fin' = [fin EXCEPT ![Server] = {}]
        /\ used' = used
    BY Zenon, <1>1 DEF Restart, Shapes
  <1>3. ASSUME NEW j \in Keys
        PROVE  /\ tbl[j] \in NetConn \cup {NoEnd}
               /\ tbl[j] = NoEnd <=> conn[Client][j] = NoEnd
               /\ tbl[j] # NoEnd => tbl[j].cut
    <2>1. conn[Client][j] # NoEnd => conn[Client][j] \in NetConn
      BY Zenon, <1>1 DEF Shapes, Conns
    <2>2. conn[Client][j] # NoEnd => [conn[Client][j] EXCEPT !.cut = TRUE] \in NetConn
      BY Zenon, <2>1 DEF NetConn
    <2> QED BY Zenon, <2>1, <2>2, ConstantsAssumption DEF NetConn
  <1>4. tbl \in Conns /\ NoConns \in Conns
    BY Zenon, <1>3 DEF Conns, NoConns
  <1>5. NoReqs \in [Keys -> Int]
    BY DEF NoReqs
  <1> HIDE DEF tbl
  <1>6. Shapes' /\ conn'[Client] = tbl /\ conn'[Server] = NoConns
    BY Zenon, <1>1, <1>2, <1>4, <1>5 DEF Shapes
  <1>7. EndsMatch'
    <2> SUFFICES ASSUME NEW e \in Ends, NEW j \in Live(e)' PROVE conn'[e][j].cut
      BY Zenon DEF EndsMatch
    <2>1. j \in Keys /\ conn'[e][j] # NoEnd
      BY Zenon DEF Live, Members
    <2> QED BY <2>1, <1>3, <1>6 DEF Ends, NoConns
  <1>8. PoolSound' /\ TodoExists'
    BY Zenon, <1>1, <1>2, <1>3, <1>6 DEF EndsInv, PoolSound, TodoExists, Shapes, Ends
  <1> QED BY Zenon, <1>6, <1>7, <1>8 DEF EndsInv

LEMMA InitEnds == Init => EndsInv
  BY ConstantsAssumption, SMTT(60)
    DEF Init, EndsInv, Shapes, Conns, NoConns, NoReqs, EndsMatch, Live, Members, PoolSound,
        TodoExists, Ends

\* Every step of either end, of the network and of the kernels keeps EndsInv.
LEMMA NextEnds == EndsInv /\ [Next]_vars => EndsInv'
  <1> SUFFICES ASSUME EndsInv, [Next]_vars PROVE EndsInv'
    BY Zenon
  <1> USE DEF EndsInv
  <1>1. ASSUME NEW e \in Ends, Send(e) PROVE EndsInv'
    BY Zenon, <1>1, SendKeepsEnds DEF Send, EndsKept, Shapes
  <1>2. ASSUME NEW e \in Ends, Flush(e) PROVE EndsInv'
    <2>1. Evolved(e, Removed(e, Members(e) \ Live(e)))
      BY Zenon, RemovedEvolves
    <2>2. /\ Leave(e, Removed(e, Members(e) \ Live(e)))
          /\ UNCHANGED <<mReqMap, accepted, used, todo>>
      BY Zenon, <1>2 DEF Flush
    <2>3. EndsKept'
      BY Zenon, <2>1, <2>2, LeaveKeepsEnds DEF Shapes
    <2> QED BY Zenon, <2>2, <2>3 DEF EndsKept, Shapes
  <1>3. ASSUME NEW e \in Ends, OnFlush(e) PROVE EndsInv'
    <2>1. /\ todo' = [todo EXCEPT ![e] = IF online[e] THEN Members(e) ELSE {}]
          /\ UNCHANGED <<conn, accepted, fin, used>>
      BY Zenon, <1>3 DEF OnFlush, BeginLoop
    <2>2. Members(e) \subseteq {k \in Keys : conn[e][k] # NoEnd}
      BY Zenon, MembersExist
    <2>3. mReqMap' \in [Ends -> [Keys -> Int]]
      <3>1. [k \in Keys |-> IF k \in Members(e) THEN mReqMap[e][k] ELSE -1] \in [Keys -> Int]
        BY DEF Shapes
      <3> QED BY Zenon, <1>3, <3>1 DEF OnFlush, Shapes
    <2>4. Shapes' /\ TodoExists'
      BY Zenon, <2>1, <2>2, <2>3 DEF Shapes, TodoExists
    <2> QED BY Zenon, <2>1, <2>4 DEF EndsMatch, PoolSound, Live, Members, HasPeer
  <1>4. CASE UNCHANGED <<conn, mReqMap, todo, accepted, fin, used>>
    BY Zenon, <1>4 DEF Shapes, EndsMatch, PoolSound, TodoExists, Live, Members, HasPeer
  <1>5. ASSUME NEW e \in Ends, Lose(e) PROVE EndsInv'
    BY Zenon, <1>4, <1>5 DEF Lose
  <1>6. CASE UNCHANGED vars
    BY Zenon, <1>4, <1>6 DEF vars
  <1> QED
    BY Zenon, <1>1, <1>2, <1>3, <1>5, <1>6, InputKeepsEnds, OnFlushStepKeepsEnds, LocalKeepsEnds,
       RouteKeepsEnds, KernelKeepsEnds, RestartKeepsEnds DEF Next

\* EndsMatch for any number of connections: short of a power loss no end is
\* left behind unaware of the other's end (IAppGroup, INetGroup, FakeTcp).
THEOREM NoEndLeftBehind == Spec => []EndsMatch
  <1>1. EndsInv => EndsMatch
    BY Zenon DEF EndsInv
  <1> QED BY <1>1, InitEnds, NextEnds, PTL DEF Spec

-----------------------------------------------------------------------------
\* A trial the code counts for a key is a request sent for the object there is.
Counted ==
    \A e \in Ends, k \in Keys :
        conn[e][k] # NoEnd /\ mReqMap[e][k] # -1 =>
            conn[e][k].sent = MAX_RETRY \/ conn[e][k].sent > mReqMap[e][k]

\* A key nobody has dialled has no object, no pooled socket and no count.
Fresh ==
    \A k \in Keys \ used :
        k \notin accepted /\ \A e \in Ends : conn[e][k] = NoEnd /\ mReqMap[e][k] = -1

\* A pooled socket's key has no count on the server.
PoolFresh == \A k \in accepted : mReqMap[Server][k] = -1

CountInv == Counted /\ Fresh /\ PoolFresh

\* The step relation TimeoutAfterThreeTrials boxes.
TimeoutStep ==
    \A e \in Ends, k \in Keys :
        conn[e][k] # NoEnd /\ conn'[e][k] # NoEnd /\ conn'[e][k].timedOut =>
            conn[e][k].timedOut \/ conn[e][k].sent = MAX_RETRY

\* A step that adds no trial and no request: counts are kept or dropped, and a
\* new object starts without one.
QuietStep ==
    /\ used \subseteq used'
    /\ \A k \in accepted' : k \in accepted \/ (k \in used' /\ mReqMap'[Server][k] = -1)
    /\ \A e \in Ends, k \in Keys :
         /\ mReqMap'[e][k] \in {mReqMap[e][k], -1}
         /\ conn'[e][k] # NoEnd =>
              \/ conn[e][k] = NoEnd /\ mReqMap'[e][k] = -1 /\ k \in used'
              \/ /\ conn[e][k] # NoEnd
                 /\ conn'[e][k].timedOut = conn[e][k].timedOut
                 /\ conn'[e][k].sent = conn[e][k].sent \/ mReqMap'[e][k] = -1

LEMMA QuietKeepsCounts ==
    ASSUME EndsInv, EndsInv', CountInv, QuietStep
    PROVE  CountInv' /\ TimeoutStep
  <1>1. Counted'
    <2> SUFFICES ASSUME NEW e \in Ends, NEW k \in Keys, conn'[e][k] # NoEnd, mReqMap'[e][k] # -1
                 PROVE  conn'[e][k].sent = MAX_RETRY \/ conn'[e][k].sent > mReqMap'[e][k]
      BY Zenon DEF Counted
    <2>1. /\ conn[e][k] # NoEnd /\ conn'[e][k].sent = conn[e][k].sent
          /\ mReqMap'[e][k] = mReqMap[e][k]
      BY Zenon DEF QuietStep
    <2> QED BY Zenon, <2>1 DEF CountInv, Counted
  <1>2. Fresh'
    BY SMTT(60) DEF QuietStep, CountInv, Fresh
  <1>3. PoolFresh'
    BY Zenon DEF QuietStep, CountInv, PoolFresh, EndsInv, Shapes, Ends
  <1>4. TimeoutStep
    BY Zenon DEF QuietStep, TimeoutStep
  <1> QED BY Zenon, <1>1, <1>2, <1>3, <1>4 DEF CountInv

\* A callback that sends and closes, without a keepalive request, is quiet.
LEMMA LeaveIsQuiet ==
    ASSUME EndsInv, NEW e \in Ends, NEW tbl, Evolved(e, tbl), SameCounts(e, tbl), Leave(e, tbl),
           UNCHANGED <<mReqMap, accepted, used>>
    PROVE  QuietStep
  <1>1. conn'[Peer(e)] = conn[Peer(e)]
    BY Zenon, PeerFacts DEF Leave, EndsInv, Shapes
  <1>2. \A k \in Keys : conn'[e][k] \in {NoEnd, tbl[k]}
    BY Zenon DEF Leave, EndsInv, Shapes
  <1>3. ASSUME NEW k \in Keys, conn'[e][k] # NoEnd
        PROVE  /\ conn[e][k] # NoEnd
               /\ conn'[e][k].timedOut = conn[e][k].timedOut
               /\ conn'[e][k].sent = conn[e][k].sent
    BY Zenon, <1>2, <1>3 DEF Evolved, SameCounts
  <1> QED BY <1>1, <1>3, PeerFacts DEF QuietStep

\* An answer takes back the requests of one object.
LEMMA AnsweredOne ==
    ASSUME Shapes, NEW e \in Ends, NEW k
    PROVE  /\ \A j \in Keys \ {k} : Answered(conn[e], k)[j] = conn[e][j]
           /\ k \in Keys /\ conn[e][k] # NoEnd =>
                Answered(conn[e], k)[k].timedOut = conn[e][k].timedOut
  <1>1. conn[e] \in Conns
    BY Zenon DEF Shapes
  <1>2. \A j \in Keys \ {k} : Answered(conn[e], k)[j] = conn[e][j]
    BY Zenon, <1>1 DEF Answered, Conns
  <1>3. ASSUME k \in Keys, conn[e][k] # NoEnd
        PROVE  Answered(conn[e], k)[k].timedOut = conn[e][k].timedOut
    <2>1. conn[e][k] \in NetConn
      BY Zenon, <1>1, <1>3 DEF Conns
    <2>2. Answered(conn[e], k)[k] = [conn[e][k] EXCEPT !.sent = 0]
      BY Zenon, <1>1, <1>3 DEF Answered, Conns
    <2> QED BY Zenon, <2>1, <2>2 DEF NetConn
  <1> QED BY Zenon, <1>2, <1>3

LEMMA InputIsQuiet ==
    ASSUME EndsInv, CountInv, NEW e \in Ends, Input(e)
    PROVE  QuietStep
  <1>1. Idle(e) /\ todo' = todo /\ used' = used /\ Shapes
    BY Zenon DEF Input, EndsInv
  <1>2. PICK k, q : \/ InputData(e, k, q) \/ InputRequest(e, k, q)
                    \/ OnRecvResponse(e, k, q) \/ OnRecvNetConnRst(e, k, q)
    BY Zenon DEF Input
  <1>3. ASSUME NEW cmd, NEW key, NEW s \in Sent(e, cmd, k, key, q), Leave(e, s.tbl),
               UNCHANGED <<mReqMap, accepted>>
        PROVE  QuietStep
    BY Zenon, <1>1, <1>3, SentEvolves, LeaveIsQuiet
  <1>4. CASE InputData(e, k, q)
    <2>1. mReqMap' = mReqMap
      BY Zenon, <1>4 DEF InputData
    <2>2. CASE UNCHANGED <<conn, accepted>>
      BY Zenon, <2>1, <2>2, <1>1 DEF QuietStep
    <2>3. CASE e = Server /\ k \in accepted /\ CreateNetConn(k, q)
      <3>1. /\ Server \in Ends /\ Client \in Ends /\ Server # Client
            /\ k \in Keys /\ conn[Server][k] = NoEnd
        BY Zenon, <2>3, ConstantsAssumption DEF Ends, EndsInv, Shapes, PoolSound
      <3>2. mReqMap[Server][k] = -1 /\ k \in used
        BY Zenon, <2>3, <3>1 DEF CountInv, PoolFresh, Fresh
      <3>3. accepted' \subseteq accepted /\ conn'[Client] = conn[Client]
        BY Zenon, <2>3, <3>1 DEF CreateNetConn, Leave, EndsInv, Shapes
      <3>4. \A j \in Keys : conn'[Server][j] \in {NoEnd, [conn[Server] EXCEPT ![k] = NewNetConn][j]}
        BY Zenon, <2>3, <3>1 DEF CreateNetConn, Leave, EndsInv, Shapes
      <3>5. \A j \in Keys \ {k} : conn'[Server][j] \in {NoEnd, conn[Server][j]}
        BY Zenon, <3>1, <3>4 DEF EndsInv, Shapes, Conns
      <3> QED BY Zenon, <1>1, <2>1, <3>1, <3>2, <3>3, <3>5 DEF QuietStep, Ends
    <2>4. CASE SendNetConnRst(e, k, q) /\ UNCHANGED accepted
      BY Zenon, <2>1, <2>4, <1>3 DEF SendNetConnRst
    <2> QED BY Zenon, <1>4, <2>2, <2>3, <2>4 DEF InputData
  <1>5. CASE InputRequest(e, k, q)
    BY Zenon, <1>5, <1>3 DEF InputRequest, SendNetConnRst, SendResponse
  <1>6. CASE OnRecvResponse(e, k, q)
    <2> DEFINE tbl == Answered(conn[e], k)
    <2>1. /\ Leave(e, tbl) /\ accepted' = accepted
          /\ mReqMap' = [mReqMap EXCEPT ![e][k] = -1]
      BY Zenon, <1>6 DEF OnRecvResponse
    <2>2. Evolved(e, tbl)
      BY Zenon, <1>1, AnsweredEvolves
    <2>3. conn'[Peer(e)] = conn[Peer(e)]
      BY Zenon, <1>1, <2>1, PeerFacts DEF Leave, Shapes
    <2>4. \A j \in Keys : conn'[e][j] \in {NoEnd, tbl[j]}
      BY Zenon, <1>1, <2>1 DEF Leave, Shapes
    <2>5. /\ mReqMap'[Peer(e)] = mReqMap[Peer(e)]
          /\ \A j \in Keys \ {k} : mReqMap'[e][j] = mReqMap[e][j]
          /\ k \in Keys => mReqMap'[e][k] = -1
      BY Zenon, <1>1, <2>1, PeerFacts DEF Shapes
    <2>6. ASSUME NEW j \in Keys, conn'[e][j] # NoEnd
          PROVE  /\ conn[e][j] # NoEnd
                 /\ conn'[e][j].timedOut = conn[e][j].timedOut
                 /\ conn'[e][j].sent = conn[e][j].sent \/ mReqMap'[e][j] = -1
      <3>1. conn[e][j] # NoEnd /\ conn'[e][j] = tbl[j]
        BY Zenon, <2>2, <2>4, <2>6 DEF Evolved
      <3>2. CASE j = k
        BY Zenon, <3>1, <3>2, <1>1, <2>5, AnsweredOne
      <3>3. CASE j # k
        <4>1. \A i \in Keys \ {k} : Answered(conn[e], k)[i] = conn[e][i]
          BY <1>1, AnsweredOne
        <4> QED BY Zenon, <3>1, <3>3, <4>1
      <3> QED BY Zenon, <3>2, <3>3
    <2> HIDE DEF tbl
    <2> QED BY <1>1, <2>1, <2>3, <2>5, <2>6, PeerFacts DEF QuietStep
  <1>7. CASE OnRecvNetConnRst(e, k, q)
    <2> DEFINE tbl == IF k \in Members(e) THEN [conn[e] EXCEPT ![k].alive = FALSE] ELSE conn[e]
    <2>1. Leave(e, tbl) /\ UNCHANGED <<mReqMap, accepted>>
      BY Zenon, <1>7 DEF OnRecvNetConnRst
    <2>2. Evolved(e, tbl) /\ SameCounts(e, tbl)
      BY Zenon, <1>1, ResetEvolves
    <2> HIDE DEF tbl
    <2> QED BY Zenon, <1>1, <2>1, <2>2, LeaveIsQuiet
  <1> QED BY Zenon, <1>2, <1>4, <1>5, <1>6, <1>7

\* Everything but the keepalive's own loop is quiet.
LEMMA OtherStepsAreQuiet ==
    ASSUME EndsInv, CountInv, ~KeyReuse, [Next]_vars,
           ~ \E e \in Ends, k \in Keys : OnFlushStep(e, k)
    PROVE  QuietStep
  <1>1. Shapes
    BY Zenon DEF EndsInv
  <1>2. ASSUME NEW e \in Ends, Send(e) PROVE QuietStep
    BY Zenon, <1>1, <1>2, SentEvolves, LeaveIsQuiet DEF Send
  <1>3. ASSUME NEW e \in Ends, Flush(e) PROVE QuietStep
    <2>1. /\ Evolved(e, Removed(e, Members(e) \ Live(e)))
          /\ SameCounts(e, Removed(e, Members(e) \ Live(e)))
      BY Zenon, <1>1, RemovedEvolves
    <2>2. /\ Leave(e, Removed(e, Members(e) \ Live(e)))
          /\ UNCHANGED <<mReqMap, accepted, used>>
      BY Zenon, <1>3 DEF Flush
    <2> QED BY Zenon, <2>1, <2>2, LeaveIsQuiet
  <1>4. ASSUME NEW e \in Ends, OnFlush(e) PROVE QuietStep
    <2>1. /\ UNCHANGED <<conn, accepted, used>>
          /\ mReqMap' = [mReqMap EXCEPT ![e] =
                            [k \in Keys |-> IF k \in Members(e) THEN mReqMap[e][k] ELSE -1]]
      BY Zenon, <1>4 DEF OnFlush
    <2> QED BY Zenon, <1>1, <2>1 DEF QuietStep, Shapes
  <1>5. ASSUME NEW e \in Ends, NEW k \in Keys, ReadErr(e, k) \/ Age(e, k) PROVE QuietStep
    <2>1. k \in Members(e) /\ UNCHANGED <<mReqMap, accepted, used>>
      BY Zenon, <1>5 DEF ReadErr, Age
    <2>2. conn[e][k] \in NetConn /\ conn[e][k] # NoEnd
      BY <1>1, <2>1, MembersExist DEF Shapes, Conns
    <2>3. PICK c : /\ c \in {[conn[e][k] EXCEPT !.alive = FALSE], [conn[e][k] EXCEPT !.aged = TRUE]}
                   /\ conn' = [conn EXCEPT ![e] = [conn[e] EXCEPT ![k] = c]]
      BY Zenon, <1>1, <1>5 DEF ReadErr, Age, Shapes
    <2>4. c.sent = conn[e][k].sent /\ c.timedOut = conn[e][k].timedOut
      BY Zenon, <2>2, <2>3 DEF NetConn
    <2>5. /\ conn'[e][k] = c
          /\ \A f \in Ends, j \in Keys : f # e \/ j # k => conn'[f][j] = conn[f][j]
      BY Zenon, <1>1, <2>3 DEF Shapes, Conns
    <2> QED BY Zenon, <2>1, <2>2, <2>4, <2>5 DEF QuietStep
  <1>6. ASSUME NEW e \in Ends, NEW up \in BOOLEAN, OnRouteChange(e, up) PROVE QuietStep
    <2>1. /\ conn' = [conn EXCEPT ![e] = [k \in Keys |-> Answered(conn[e], k)[k]]]
          /\ mReqMap' = [mReqMap EXCEPT ![e] = NoReqs]
          /\ UNCHANGED <<accepted, used>>
      BY Zenon, <1>6 DEF OnRouteChange
    <2>2. /\ \A k \in Keys : mReqMap'[e][k] = -1 /\ conn'[e][k] = Answered(conn[e], k)[k]
          /\ \A f \in Ends \ {e} : mReqMap'[f] = mReqMap[f] /\ conn'[f] = conn[f]
      BY Zenon, <1>1, <2>1 DEF Shapes, NoReqs
    <2>3. ASSUME NEW k \in Keys, conn'[e][k] # NoEnd
          PROVE  conn[e][k] # NoEnd /\ conn'[e][k].timedOut = conn[e][k].timedOut
      <3>1. conn[e][k] # NoEnd
        <4>1. Evolved(e, Answered(conn[e], k))
          BY Zenon, <1>1, AnsweredEvolves
        <4>2. Answered(conn[e], k)[k] # NoEnd
          BY Zenon, <2>2, <2>3
        <4> QED BY Zenon, <4>1, <4>2 DEF Evolved
      <3> QED BY <1>1, <2>2, <3>1, AnsweredOne
    <2> QED BY <2>1, <2>2, <2>3 DEF QuietStep
  <1>7. ASSUME NEW k \in Keys, Dial(k) PROVE QuietStep
    <2>1. /\ k \notin used /\ used' = used \cup {k} /\ accepted' = accepted \cup {k}
          /\ conn' = [conn EXCEPT ![Client] = [conn[Client] EXCEPT ![k] = NewNetConn]]
          /\ mReqMap' = mReqMap
      BY Zenon, <1>1, <1>7 DEF Dial, Shapes
    <2>2. \A e \in Ends : conn[e][k] = NoEnd /\ mReqMap[e][k] = -1
      BY Zenon, <2>1 DEF CountInv, Fresh
    <2>3. \A e \in Ends, j \in Keys : j # k => conn'[e][j] = conn[e][j]
      BY Zenon, <1>1, <2>1 DEF Shapes, Conns
    <2> QED BY <2>1, <2>2, <2>3, SMTT(60) DEF QuietStep, Ends
  <1>8. ASSUME NEW k \in Keys, ExpirePooled(k) PROVE QuietStep
    BY Zenon, <1>8 DEF ExpirePooled, QuietStep
  <1>9. ASSUME NEW e \in Ends, Lose(e) PROVE QuietStep
    BY Zenon, <1>9 DEF Lose, QuietStep
  <1>10. CASE Restart
    <2>1. /\ conn'[Server] = NoConns
          /\ \A k \in Keys : conn'[Client][k] = IF conn[Client][k] = NoEnd THEN NoEnd
                                               ELSE [conn[Client][k] EXCEPT !.cut = TRUE]
          /\ mReqMap'[Client] = mReqMap[Client] /\ mReqMap'[Server] = NoReqs
          /\ accepted' = {} /\ used' = used
      BY Zenon, <1>1, <1>10, ConstantsAssumption DEF Restart, Shapes, Ends
    <2>2. ASSUME NEW k \in Keys, conn'[Client][k] # NoEnd
          PROVE  /\ conn[Client][k] # NoEnd
                 /\ conn'[Client][k].timedOut = conn[Client][k].timedOut
                 /\ conn'[Client][k].sent = conn[Client][k].sent
      <3>1. conn[Client][k] # NoEnd /\ conn'[Client][k] = [conn[Client][k] EXCEPT !.cut = TRUE]
        BY Zenon, <2>1, <2>2
      <3>2. conn[Client][k] \in NetConn
        BY Zenon, <1>1, <3>1 DEF Shapes, Conns, Ends
      <3> QED BY Zenon, <3>1, <3>2 DEF NetConn
    <2> QED BY <2>1, <2>2 DEF QuietStep, Ends, NoConns, NoReqs
  <1>11. CASE UNCHANGED vars
    BY Zenon, <1>11 DEF vars, QuietStep
  <1> QED
    BY Zenon, <1>2, <1>3, <1>4, <1>5, <1>6, <1>7, <1>8, <1>9, <1>10, <1>11, InputIsQuiet DEF Next

-----------------------------------------------------------------------------
\* One visit leaves the count of the other connections alone.
LEMMA VisitedCounts ==
    ASSUME Shapes, NEW e \in Ends, NEW k \in Keys
    PROVE  /\ Visited(e, k) \in [Keys -> Int]
           /\ \A j \in Keys \ {k} : Visited(e, k)[j] = mReqMap[e][j]
           /\ canSendRequest(conn[e][k]) => Visited(e, k)[k] = mReqMap[e][k] + 1
           /\ ~canSendRequest(conn[e][k]) => Visited(e, k)[k] = mReqMap[e][k]
  <1>1. mReqMap[e] \in [Keys -> Int]
    BY Zenon DEF Shapes
  <1> QED BY <1>1 DEF Visited

\* The counts of the code reach MAX_RETRY only when MAX_RETRY requests for the
\* object have been sent.
LEMMA ExpiredWereAsked ==
    ASSUME Shapes, Counted, NEW e \in Ends, NEW k \in Keys, NEW j \in Keys, conn[e][j] # NoEnd,
           Visited(e, k)[j] >= MAX_RETRY
    PROVE  conn[e][j].sent = MAX_RETRY
  <1>1. /\ conn[e][j].sent \in 0 .. MAX_RETRY /\ mReqMap[e][j] \in Int
        /\ MAX_RETRY \in Nat /\ MAX_RETRY > 0
    BY ConstantsAssumption DEF Shapes, Conns, NetConn
  <1>2. mReqMap[e][j] + 1 >= MAX_RETRY
    BY <1>1, VisitedCounts
  <1>3. mReqMap[e][j] # -1
    BY <1>1, <1>2
  <1>4. conn[e][j].sent = MAX_RETRY \/ conn[e][j].sent > mReqMap[e][j]
    BY Zenon, <1>3 DEF Counted
  <1> QED BY <1>1, <1>2, <1>4

\* What a timeout leaves of the history of an object.
LEMMA TimedOutFields ==
    ASSUME NEW tbl \in Conns, NEW dead, NEW j \in Keys, tbl[j] # NoEnd
    PROVE  /\ TimedOut(tbl, dead)[j].sent = tbl[j].sent
           /\ TimedOut(tbl, dead)[j].timedOut => tbl[j].timedOut \/ j \in dead
  <1>1. tbl[j] \in NetConn
    BY Zenon DEF Conns
  <1>2. CASE j \in dead /\ tbl[j].member
    <2>1. TimedOut(tbl, dead)[j] = [tbl[j] EXCEPT !.alive = FALSE, !.timedOut = TRUE]
      BY Zenon, <1>2 DEF TimedOut
    <2> QED BY Zenon, <1>1, <1>2, <2>1 DEF NetConn
  <1>3. CASE ~(j \in dead /\ tbl[j].member)
    <2>1. TimedOut(tbl, dead)[j] = tbl[j]
      BY Zenon, <1>3 DEF TimedOut
    <2> QED BY Zenon, <2>1
  <1> QED BY Zenon, <1>2, <1>3

\* The count of requests is one more, up to MAX_RETRY.
OneMore(was, is) == is = IF was < MAX_RETRY THEN was + 1 ELSE was

\* What a request leaves of it.
LEMMA RequestedFields ==
    ASSUME NEW tbl \in Conns, NEW k \in Keys, tbl[k] # NoEnd
    PROVE  /\ \A j \in Keys \ {k} : Requested(tbl, k)[j] = tbl[j]
           /\ Requested(tbl, k)[k].timedOut = tbl[k].timedOut
           /\ OneMore(tbl[k].sent, Requested(tbl, k)[k].sent)
  <1>1. tbl[k] \in NetConn
    BY Zenon DEF Conns
  <1>2. \A j \in Keys \ {k} : Requested(tbl, k)[j] = tbl[j]
    BY Zenon DEF Requested, Conns
  <1>3. Requested(tbl, k)[k] = [tbl[k] EXCEPT !.sent = IF tbl[k].sent < MAX_RETRY
                                                      THEN tbl[k].sent + 1 ELSE tbl[k].sent]
    BY Zenon DEF Requested, Conns
  <1> QED BY Zenon, <1>1, <1>2, <1>3 DEF NetConn, OneMore

\* What a visit makes of the table of e: it asks for asked and declares dead only
\* members of dead.
Flushed(e, asked, dead, tbl) ==
    /\ Evolved(e, tbl)
    /\ \A j \in Keys : conn[e][j] # NoEnd =>
         /\ tbl[j].timedOut => conn[e][j].timedOut \/ j \in dead
         /\ j \in asked => OneMore(conn[e][j].sent, tbl[j].sent)
         /\ j \notin asked => tbl[j].sent = conn[e][j].sent

\* The key the visit of k sends a request for.
Asked(e, k) == {j \in {k} : canSendRequest(conn[e][j]) /\ Visited(e, k)[j] < MAX_RETRY}

LEMMA FlushedAsking ==
    ASSUME Shapes, NEW e \in Ends, NEW k \in Keys, conn[e][k] # NoEnd, NEW dead,
           NEW tbl, Evolved(e, tbl), SameCounts(e, tbl)
    PROVE  Flushed(e, {k}, dead, TimedOut(Requested(tbl, k), dead))
  <1> DEFINE t == Requested(tbl, k)
  <1>1. tbl \in Conns /\ tbl[k] # NoEnd
    BY Zenon DEF Evolved
  <1>2. Evolved(e, t)
    BY Zenon, RequestedEvolves
  <1>3. /\ \A i \in Keys \ {k} : t[i] = tbl[i]
        /\ t[k].timedOut = tbl[k].timedOut /\ OneMore(tbl[k].sent, t[k].sent)
    BY Zenon, <1>1, RequestedFields
  <1> HIDE DEF t
  <1>4. Evolved(e, TimedOut(t, dead))
    BY Zenon, <1>2, TimedOutEvolves
  <1>5. ASSUME NEW j \in Keys, conn[e][j] # NoEnd
        PROVE  /\ TimedOut(t, dead)[j].sent = t[j].sent
               /\ TimedOut(t, dead)[j].timedOut => t[j].timedOut \/ j \in dead
    <2>1. t \in Conns /\ t[j] # NoEnd
      BY Zenon, <1>2, <1>5 DEF Evolved
    <2> QED BY Zenon, <2>1, TimedOutFields
  <1>6. ASSUME NEW j \in Keys, conn[e][j] # NoEnd
        PROVE  tbl[j].sent = conn[e][j].sent /\ tbl[j].timedOut = conn[e][j].timedOut
    BY Zenon, <1>6 DEF SameCounts
  <1>7. Flushed(e, {k}, dead, TimedOut(t, dead))
    BY <1>3, <1>4, <1>5, <1>6 DEF Flushed
  <1> QED BY Zenon, <1>7 DEF t

LEMMA FlushedQuietly ==
    ASSUME Shapes, NEW e \in Ends, NEW dead
    PROVE  Flushed(e, {}, dead, TimedOut(conn[e], dead))
  <1>1. conn[e] \in Conns /\ Evolved(e, conn[e])
    BY Zenon DEF Shapes, Evolved
  <1>2. Evolved(e, TimedOut(conn[e], dead))
    BY Zenon, <1>1, TimedOutEvolves
  <1>3. ASSUME NEW j \in Keys, conn[e][j] # NoEnd
        PROVE  /\ TimedOut(conn[e], dead)[j].sent = conn[e][j].sent
               /\ TimedOut(conn[e], dead)[j].timedOut => conn[e][j].timedOut \/ j \in dead
    BY Zenon, <1>1, <1>3, TimedOutFields
  <1> QED BY Zenon, <1>2, <1>3 DEF Flushed

LEMMA StepFlushes ==
    ASSUME Shapes, NEW e \in Ends, NEW k \in Keys, conn[e][k] # NoEnd, OnFlushStep(e, k)
    PROVE  \E tbl : Leave(e, tbl) /\ Flushed(e, Asked(e, k), Expired(e, k), tbl)
  <1>1. CASE canSendRequest(conn[e][k]) /\ Visited(e, k)[k] < MAX_RETRY
    <2>1. PICK s \in Sent(e, "KEEP_ALIVE_REQ", k, NoConn, net) :
            Leave(e, TimedOut(Requested(s.tbl, k), Expired(e, k)))
      BY Zenon, <1>1 DEF OnFlushStep
    <2>2. Evolved(e, s.tbl) /\ SameCounts(e, s.tbl)
      BY Zenon, SentEvolves
    <2>3. Asked(e, k) = {k}
      BY Zenon, <1>1 DEF Asked
    <2>4. Flushed(e, {k}, Expired(e, k), TimedOut(Requested(s.tbl, k), Expired(e, k)))
      BY Zenon, <2>2, FlushedAsking
    <2> QED BY Zenon, <2>1, <2>3, <2>4
  <1>2. CASE ~(canSendRequest(conn[e][k]) /\ Visited(e, k)[k] < MAX_RETRY)
    <2>1. Leave(e, TimedOut(conn[e], Expired(e, k)))
      BY Zenon, <1>2 DEF OnFlushStep
    <2>2. Asked(e, k) = {}
      BY Zenon, <1>2 DEF Asked
    <2> QED BY Zenon, <2>1, <2>2, FlushedQuietly
  <1> QED BY Zenon, <1>1, <1>2

LEMMA LeaveTable ==
    ASSUME Shapes, NEW e \in Ends, NEW tbl, Leave(e, tbl)
    PROVE  /\ \A f \in Ends \ {e} : conn'[f] = conn[f]
           /\ \A j \in Keys : conn'[e][j] \in {NoEnd, tbl[j]}
  <1>1. PICK closed : conn' = [conn EXCEPT ![e] = [j \in Keys |-> IF j \in closed THEN NoEnd
                                                                ELSE tbl[j]]]
    BY Zenon DEF Leave
  <1>2. DOMAIN conn = Ends
    BY Zenon DEF Shapes
  <1> QED BY Zenon, <1>1, <1>2

\* A connection that is visited, or found dead, has been asked often enough.
LEMMA FlushedCounts ==
    ASSUME Shapes, Counted, NEW e \in Ends, NEW k \in Keys, NEW tbl, NEW j \in Keys,
           Flushed(e, Asked(e, k), Expired(e, k), tbl), conn[e][j] # NoEnd,
           Visited(e, k)[j] # -1
    PROVE  tbl[j].sent = MAX_RETRY \/ tbl[j].sent > Visited(e, k)[j]
  <1> DEFINE v == Visited(e, k)[j]
             c == conn[e][j].sent
             d == tbl[j].sent
             m == mReqMap[e][j]
  <1>1. c \in 0 .. MAX_RETRY /\ m \in Int /\ MAX_RETRY \in Nat /\ v \in Int
    <2>1. conn[e][j] \in NetConn /\ m \in Int
      BY Zenon DEF Shapes, Conns
    <2>2. v \in Int
      BY Zenon, VisitedCounts
    <2> QED BY Zenon, <2>1, <2>2, ConstantsAssumption DEF NetConn
  <1>2. m # -1 => c = MAX_RETRY \/ c > m
    BY Zenon DEF Counted
  <1>3. j \in Asked(e, k) => OneMore(c, d) /\ v = m + 1 /\ v < MAX_RETRY
    <2>1. j \in Asked(e, k) => OneMore(c, d)
      BY Zenon DEF Flushed
    <2>2. j \in Asked(e, k) => j = k /\ canSendRequest(conn[e][k]) /\ v < MAX_RETRY
      BY Zenon DEF Asked
    <2>3. j = k /\ canSendRequest(conn[e][k]) => v = m + 1
      BY Zenon, VisitedCounts
    <2> QED BY Zenon, <2>1, <2>2, <2>3
  <1>4. j \notin Asked(e, k) => d = c
    BY Zenon DEF Flushed
  <1>5. j \notin Asked(e, k) => v >= MAX_RETRY \/ v = m
    <2>1. ~(j = k /\ canSendRequest(conn[e][k])) => v = m
      BY VisitedCounts
    <2>2. j = k /\ canSendRequest(conn[e][k]) /\ v < MAX_RETRY => j \in Asked(e, k)
      BY Zenon DEF Asked
    <2> QED BY <1>1, <2>1, <2>2
  <1>6. v >= MAX_RETRY => c = MAX_RETRY
    BY Zenon, ExpiredWereAsked
  <1>7. v # -1
    BY Zenon
  <1> HIDE DEF v, c, d, m
  <1>8. d = MAX_RETRY \/ d > v
    <2>1. CASE j \in Asked(e, k)
      BY <1>1, <1>2, <1>3, <2>1 DEF OneMore
    <2>2. CASE j \notin Asked(e, k)
      BY Zenon, <1>1, <1>2, <1>4, <1>5, <1>6, <1>7, <2>2
    <2> QED BY Zenon, <2>1, <2>2
  <1> QED BY Zenon, <1>8 DEF d, v

\* One visit of the loop keeps the counts and declares dead only what it may.
LEMMA OnFlushStepCounts ==
    ASSUME EndsInv, CountInv, NEW e \in Ends, NEW k \in Keys, OnFlushStep(e, k)
    PROVE  CountInv' /\ TimeoutStep
  <1>1. Shapes /\ Counted
    BY Zenon DEF EndsInv, CountInv
  <1>2. conn[e][k] # NoEnd /\ accepted' = accepted /\ used' = used
    BY Zenon DEF OnFlushStep, Visit, EndsInv, TodoExists
  <1>3. /\ \A j \in Keys : mReqMap'[e][j] = IF j \in Expired(e, k) THEN -1 ELSE Visited(e, k)[j]
        /\ \A f \in Ends \ {e} : mReqMap'[f] = mReqMap[f]
    <2>1. DOMAIN mReqMap = Ends
      BY Zenon, <1>1 DEF Shapes
    <2> QED BY Zenon, <2>1 DEF OnFlushStep
  <1>4. ASSUME NEW j \in Keys, j \in Expired(e, k), conn[e][j] # NoEnd
        PROVE  conn[e][j].sent = MAX_RETRY
    <2>1. Visited(e, k)[j] >= MAX_RETRY
      BY Zenon, <1>4 DEF Expired
    <2> QED BY Zenon, <1>1, <1>4, <2>1, ExpiredWereAsked
  <1>5. PICK tbl : Leave(e, tbl) /\ Flushed(e, Asked(e, k), Expired(e, k), tbl)
    BY Zenon, <1>1, <1>2, StepFlushes
  <1>6. /\ \A f \in Ends \ {e} : conn'[f] = conn[f]
        /\ \A j \in Keys : conn'[e][j] \in {NoEnd, tbl[j]}
    BY Zenon, <1>1, <1>5, LeaveTable
  <1>7. ASSUME NEW j \in Keys, conn'[e][j] # NoEnd
        PROVE  conn[e][j] # NoEnd /\ conn'[e][j] = tbl[j]
    BY Zenon, <1>5, <1>6, <1>7 DEF Flushed, Evolved
  <1>8. TimeoutStep
    <2> SUFFICES ASSUME NEW f \in Ends, NEW j \in Keys, conn[f][j] # NoEnd, conn'[f][j] # NoEnd,
                        conn'[f][j].timedOut
                 PROVE  conn[f][j].timedOut \/ conn[f][j].sent = MAX_RETRY
      BY Zenon DEF TimeoutStep
    <2>1. CASE f # e
      BY Zenon, <1>6, <2>1
    <2>2. CASE f = e
      <3>1. tbl[j].timedOut
        BY Zenon, <1>7, <2>2
      <3>2. conn[e][j].timedOut \/ j \in Expired(e, k)
        BY Zenon, <1>5, <2>2, <3>1 DEF Flushed
      <3> QED BY Zenon, <1>4, <2>2, <3>2
    <2> QED BY Zenon, <2>1, <2>2
  <1>9. Counted'
    <2> SUFFICES ASSUME NEW f \in Ends, NEW j \in Keys, conn'[f][j] # NoEnd, mReqMap'[f][j] # -1
                 PROVE  conn'[f][j].sent = MAX_RETRY \/ conn'[f][j].sent > mReqMap'[f][j]
      BY Zenon DEF Counted
    <2>1. CASE f # e
      BY Zenon, <2>1, <1>1, <1>3, <1>6 DEF Counted
    <2>2. CASE f = e
      <3>1. mReqMap'[e][j] = Visited(e, k)[j]
        BY Zenon, <1>3, <2>2
      <3>2. conn[e][j] # NoEnd /\ conn'[e][j] = tbl[j]
        BY Zenon, <1>7, <2>2
      <3>3. tbl[j].sent = MAX_RETRY \/ tbl[j].sent > Visited(e, k)[j]
        BY Zenon, <1>1, <1>5, <2>2, <3>1, <3>2, FlushedCounts
      <3> QED BY Zenon, <2>2, <3>1, <3>2, <3>3
    <2> QED BY Zenon, <2>1, <2>2
  <1>10. ASSUME NEW j \in Keys \ {k}, mReqMap[e][j] = -1 PROVE mReqMap'[e][j] = -1
    <2>1. Visited(e, k)[j] = mReqMap[e][j]
      BY Zenon, <1>1, VisitedCounts
    <2> QED BY Zenon, <1>3, <1>10, <2>1
  <1>11. Fresh'
    <2> SUFFICES ASSUME NEW j \in Keys \ used
                 PROVE  j \notin accepted /\ \A f \in Ends : conn'[f][j] = NoEnd /\ mReqMap'[f][j] = -1
      BY Zenon, <1>2 DEF Fresh
    <2>1. j \notin accepted /\ \A f \in Ends : conn[f][j] = NoEnd /\ mReqMap[f][j] = -1
      BY Zenon DEF CountInv, Fresh
    <2>2. j \in Keys \ {k}
      BY Zenon, <1>2, <2>1
    <2>3. conn'[e][j] = NoEnd /\ mReqMap'[e][j] = -1
      BY Zenon, <1>7, <1>10, <2>1, <2>2
    <2> QED BY Zenon, <1>3, <1>6, <2>1, <2>3
  <1>12. PoolFresh'
    <2> SUFFICES ASSUME NEW j \in accepted PROVE mReqMap'[Server][j] = -1
      BY Zenon, <1>2 DEF PoolFresh
    <2>1. j \in Keys /\ conn[Server][j] = NoEnd /\ mReqMap[Server][j] = -1
      BY Zenon DEF EndsInv, Shapes, PoolSound, CountInv, PoolFresh
    <2>2. CASE e = Server
      BY Zenon, <1>2, <1>10, <2>1, <2>2
    <2>3. CASE e # Server
      BY Zenon, <1>3, <2>1, <2>3 DEF Ends
    <2> QED BY Zenon, <2>2, <2>3
  <1> QED BY Zenon, <1>8, <1>9, <1>11, <1>12 DEF CountInv

\* TimeoutAfterThreeTrials for any number of connections and any retry limit, as
\* long as the kernel does not give a port to a second connection of the group:
\* NetConnKeepAlive::OnFlush counts by key.
THEOREM TimeoutsEarned ==
    ASSUME ~KeyReuse
    PROVE  Spec => TimeoutAfterThreeTrials
  <1>1. Init => EndsInv /\ CountInv
    <2>1. Init => CountInv
      BY DEF Init, CountInv, Counted, Fresh, PoolFresh, NoConns, NoReqs, Ends
    <2> QED BY Zenon, <2>1, InitEnds
  <1>2. EndsInv /\ CountInv /\ [Next]_vars => (EndsInv /\ CountInv)' /\ TimeoutStep
    <2> SUFFICES ASSUME EndsInv, CountInv, [Next]_vars
                 PROVE  (EndsInv /\ CountInv)' /\ TimeoutStep
      BY Zenon
    <2>1. EndsInv'
      BY Zenon, NextEnds
    <2>2. CASE \E e \in Ends, k \in Keys : OnFlushStep(e, k)
      BY Zenon, <2>1, <2>2, OnFlushStepCounts
    <2>3. CASE ~ \E e \in Ends, k \in Keys : OnFlushStep(e, k)
      BY Zenon, <2>1, <2>3, OtherStepsAreQuiet, QuietKeepsCounts
    <2> QED BY Zenon, <2>2, <2>3
  <1>3. EndsInv /\ CountInv /\ [Next]_vars =>
          [\A e \in Ends, k \in Keys :
             LET c == conn[e][k]
                 d == conn'[e][k]
             IN  c # NoEnd /\ d # NoEnd /\ d.timedOut => c.timedOut \/ c.sent = MAX_RETRY]_vars
    BY Zenon, <1>2 DEF TimeoutStep
  <1> QED BY <1>1, <1>2, <1>3, PTL DEF Spec, TimeoutAfterThreeTrials

=============================================================================
