----------------------------- MODULE KeepAlive -----------------------------
(***************************************************************************)
(* The two ends of one group of network connections and the commands they  *)
(* exchange about them: IAppGroup::Input, ConnReset and NetConnKeepAlive   *)
(* on both sides, over a network that may lose and reorder packets.        *)
(*                                                                         *)
(* A connection has one key at both ends: the client computes it, the      *)
(* server takes it from the packet that makes it create its end.  Every    *)
(* command about a connection travels over any live connection of the      *)
(* group.  An action is one callback of the loop thread of one end, except *)
(* NetConnKeepAlive::OnFlush, whose loop takes one step per connection; no *)
(* other callback of that end runs in between (Idle).                      *)
(***************************************************************************)
EXTENDS NetGroup, Integers, Sequences

CONSTANTS
    Client, Server,
    Keys,           \* connection keys
    NoEnd,          \* no INetConn object for a key
    MAX_RETRY,      \* 3 in the code
    KeyReuse,       \* the client's kernel may use a source port again
    Settings        \* how much of this happens, see below

Ends == {Client, Server}
Peer(e) == IF e = Client THEN Server ELSE Client

(***************************************************************************)
(* The bounds of a behaviour: the keys the client dials, the ones among    *)
(* them whose connections get older than REQUEST_DELAY, the ends whose     *)
(* keepalive timer fires (both in the code), the ends whose network may be *)
(* lost and found, and the packets a direction of the network can hold.    *)
(***************************************************************************)
Setting == [dialled : SUBSET Keys, ages : SUBSET Keys, probers : SUBSET Ends,
            routeEnds : SUBSET Ends, maxNet : Nat]

(***************************************************************************)
(* One end of a connection: in the group or removed from it, mAlive, mNew, *)
(* established REQUEST_DELAY ago.  Three fields are history: the requests  *)
(* sent for this object since it was created, answered or excused by a     *)
(* route change (up to MAX_RETRY), whether it was reported dead with       *)
(* ERR_TIMEOUT, and whether its peer lost power.                           *)
(***************************************************************************)
NetConn == [member : BOOLEAN, alive : BOOLEAN, new : BOOLEAN, aged : BOOLEAN,
            sent : 0 .. MAX_RETRY, timedOut : BOOLEAN, cut : BOOLEAN]

NewNetConn == [member |-> TRUE, alive |-> TRUE, new |-> TRUE, aged |-> FALSE,
               sent |-> 0, timedOut |-> FALSE, cut |-> FALSE]

ASSUME ConstantsAssumption ==
    /\ Client # Server
    /\ MAX_RETRY \in Nat \ {0}
    /\ NoConn \notin Keys
    /\ NoEnd \notin NetConn
    /\ KeyReuse \in BOOLEAN
    /\ Settings \subseteq Setting

Packets == [cmd : {"DATA", "KEEP_ALIVE_REQ", "KEEP_ALIVE_RESP", "NETCONN_RST"},
            key : Keys]

VARIABLES
    setting,    \* the bounds, which stay as they are
    conn,       \* the connection objects of each end
    mReqMap,    \* keepalive trials per connection, -1 when not in the map
    online,     \* KeepAliveRouteObserver::mAlive
    todo,       \* connections OnFlush still has to visit
    accepted,   \* connections in the server's pool, not yet in its group
    fin,        \* connections whose FIN from the peer the kernel holds
    net,        \* packets on their way to each end
    used        \* keys the client has dialled

vars == <<setting, conn, mReqMap, online, todo, accepted, fin, net, used>>

TypeOK ==
    /\ setting \in Settings
    /\ conn \in [Ends -> [Keys -> NetConn \cup {NoEnd}]]
    /\ mReqMap \in [Ends -> [Keys -> -1 .. MAX_RETRY]]
    /\ online \in [Ends -> BOOLEAN]
    /\ todo \in [Ends -> SUBSET Keys]
    /\ accepted \subseteq Keys
    /\ fin \in [Ends -> SUBSET Keys]
    /\ net \in [Ends -> Seq(Packets)]
    /\ used \subseteq Keys

Members(e) == {k \in Keys : conn[e][k] # NoEnd /\ conn[e][k].member}
Live(e) == {k \in Members(e) : conn[e][k].alive}

NoConns == [k \in Keys |-> NoEnd]
NoReqs == [k \in Keys |-> -1]

Init ==
    /\ setting \in Settings
    /\ conn = [e \in Ends |-> NoConns]
    /\ mReqMap = [e \in Ends |-> NoReqs]
    /\ online = [e \in Ends |-> TRUE]
    /\ todo = [e \in Ends |-> {}]
    /\ accepted = {}
    /\ fin = [e \in Ends |-> {}]
    /\ net = [e \in Ends |-> <<>>]
    /\ used = {}

Idle(e) == todo[e] = {}

-----------------------------------------------------------------------------
(***************************************************************************)
(* A callback of e leaves the objects tbl.  The ones it removed from the   *)
(* group are closed and deleted by the message it queued, right after the  *)
(* callback: their FIN is then on its way to the peer.                     *)
(***************************************************************************)
Leave_NoClose(e, tbl) ==
    /\ conn' = [conn EXCEPT ![e] = [k \in Keys |-> IF tbl[k] # NoEnd /\ ~tbl[k].member /\ todo'[e] = {}
                                                   THEN NoEnd ELSE tbl[k]]]
    /\ UNCHANGED fin

Leave(e, tbl) ==
    LET closed == {k \in Keys : tbl[k] # NoEnd /\ ~tbl[k].member /\ todo'[e] = {}}
    IN  /\ conn' = [conn EXCEPT ![e] = [k \in Keys |-> IF k \in closed THEN NoEnd ELSE tbl[k]]]
        /\ fin' = [fin EXCEPT ![e] = @ \ closed, ![Peer(e)] = @ \cup closed]

\* A full network loses the packet.
Deliver(q, e, p) ==
    IF Len(q[e]) < setting.maxNet THEN [q EXCEPT ![e] = Append(@, p)] ELSE q

\* The objects of e when the ones in gone have been taken out of the group.
Removed(e, gone) ==
    [j \in Keys |-> IF j \in gone THEN [conn[e][j] EXCEPT !.member = FALSE] ELSE conn[e][j]]

\* INetConn::Output clears mNew of the carrier, whatever the packet is.
Output(tbl, via) == [tbl EXCEPT ![via].new = FALSE]

(***************************************************************************)
(* One packet of e through INetGroup::doSend, as the set of its results:   *)
(* the objects it leaves and the network, which was q.  The header carries *)
(* the key of the carrier, which is what the peer reads of a data packet.  *)
(***************************************************************************)
Sent(e, cmd, k, keyOfConnToReset, q) ==
    {IF r.via = NoConn THEN [tbl |-> Removed(e, r.removed), net |-> q]
     ELSE [tbl |-> Output(Removed(e, r.removed), r.via),
           net |-> Deliver(q, Peer(e), [cmd |-> cmd, key |-> IF cmd = "DATA" THEN r.via ELSE k])] :
     r \in DoSendResults(Members(e), Live(e), keyOfConnToReset)}

\* Application data of end e.
Send(e) ==
    /\ Idle(e)
    /\ UNCHANGED todo
    /\ \E s \in Sent(e, "DATA", NoConn, NoConn, net) :
         Leave(e, s.tbl) /\ net' = s.net
    /\ UNCHANGED <<setting, mReqMap, online, accepted, used>>

-----------------------------------------------------------------------------
SendNetConnRst(e, k, q) ==
    \E s \in Sent(e, "NETCONN_RST", k, k, q) : Leave(e, s.tbl) /\ net' = s.net

SendResponse(e, k, q) ==
    \E s \in Sent(e, "KEEP_ALIVE_RESP", k, NoConn, q) : Leave(e, s.tbl) /\ net' = s.net

\* SNetGroup::CreateNetConn, for a connection whose socket is in the pool.
CreateNetConn(k, q) ==
    /\ accepted' = accepted \ {k}
    /\ Leave(Server, [conn[Server] EXCEPT ![k] = NewNetConn])
    /\ net' = q

\* Data for a member goes up.  The server creates its end of a connection it
\* holds a socket for; any other key is reset.
InputData(e, k, q) ==
    /\ \/ /\ k \in Members(e)
          /\ net' = q
          /\ UNCHANGED <<conn, fin, accepted>>
       \/ /\ k \notin Members(e) /\ e = Server /\ k \in accepted
          /\ CreateNetConn(k, q)
       \/ /\ k \notin Members(e) /\ ~(e = Server /\ k \in accepted)
          /\ SendNetConnRst(e, k, q)
          /\ UNCHANGED accepted
    /\ UNCHANGED mReqMap

\* A keepalive request is answered for a member and reset otherwise.
InputRequest(e, k, q) ==
    /\ IF k \in Members(e) THEN SendResponse(e, k, q) ELSE SendNetConnRst(e, k, q)
    /\ UNCHANGED <<accepted, mReqMap>>

Answered(tbl, k) == IF tbl[k] = NoEnd THEN tbl ELSE [tbl EXCEPT ![k].sent = 0]

OnRecvResponse_KeepCount(e, k, q) ==
    /\ Leave(e, Answered(conn[e], k))
    /\ net' = q
    /\ UNCHANGED <<accepted, mReqMap>>

OnRecvResponse(e, k, q) ==
    /\ mReqMap' = [mReqMap EXCEPT ![e][k] = -1]
    /\ Leave(e, Answered(conn[e], k))
    /\ net' = q
    /\ UNCHANGED accepted

OnRecvNetConnRst(e, k, q) ==
    /\ Leave(e, IF k \in Members(e) THEN [conn[e] EXCEPT ![k].alive = FALSE] ELSE conn[e])
    /\ net' = q
    /\ UNCHANGED <<accepted, mReqMap>>

Without(s, i) == SubSeq(s, 1, i - 1) \o SubSeq(s, i + 1, Len(s))

\* IAppGroup::Input on the next packet.
Input(e) ==
    /\ Idle(e)
    /\ UNCHANGED <<setting, online, todo, used>>
    /\ \E i \in 1 .. Len(net[e]) :
         LET p == net[e][i]
             q == [net EXCEPT ![e] = Without(@, i)]
         IN  \/ p.cmd = "DATA" /\ InputData(e, p.key, q)
             \/ p.cmd = "KEEP_ALIVE_REQ" /\ InputRequest(e, p.key, q)
             \/ p.cmd = "KEEP_ALIVE_RESP" /\ OnRecvResponse(e, p.key, q)
             \/ p.cmd = "NETCONN_RST" /\ OnRecvNetConnRst(e, p.key, q)

-----------------------------------------------------------------------------
\* The loop of NetConnKeepAlive::OnFlush: which connections it has to visit
\* when the timer fires, and one visit.
BeginLoop(e) ==
    /\ Idle(e)
    /\ e \in setting.probers
    /\ todo' = [todo EXCEPT ![e] = IF online[e] THEN Members(e) ELSE {}]

Visit(e, k) ==
    /\ k \in todo[e]
    /\ todo' = [todo EXCEPT ![e] = @ \ {k}]

\* NetConnKeepAlive::OnFlush up to its loop: forget the requests for
\* connections that have left the group and, while online, visit the members.
OnFlush(e) ==
    /\ BeginLoop(e)
    /\ mReqMap' = [mReqMap EXCEPT ![e] =
                     [k \in Keys |-> IF k \in Members(e) THEN @[k] ELSE -1]]
    /\ UNCHANGED <<setting, conn, online, accepted, fin, net, used>>

canSendRequest(c) == ~c.new /\ c.aged

\* The trial counts after the visit of k: a first trial is 0.
Visited_NoIncrement(e, k) ==
    IF canSendRequest(conn[e][k]) /\ mReqMap[e][k] = -1
    THEN [mReqMap[e] EXCEPT ![k] = 0] ELSE mReqMap[e]

Visited(e, k) ==
    IF canSendRequest(conn[e][k]) THEN [mReqMap[e] EXCEPT ![k] = @ + 1] ELSE mReqMap[e]

\* The connections found dead once every connection has been visited.
Expired(e, k) ==
    IF todo[e] = {k} THEN {j \in Keys : Visited(e, k)[j] >= MAX_RETRY} ELSE {}

\* onNetConnDead for every expired connection that is still a member.
TimedOut(tbl, dead) ==
    [j \in Keys |-> IF j \in dead /\ tbl[j] # NoEnd /\ tbl[j].member
                    THEN [tbl[j] EXCEPT !.alive = FALSE, !.timedOut = TRUE]
                    ELSE tbl[j]]

Requested(tbl, k) == [tbl EXCEPT ![k].sent = IF @ < MAX_RETRY THEN @ + 1 ELSE @]

\* One pass of OnFlush's loop, with what follows the loop after the last one.
OnFlushStep(e, k) ==
    /\ Visit(e, k)
    /\ mReqMap' = [mReqMap EXCEPT ![e] =
                     [j \in Keys |-> IF j \in Expired(e, k) THEN -1 ELSE Visited(e, k)[j]]]
    /\ IF canSendRequest(conn[e][k]) /\ Visited(e, k)[k] < MAX_RETRY
       THEN \E s \in Sent(e, "KEEP_ALIVE_REQ", k, NoConn, net) :
              /\ Leave(e, TimedOut(Requested(s.tbl, k), Expired(e, k)))
              /\ net' = s.net
       ELSE /\ Leave(e, TimedOut(conn[e], Expired(e, k)))
            /\ UNCHANGED net
    /\ UNCHANGED <<setting, online, accepted, used>>

\* The RouteService reports the network lost or found: the counts start anew.
OnRouteChange(e, up) ==
    /\ Idle(e)
    /\ e \in setting.routeEnds
    /\ online' = [online EXCEPT ![e] = up]
    /\ mReqMap' = [mReqMap EXCEPT ![e] = NoReqs]
    /\ conn' = [conn EXCEPT ![e] = [k \in Keys |-> Answered(conn[e], k)[k]]]
    /\ UNCHANGED <<setting, todo, accepted, fin, net, used>>

-----------------------------------------------------------------------------
\* The application timer removes the dead members.
Flush(e) ==
    /\ Idle(e)
    /\ Members(e) # Live(e)
    /\ UNCHANGED todo
    /\ Leave(e, Removed(e, Members(e) \ Live(e)))
    /\ UNCHANGED <<setting, mReqMap, online, accepted, net, used>>

\* FakeTcp::read_cb sees the FIN of the peer.
ReadErr(e, k) ==
    /\ Idle(e)
    /\ k \in fin[e] \cap Members(e)
    /\ fin' = [fin EXCEPT ![e] = @ \ {k}]
    /\ conn' = [conn EXCEPT ![e][k].alive = FALSE]
    /\ UNCHANGED <<setting, mReqMap, online, todo, accepted, net, used>>

\* The client's kernel connects a socket with key k and the client adds it to
\* its group; the server accepts it into its pool.
Dial(k) ==
    /\ Idle(Client)
    /\ k \in setting.dialled
    /\ k \notin used \/ KeyReuse
    /\ \A e \in Ends : conn[e][k] = NoEnd
    /\ k \notin accepted
    /\ used' = used \cup {k}
    /\ conn' = [conn EXCEPT ![Client][k] = NewNetConn]
    /\ accepted' = accepted \cup {k}
    /\ fin' = [e \in Ends |-> fin[e] \ {k}]
    /\ UNCHANGED <<setting, mReqMap, online, todo, net>>

\* REQUEST_DELAY has passed since the connection was created.
Age(e, k) ==
    /\ Idle(e)
    /\ k \in Members(e) \cap setting.ages
    /\ ~conn[e][k].aged
    /\ conn' = [conn EXCEPT ![e][k].aged = TRUE]
    /\ UNCHANGED <<setting, mReqMap, online, todo, accepted, fin, net, used>>

\* ServerNetManager::OnFlush closes a socket nobody fetched in time.
ExpirePooled(k) ==
    /\ Idle(Server)
    /\ k \in accepted
    /\ accepted' = accepted \ {k}
    /\ fin' = [fin EXCEPT ![Client] = @ \cup {k}]
    /\ UNCHANGED <<setting, conn, mReqMap, online, todo, net, used>>

\* The network loses a packet.
Lose(e) ==
    /\ \E i \in 1 .. Len(net[e]) : net' = [net EXCEPT ![e] = Without(@, i)]
    /\ UNCHANGED <<setting, conn, mReqMap, online, todo, accepted, fin, used>>

\* The server's machine restarts: its ends are gone and no FIN was sent.
Restart ==
    /\ conn' = [conn EXCEPT ![Server] = NoConns,
                            ![Client] = [k \in Keys |-> IF @[k] = NoEnd THEN NoEnd
                                                        ELSE [@[k] EXCEPT !.cut = TRUE]]]
    /\ mReqMap' = [mReqMap EXCEPT ![Server] = NoReqs]
    /\ online' = [online EXCEPT ![Server] = TRUE]
    /\ todo' = [todo EXCEPT ![Server] = {}]
    /\ accepted' = {}
    /\ fin' = [fin EXCEPT ![Server] = {}]
    /\ net' = [net EXCEPT ![Server] = <<>>]
    /\ UNCHANGED <<setting, used>>

Next ==
    \/ \E e \in Ends : Send(e) \/ Input(e) \/ OnFlush(e) \/ Flush(e) \/ Lose(e)
    \/ \E e \in Ends, k \in Keys : OnFlushStep(e, k) \/ Age(e, k) \/ ReadErr(e, k)
    \/ \E e \in Ends, up \in BOOLEAN : OnRouteChange(e, up)
    \/ \E k \in Keys : Dial(k) \/ ExpirePooled(k)
    \/ Restart

Spec == Init /\ [][Next]_vars

\* The timers of both ends fire and time passes: the event loop gets back to
\* each of them after every callback, however often another callback runs
\* first.  No packet need arrive.
Fairness ==
    \A e \in Ends :
        /\ WF_todo(BeginLoop(e) \/ \E k \in Keys : Visit(e, k))
        /\ SF_vars(Flush(e) \/ \E k \in Keys : Age(e, k))

FairSpec == Spec /\ Fairness

-----------------------------------------------------------------------------
\* NetConnKeepAlive reports a connection dead only after it sent MAX_RETRY
\* requests for that very connection with no answer to any of them.
TimeoutAfterThreeTrials ==
    [][\A e \in Ends, k \in Keys :
         LET c == conn[e][k]
             d == conn'[e][k]
         IN  c # NoEnd /\ d # NoEnd /\ d.timedOut => c.timedOut \/ c.sent = MAX_RETRY]_vars

HasPeer(e, k) == conn[Peer(e)][k] # NoEnd \/ (e = Client /\ k \in accepted)

\* Short of a power loss no end is left behind unaware: when one end of a
\* connection is gone, the other is dead already or has the FIN in its kernel.
EndsMatch ==
    \A e \in Ends : \A k \in Live(e) : HasPeer(e, k) \/ k \in fin[e] \/ conn[e][k].cut

\* An end that has sent something and whose other end is gone leaves the
\* group, whatever the network loses, once the route has settled.
HalfOpenDropped ==
    \A e \in Ends :
        <>[](online[e]) /\ <>[][~ \E up \in BOOLEAN : OnRouteChange(e, up)]_vars =>
            \A k \in UNION {s.ages : s \in Settings} :
                /\ e \in setting.probers /\ k \in setting.ages
                /\ k \in Members(e) /\ ~conn[e][k].new /\ ~HasPeer(e, k)
                ~> k \notin Members(e)

=============================================================================
