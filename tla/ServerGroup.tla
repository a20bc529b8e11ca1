---------------------------- MODULE ServerGroup ----------------------------
(***************************************************************************)
(* A server with several clients: ServerGroup (server/ServerGroup.cpp) has *)
(* a SubGroup for every client id, a SubGroup has the conversations of its *)
(* client and an SNetGroup with the client's FakeTcp connections, which    *)
(* take their sockets from the pool of ServerNetManager.  One action is    *)
(* one callback of the loop thread or one event of the clients.            *)
(*                                                                         *)
(* A connection has the identity the client's kernel gives it.  What each  *)
(* end sees of it differs behind a NAT: the client computes the key from   *)
(* its own ports, the server captures packets with the translated one.     *)
(* The pool goes by what the server sees: the address ip and the port nat  *)
(* they come from, and its own port dp.  Connections with the same Tcp use *)
(* the same ports one after the other.                                     *)
(***************************************************************************)
EXTENDS NetGroup, KeyGenerator, Naturals

CONSTANTS
    Ids,            \* client ids (EncHead::IdBuf)
    Conns,          \* TCP connections the clients open, each once
    Tcp,            \* their [id, ip, sp, dp, nat]
    Convs,          \* conversation numbers of one client
    NoConv,         \* no SConn for a number
    MaxNet,         \* packets on their way to the server
    MaxDials        \* connections opened before the clients stop opening more

\* What INetConn::mIntKey is for connection c, at both ends.
KeyOf(c) == KeyForTcp(Tcp[c].sp, Tcp[c].dp)

\* The ports that tell connections apart, for the client and for the server.
Dialled(c) == <<Tcp[c].sp, Tcp[c].dp>>
Seen(c) == <<Tcp[c].ip, Tcp[c].nat, Tcp[c].dp>>

Keys == {KeyOf(c) : c \in Conns}
Owned(id) == {c \in Conns : Tcp[c].id = id}

Stat == [in : BOOLEAN, out : BOOLEAN, alive : BOOLEAN]

\* A NAT gives a port of its address to one port of one client.
ASSUME ServerGroupAssumption ==
    /\ Tcp \in [Conns -> [id : Ids, ip : Nat, sp : PortNumbers, dp : PortNumbers, nat : PortNumbers]]
    /\ \A c, d \in Conns : Seen(c) = Seen(d) => Tcp[c] = Tcp[d]
    /\ NoConn \notin Conns
    /\ NoConv \notin Stat

Packets ==
    [cmd : {"DATA"}, via : Conns, conv : Convs]
    \cup [cmd : {"KEEP_ALIVE_REQ", "NETCONN_RST"}, via : Conns, key : Keys]
    \cup [cmd : {"FIN"}, via : Conns]

VARIABLES
    client,         \* the client's end: "new", "up" or "closed"
    net,            \* packets on their way
    backlog,        \* connections the listening socket has not yet returned
    sockets,        \* those whose uv_tcp_t the server has open
    mPool,          \* ServerNetManager::mPool
    groups,         \* ids that have a SubGroup
    mConns,         \* members of the SNetGroup of an id
    dead,           \* existing FakeTcps whose mAlive is false
    mErrMsgs,       \* connections with a MSG_CONN_ERR in the group's handler
    sconns,         \* the SConns of an id
    lost,           \* connections whose MSG_CONN_ERR went with its handler
    stray           \* accepted, but neither pooled nor closed

clientVars == <<client, net, backlog>>
groupVars == <<groups, mConns, dead, mErrMsgs, sconns, lost>>
vars == <<clientVars, sockets, mPool, groupVars, stray>>

TypeOK ==
    /\ client \in [Conns -> {"new", "up", "closed"}]
    /\ net \subseteq Packets
    /\ backlog \subseteq Conns
    /\ sockets \subseteq Conns
    /\ mPool \subseteq Conns
    /\ groups \subseteq Ids
    /\ mConns \in [Ids -> SUBSET Conns]
    /\ dead \subseteq Conns
    /\ mErrMsgs \in [Ids -> SUBSET Conns]
    /\ sconns \in [Ids -> [Convs -> Stat \cup {NoConv}]]
    /\ lost \subseteq Conns
    /\ stray \subseteq Conns

NoConvs == [v \in Convs |-> NoConv]

Init ==
    /\ client = [c \in Conns |-> "new"]
    /\ net = {}
    /\ backlog = {}
    /\ sockets = {}
    /\ mPool = {}
    /\ groups = {}
    /\ mConns = [id \in Ids |-> {}]
    /\ dead = {}
    /\ mErrMsgs = [id \in Ids |-> {}]
    /\ sconns = [id \in Ids |-> NoConvs]
    /\ lost = {}
    /\ stray = {}

-----------------------------------------------------------------------------
(* The clients and the kernels. *)

\* A client connects; its own kernel keeps the port pairs of its connections
\* apart while they are open.  (Their keys need not differ: the type bit hides
\* one bit of the port.)
Dial(c) ==
    /\ client[c] = "new"
    /\ Cardinality({d \in Conns : client[d] # "new"}) < MaxDials
    /\ \A d \in Owned(Tcp[c].id) : client[d] = "up" => Dialled(d) # Dialled(c)
    /\ client' = [client EXCEPT ![c] = "up"]
    /\ backlog' = backlog \cup {c}
    /\ UNCHANGED <<net, sockets, mPool, groupVars, stray>>

\* Room for another packet; beyond it a packet counts as not captured.
Post(p) == net' = IF Cardinality(net) < MaxNet THEN net \cup {p} ELSE net

\* The client's end is closed: a FIN, for the server's kernel and for pcap.
Hangup(c) ==
    /\ client[c] = "up"
    /\ client' = [client EXCEPT ![c] = "closed"]
    /\ Post([cmd |-> "FIN", via |-> c])
    /\ UNCHANGED <<backlog, sockets, mPool, groupVars, stray>>

\* The client sends data, asks about one of its connections or resets one it
\* does not have (any more).
PeerSend(p) ==
    /\ p.cmd # "FIN"
    /\ client[p.via] = "up"
    /\ p.cmd = "KEEP_ALIVE_REQ" =>
         \E d \in Owned(Tcp[p.via].id) : client[d] = "up" /\ KeyOf(d) = p.key
    /\ p.cmd = "NETCONN_RST" =>
         \E d \in Owned(Tcp[p.via].id) : client[d] = "closed" /\ KeyOf(d) = p.key
    /\ Post(p)
    /\ UNCHANGED <<client, backlog, sockets, mPool, groupVars, stray>>

\* A packet is not captured, or the SubGroup it needs cannot be initialised.
Lose(p) ==
    /\ net' = net \ {p}
    /\ UNCHANGED <<client, backlog, sockets, mPool, groupVars, stray>>

-----------------------------------------------------------------------------
(* The pool. *)

\* The pooled socket under the addresses and ports of c.
Pooled(c) == {d \in mPool : Seen(d) = Seen(c)}

\* The accept callback: add2Pool.  GetTcpInfo fails for a socket whose peer is
\* gone, and emplace leaves an entry that is there: either way nobody has the
\* new socket.
Accept(c) ==
    /\ c \in backlog
    /\ backlog' = backlog \ {c}
    /\ sockets' = sockets \cup {c}
    /\ \/ /\ Pooled(c) = {}
          /\ mPool' = mPool \cup {c}
          /\ UNCHANGED stray
       \/ /\ client[c] = "closed" \/ Pooled(c) # {}
          /\ stray' = stray \cup {c}
          /\ UNCHANGED mPool
    /\ UNCHANGED <<client, net, groupVars>>

\* ServerNetManager::OnFlush finds the socket expired.
Expire(c) ==
    /\ c \in mPool
    /\ mPool' = mPool \ {c}
    /\ sockets' = sockets \ {c}
    /\ UNCHANGED <<clientVars, groupVars, stray>>

-----------------------------------------------------------------------------
(* Packets. *)

alive == Conns \ dead

ConnOfIntKey_Alive(id, k) == {c \in mConns[id] \ dead : KeyOf(c) = k}

ConnOfIntKey(id, k) == {c \in mConns[id] : KeyOf(c) = k}

\* INetGroup::doSend on the members; conns is what there is of them, and used
\* is the connection that takes the packet.  (A reset is only ever sent for a
\* key without a connection, so no member is excluded.)
doSend(id, conns, used) ==
    \E r \in DoSendResults(conns, alive, NoConn) :
        /\ r.via = used
        /\ mConns' = [mConns EXCEPT ![id] = conns \ r.removed]
        /\ mErrMsgs' = [mErrMsgs EXCEPT ![id] = @ \cup r.removed]

NewStat == [in |-> FALSE, out |-> FALSE, alive |-> TRUE]

\* SubGroup::OnRecv: the SConn gets the packet, and is made when there is none.
SubGroupOnRecv(id, v) ==
    sconns' = [sconns EXCEPT ![id][v] =
                 [(IF @ = NoConv THEN NewStat ELSE @) EXCEPT !.in = TRUE]]

\* SNetGroup::CreateNetConn succeeds: the socket is in the pool, its SYN has
\* been captured in time and FakeTcp::Init does not fail (ok).
CreateNetConn(c, ok) == ok /\ Pooled(c) # {}

\* GetTcp takes the socket out of the pool whatever comes of it.
TakeFromPool_Keep(c) == mPool' = mPool

TakeFromPool(c) == mPool' = mPool \ Pooled(c)

\* ServerGroup::OnRecv with data: the SubGroup of the id, new if need be; its
\* FakeTcp of the key, or a new one on the pooled socket of the packet's ports,
\* or the default connection and a reset for the key.  GetTcp closes a pooled
\* socket that it cannot use.
OnRecvData(p, ok) ==
    LET c == p.via
        id == Tcp[c].id
    IN  /\ p.cmd = "DATA"
        /\ net' = net \ {p}
        /\ groups' = groups \cup {id}
        /\ SubGroupOnRecv(id, p.conv)
        /\ \/ /\ ConnOfIntKey(id, KeyOf(c)) # {}
              /\ UNCHANGED <<sockets, mPool, mConns, mErrMsgs>>
           \/ /\ ConnOfIntKey(id, KeyOf(c)) = {}
              /\ CreateNetConn(c, ok)
              /\ TakeFromPool(c)
              /\ mConns' = [mConns EXCEPT ![id] = @ \cup Pooled(c)]
              /\ UNCHANGED <<sockets, mErrMsgs>>
           \/ /\ ConnOfIntKey(id, KeyOf(c)) = {}
              /\ ~CreateNetConn(c, ok)
              /\ TakeFromPool(c)
              /\ sockets' = sockets \ Pooled(c)
              /\ \E used \in Conns \cup {NoConn} : doSend(id, mConns[id], used)
        /\ UNCHANGED <<client, backlog, dead, lost, stray>>

\* NetConnKeepAlive::Input for a request: a response when the key is known, a
\* reset when it is not; one packet through doSend either way.
OnRecvKeepAlive(p) ==
    LET id == Tcp[p.via].id
    IN  /\ p.cmd = "KEEP_ALIVE_REQ"
        /\ net' = net \ {p}
        /\ groups' = groups \cup {id}
        /\ \E used \in Conns \cup {NoConn} : doSend(id, mConns[id], used)
        /\ UNCHANGED <<client, backlog, sockets, mPool, dead, sconns, lost, stray>>

\* ConnReset::OnRecvNetConnRst.
OnRecvNetConnRst(p) ==
    LET id == Tcp[p.via].id
    IN  /\ p.cmd = "NETCONN_RST"
        /\ net' = net \ {p}
        /\ groups' = groups \cup {id}
        /\ dead' = dead \cup ConnOfIntKey(id, p.key)
        /\ UNCHANGED <<client, backlog, sockets, mPool, mConns, mErrMsgs, sconns, lost, stray>>

FinKey_Reversed(c) == KeyForTcp(Tcp[c].nat, Tcp[c].dp)

\* The key ProcessTcpFinOrRst computes from the captured segment: RawInput has
\* put the server's own port into sp and the translated client port into dp.
FinKey(c) == KeyForTcp(Tcp[c].dp, Tcp[c].nat)

\* ServerGroup::OnTcpFinOrRst: the first SubGroup that has the key takes it.
OnTcpFinOrRst(p) ==
    LET found == {ConnOfIntKey(id, FinKey(p.via)) : id \in groups} \ {{}}
    IN  /\ p.cmd = "FIN"
        /\ net' = net \ {p}
        /\ dead' \in {dead \cup cs : cs \in IF found = {} THEN {{}} ELSE found}
        /\ UNCHANGED <<client, backlog, sockets, mPool, groups, mConns, mErrMsgs,
                       sconns, lost, stray>>

-----------------------------------------------------------------------------
(* What the connections and the conversations do by themselves. *)

\* SConn::udpRecvCb: the target answers; sent when a connection takes it.
udpRecvCb(id, v, used) ==
    /\ sconns[id][v] # NoConv
    /\ doSend(id, mConns[id], used)
    /\ sconns' = [sconns EXCEPT ![id][v].out = @ \/ used # NoConn]
    /\ UNCHANGED <<clientVars, sockets, mPool, groups, dead, lost, stray>>

\* FakeTcp::read_cb: end of file on a socket whose peer is gone.
ReadErr(c) ==
    /\ client[c] = "closed"
    /\ c \in sockets \ (mPool \cup stray)
    /\ dead' = dead \cup {c}
    /\ UNCHANGED <<clientVars, sockets, mPool, groups, mConns, mErrMsgs, sconns, lost, stray>>

\* The server's own keepalive requests for c stayed without an answer.
onNetConnDead(id, c) ==
    /\ c \in mConns[id]
    /\ dead' = dead \cup {c}
    /\ UNCHANGED <<clientVars, sockets, mPool, groups, mConns, mErrMsgs, sconns, lost, stray>>

\* INetGroup::handleMessage, MSG_CONN_ERR: the server does not dial again.
handleMessage(id, c) ==
    /\ c \in mErrMsgs[id]
    /\ mErrMsgs' = [mErrMsgs EXCEPT ![id] = @ \ {c}]
    /\ sockets' = sockets \ {c}
    /\ dead' = dead \ {c}
    /\ UNCHANGED <<clientVars, mPool, groups, mConns, sconns, lost, stray>>

-----------------------------------------------------------------------------
(* The application timer. *)

Alive_Empty(id) ==
    \/ mConns[id] = {}
    \/ mConns[id] \cap alive # {}

\* IAppGroup::Alive: a live connection, and, when there are conversations, a
\* live one of these.
Alive(id) ==
    /\ mConns[id] \cap alive # {}
    /\ \/ \A v \in Convs : sconns[id][v] = NoConv
       \/ \E v \in Convs : sconns[id][v] # NoConv /\ sconns[id][v].alive

DeadGroups == {id \in groups : ~Alive(id)}

FlushStat(s) == [in |-> FALSE, out |-> FALSE, alive |-> s.in /\ s.out]

FlushConvs(convs) ==
    [v \in Convs |->
        IF convs[v] = NoConv \/ ~convs[v].alive THEN NoConv ELSE FlushStat(convs[v])]

ClosedWith_NoMembers(id) == {}

\* INetGroup::Close closes the members.  The connections that wait in the
\* handler for their MSG_CONN_ERR are dropped with it, neither closed nor freed.
ClosedWith(id) == mConns[id]

\* IGroup::Flush on ServerGroup: the dead SubGroups are closed, then the others
\* flush their conversations and post their dead connections.
Flush ==
    LET closed == UNION {ClosedWith(id) : id \in DeadGroups}
    IN  /\ groups' = groups \ DeadGroups
        /\ sockets' = sockets \ closed
        /\ lost' = lost \cup UNION {mErrMsgs[id] : id \in DeadGroups}
        /\ mConns' = [id \in Ids |->
                        IF id \in DeadGroups THEN {} ELSE mConns[id] \cap alive]
        /\ mErrMsgs' = [id \in Ids |->
                          IF id \in DeadGroups THEN {}
                          ELSE mErrMsgs[id] \cup DeadConns(mConns[id], alive)]
        /\ sconns' = [id \in Ids |->
                        IF id \in DeadGroups THEN NoConvs ELSE FlushConvs(sconns[id])]
        /\ dead' = dead \ closed
        /\ UNCHANGED <<clientVars, mPool, stray>>

Next ==
    \/ \E c \in Conns : Dial(c) \/ Hangup(c) \/ Accept(c) \/ Expire(c) \/ ReadErr(c)
    \/ \E p \in Packets : PeerSend(p)
    \/ \E p \in net : \/ Lose(p)
                      \/ \E ok \in BOOLEAN : OnRecvData(p, ok)
                      \/ OnRecvKeepAlive(p)
                      \/ OnRecvNetConnRst(p)
                      \/ OnTcpFinOrRst(p)
    \/ \E id \in Ids, v \in Convs, used \in Conns \cup {NoConn} : udpRecvCb(id, v, used)
    \/ \E id \in Ids, c \in Conns : onNetConnDead(id, c) \/ handleMessage(id, c)
    \/ Flush

Spec == Init /\ [][Next]_vars

(***************************************************************************)
(* Fairness: the loop goes on serving the events that are ready - the      *)
(* accept callback, end of file on a socket, the handler's timer, the      *)
(* timer of the pool - and the application timer keeps firing.  Nothing is *)
(* assumed of the clients or of the network, nor which event comes first.  *)
(***************************************************************************)
FairSpec ==
    /\ Spec
    /\ WF_vars(\E c \in Conns : \/ Accept(c) \/ Expire(c) \/ ReadErr(c)
                               \/ \E id \in Ids : handleMessage(id, c))
    /\ WF_vars(Flush)

-----------------------------------------------------------------------------
Members == UNION {mConns[id] : id \in Ids}
Posted == UNION {mErrMsgs[id] : id \in Ids}

\* Every open socket has exactly one owner that will close it: the pool, a group
\* that has it as a member, or a queued MSG_CONN_ERR.  The exceptions are a
\* message that was dropped with the handler of its group (INetGroup::Close), and
\* a socket that add2Pool could not pool.
SocketsOwned ==
    /\ sockets = mPool \cup Members \cup Posted \cup lost \cup stray
    /\ mPool \cap (Members \cup Posted \cup lost \cup stray) = {}
    /\ Members \cap (Posted \cup lost \cup stray) = {}
    /\ Posted \cap (lost \cup stray) = {}
    /\ lost \cap stray = {}

\* A SubGroup has only connections of its own client, in the group and in its
\* messages, at most one for a key (the maps of INetGroup stay of equal size),
\* and only a SubGroup that exists has any.
GroupsApart ==
    \A id \in Ids :
        /\ mConns[id] \cup mErrMsgs[id] \subseteq Owned(id)
        /\ \A c, d \in mConns[id] : KeyOf(c) = KeyOf(d) => c = d
        /\ id \notin groups => mConns[id] = {} /\ mErrMsgs[id] = {} /\ sconns[id] = NoConvs

\* d was dialled from the port number that c was dialled to, and to the one the
\* NAT gave c, the bit that the type hides aside.
Mirrors(d, c) == Tcp[d].sp = Tcp[c].dp /\ OrTypeTcp(Tcp[d].dp) = OrTypeTcp(Tcp[c].nat)

\* OnTcpFinOrRst asks all SubGroups, with a key that has the server's port where
\* the keys of the members have a client's.  A captured FIN or RST so marks no
\* connection, its own included, but one whose ports mirror those of the segment,
\* and never more than one.
FinHitsMirror ==
    [][\A p \in net : OnTcpFinOrRst(p) =>
          \A d, e \in dead' \ dead : d = e /\ Mirrors(d, p.via)]_vars

\* The sockets of connections that their clients have closed, but for those whose
\* message was dropped and those that never got into the pool.
LeftOpen == {c \in (backlog \cup sockets) \ (lost \cup stray) : client[c] = "closed"}

\* A connection its client has closed does not keep a socket of the server for
\* ever: it is closed from the pool, by its group or with its group, and again
\* and again there is none left.
SocketReclaimed == []<>(LeftOpen = {})

\* The SubGroup of a client without connections goes away and stays away, late
\* packets notwithstanding.  (Every connection is opened once: from some time on
\* a client has one that stays up, or none.)
GroupReaped == <>[](\A id \in groups : \E c \in Owned(id) : client[c] = "up")

=============================================================================
