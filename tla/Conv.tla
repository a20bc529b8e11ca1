------------------------------- MODULE Conv -------------------------------
(***************************************************************************)
(* The conversations carried by the network connections of one client:     *)
(* ClientGroup and its CConns (client/ClientGroup.cpp), SubGroup and its   *)
(* SConns (server/SubGroup.cpp), the conversation reset                    *)
(* (callbacks/ConnReset.cpp) and the closing of idle conversations by      *)
(* IGroup::Flush and DataStat (conn/IGroup.cpp, conn/IConn.cpp).           *)
(*                                                                         *)
(* A local application is known by its UDP address and gets a CConn with a *)
(* new conversation number.  The server keeps an SConn, that is a UDP      *)
(* socket to the target, per number and address the packet came from.      *)
(* Packets in between may be lost and overtake each other.                 *)
(***************************************************************************)
EXTENDS Integers, FiniteSets

CONSTANTS
    Apps,           \* addresses of local applications
    Ips,            \* addresses the client may have
    Sites,          \* deployments: the applications, addresses and packets
                    \* under way of each
    MaxConv,        \* conversations numbered, 2^32 in the code
    NoConn          \* no CConn, no SConn, no entry

Convs == 1 .. MaxConv

(***************************************************************************)
(* DataStat: input and output since the last Flush, and mAlive.            *)
(***************************************************************************)
Stat == [in : BOOLEAN, out : BOOLEAN, alive : BOOLEAN]
CConn == [conv : Convs, stat : Stat]
SConn == [app : Apps, stat : Stat]

ASSUME ConvAssumption ==
    /\ MaxConv \in Nat \ {0}
    /\ Sites \subseteq [apps : SUBSET Apps, ips : SUBSET Ips \ {{}}, maxNet : Nat]
    /\ NoConn \notin Apps \cup CConn \cup SConn

VARIABLES
    site,           \* the deployment, which stays as it is
    ip,             \* the address the server sees the client at
    mConvCounter,
    cconns,         \* ClientGroup::mConns
    mConvMap,       \* ClientGroup::mConvMap
    sconns,         \* SubGroup::mConns; app is whose data opened the socket
    net             \* packets on their way, with the app their data is from or for

convVars == <<site, ip, mConvCounter, cconns, mConvMap, sconns, net>>

Packets ==
    [cmd : {"UP"}, conv : Convs, ip : Ips, app : Apps]
    \cup [cmd : {"DOWN"}, conv : Convs, app : Apps]
    \cup [cmd : {"CONV_RST"}, conv : Convs, ip : Ips]

ConvTypeOK ==
    /\ site \in Sites
    /\ ip \in site.ips
    /\ mConvCounter \in 0 .. MaxConv
    /\ cconns \in [Apps -> CConn \cup {NoConn}]
    /\ mConvMap \in [Convs -> Apps \cup {NoConn}]
    /\ sconns \in [Ips \X Convs -> SConn \cup {NoConn}]
    /\ net \subseteq Packets

ConvInit ==
    /\ site \in Sites
    /\ ip \in site.ips
    /\ mConvCounter = 0
    /\ cconns = [a \in Apps |-> NoConn]
    /\ mConvMap = [c \in Convs |-> NoConn]
    /\ sconns = [k \in Ips \X Convs |-> NoConn]
    /\ net = {}

-----------------------------------------------------------------------------
NewStat == [in |-> FALSE, out |-> FALSE, alive |-> TRUE]
afterSend(s) == [s EXCEPT !.out = TRUE]
afterInput(s) == [s EXCEPT !.in = TRUE]

FlushStat_Either(s) == [in |-> FALSE, out |-> FALSE, alive |-> s.in \/ s.out]

\* DataStat::Flush.
FlushStat(s) == [in |-> FALSE, out |-> FALSE, alive |-> s.in /\ s.out]

\* One packet more on its way, if there is room.
Post(q, p) == IF Cardinality(q) < site.maxNet THEN q \cup {p} ELSE q

newConn_Recycle(a, stat) ==
    LET free == {c \in Convs : mConvMap[c] = NoConn}
        conv == CHOOSE c \in free : \A d \in free : c <= d
    IN  /\ free # {}
        /\ mConvCounter' = conv
        /\ mConvMap' = [mConvMap EXCEPT ![conv] = a]
        /\ cconns' = [cconns EXCEPT ![a] = [conv |-> conv, stat |-> stat]]

\* ++mConvCounter; insert leaves an entry that is there.
newConn(a, stat) ==
    LET conv == mConvCounter + 1
    IN  /\ mConvCounter < MaxConv
        /\ mConvCounter' = conv
        /\ mConvMap' = [mConvMap EXCEPT ![conv] = IF @ = NoConn THEN a ELSE @]
        /\ cconns' = [cconns EXCEPT ![a] = [conv |-> conv, stat |-> stat]]

\* cconSend: the conversation's number goes into the head.
cconSend(a, conv) ==
    net' = Post(net, [cmd |-> "UP", conv |-> conv, ip |-> ip, app |-> a])

\* A datagram of application a: the first of a conversation, one of a
\* conversation there is, and either when no network connection takes it
\* (for a conversation there is that changes nothing).
onLocalRecvNew(a) ==
    /\ cconns[a] = NoConn
    /\ newConn(a, afterSend(NewStat))
    /\ cconSend(a, mConvCounter')
    /\ UNCHANGED <<site, ip, sconns>>

onLocalRecvNewFailed(a) ==
    /\ cconns[a] = NoConn
    /\ newConn(a, NewStat)
    /\ UNCHANGED <<site, ip, sconns, net>>

onLocalRecv(a) ==
    /\ cconns[a] # NoConn
    /\ cconns' = [cconns EXCEPT ![a].stat = afterSend(@)]
    /\ cconSend(a, cconns[a].conv)
    /\ UNCHANGED <<site, ip, mConvCounter, mConvMap, sconns>>

\* ClientGroup::OnRecv for a conversation it has, and for one it has not.
ClientOnRecv(p) ==
    /\ p.cmd = "DOWN"
    /\ mConvMap[p.conv] # NoConn
    /\ cconns' = [cconns EXCEPT ![mConvMap[p.conv]].stat = afterInput(@)]
    /\ net' = net \ {p}
    /\ UNCHANGED <<site, ip, mConvCounter, mConvMap, sconns>>

SendConvRst(p) ==
    /\ p.cmd = "DOWN"
    /\ mConvMap[p.conv] = NoConn
    /\ net' = Post(net \ {p}, [cmd |-> "CONV_RST", conv |-> p.conv, ip |-> ip])
    /\ UNCHANGED <<site, ip, mConvCounter, cconns, mConvMap, sconns>>

-----------------------------------------------------------------------------
\* SubGroup::OnRecv: the conversation is opened by its first packet.
ServerOnRecv(p) ==
    LET k == <<p.ip, p.conv>>
        conn == IF sconns[k] = NoConn THEN [app |-> p.app, stat |-> NewStat] ELSE sconns[k]
    IN  /\ p.cmd = "UP"
        /\ sconns' = [sconns EXCEPT ![k] = [conn EXCEPT !.stat = afterInput(@)]]
        /\ net' = net \ {p}
        /\ UNCHANGED <<site, ip, mConvCounter, cconns, mConvMap>>

udpRecvCb_CountsInput(k) ==
    /\ sconns[k] # NoConn
    /\ sconns' = [sconns EXCEPT ![k].stat = afterInput(afterSend(@))]
    /\ net' = Post(net, [cmd |-> "DOWN", conv |-> k[2], app |-> sconns[k].app])
    /\ UNCHANGED <<site, ip, mConvCounter, cconns, mConvMap>>

\* The target answers on the socket of an SConn.
udpRecvCb(k) ==
    /\ sconns[k] # NoConn
    /\ sconns' = [sconns EXCEPT ![k].stat = afterSend(@)]
    /\ net' = Post(net, [cmd |-> "DOWN", conv |-> k[2], app |-> sconns[k].app])
    /\ UNCHANGED <<site, ip, mConvCounter, cconns, mConvMap>>

OnRecvConvRst(p) ==
    /\ p.cmd = "CONV_RST"
    /\ sconns' = [sconns EXCEPT ![<<p.ip, p.conv>>] = NoConn]
    /\ net' = net \ {p}
    /\ UNCHANGED <<site, ip, mConvCounter, cconns, mConvMap>>

-----------------------------------------------------------------------------
Dead(c) == c # NoConn /\ ~c.stat.alive

\* IGroup::Flush: the dead are closed, the others judged anew.
Flushed(conns) ==
    [k \in DOMAIN conns |->
        IF conns[k] = NoConn \/ Dead(conns[k]) THEN NoConn
        ELSE [conns[k] EXCEPT !.stat = FlushStat(@)]]

ClientFlush_KeepConv ==
    /\ cconns' = Flushed(cconns)
    /\ UNCHANGED <<site, ip, mConvCounter, mConvMap, sconns, net>>

\* ClientGroup::RemoveConn takes the number out of mConvMap too.
ClientFlush ==
    /\ cconns' = Flushed(cconns)
    /\ mConvMap' = [c \in Convs |->
                      IF \E a \in Apps : Dead(cconns[a]) /\ cconns[a].conv = c THEN NoConn
                      ELSE mConvMap[c]]
    /\ UNCHANGED <<site, ip, mConvCounter, sconns, net>>

ServerFlush ==
    /\ sconns' = Flushed(sconns)
    /\ UNCHANGED <<site, ip, mConvCounter, cconns, mConvMap, net>>

\* ServerGroup::Flush finds the SubGroup without a live network connection and
\* closes it.
CloseSubGroup ==
    /\ sconns' = [k \in Ips \X Convs |-> NoConn]
    /\ UNCHANGED <<site, ip, mConvCounter, cconns, mConvMap, net>>

\* The client moves to another network.
ChangeIp ==
    /\ ip' \in site.ips \ {ip}
    /\ UNCHANGED <<site, mConvCounter, cconns, mConvMap, sconns, net>>

Lose(p) ==
    /\ net' = net \ {p}
    /\ UNCHANGED <<site, ip, mConvCounter, cconns, mConvMap, sconns>>

ConvNext ==
    \/ \E a \in site.apps : onLocalRecvNew(a) \/ onLocalRecvNewFailed(a) \/ onLocalRecv(a)
    \/ \E p \in net : ClientOnRecv(p) \/ SendConvRst(p) \/ ServerOnRecv(p)
                      \/ OnRecvConvRst(p) \/ Lose(p)
    \/ \E k \in Ips \X Convs : udpRecvCb(k)
    \/ ClientFlush \/ ServerFlush \/ CloseSubGroup \/ ChangeIp

ConvSpec == ConvInit /\ [][ConvNext]_convVars

\* The application timers of both ends keep firing.
ConvFairSpec == ConvSpec /\ WF_convVars(ClientFlush) /\ WF_convVars(ServerFlush)

-----------------------------------------------------------------------------
(***************************************************************************)
(* The two indexes of ClientGroup describe the same conversations: a       *)
(* number leads to the application whose CConn has it, and a closed CConn  *)
(* is reachable through neither.                                           *)
(***************************************************************************)
MapsAgree ==
    \A c \in Convs, a \in Apps :
        mConvMap[c] = a <=> (cconns[a] # NoConn /\ cconns[a].conv = c)

(***************************************************************************)
(* What the target answers to one application is never given to another,   *)
(* whatever was closed, reset or reopened on either side while the answer  *)
(* was under way; nor does one socket to the target serve two of them.     *)
(***************************************************************************)
NoCrossTalk ==
    /\ \A p \in net : p.cmd = "DOWN" => mConvMap[p.conv] \in {NoConn, p.app}
    /\ \A p \in net : p.cmd = "UP" =>
         sconns[<<p.ip, p.conv>>] = NoConn \/ sconns[<<p.ip, p.conv>>].app = p.app

(***************************************************************************)
(* An SConn whose conversation the client has closed, or opened again from *)
(* another address, does not keep its socket for ever even if the target   *)
(* never stops sending: a reset or two flushes close it.                   *)
(***************************************************************************)
Orphan(k) == sconns[k] # NoConn /\ (mConvMap[k[2]] = NoConn \/ k[1] # ip)

OrphanClosed ==
    \A k \in Ips \X Convs : []<>(~Orphan(k))

(***************************************************************************)
(* An application that sends and is never answered does not keep its       *)
(* conversation: the application timer closes the CConn, and the next      *)
(* datagram starts a new one.                                              *)
(***************************************************************************)
UnansweredClosed ==
    \A a \in Apps :
        <>[](cconns[a] = NoConn \/ ~cconns[a].stat.in) => []<>(cconns[a] = NoConn)
=============================================================================
