------------------------------- MODULE Route -------------------------------
(***************************************************************************)
(* How rsock follows the host from one network to another:                 *)
(* src/service/RouteService.cpp finds out, conn/RawTcp.cpp reopens libnet  *)
(* for sending and cap/RCap.cpp reopens pcap for receiving.                *)
(*                                                                         *)
(* Two threads.  The loop thread sends, checks the network, notifies the   *)
(* observers (RCap is registered before RawTcp) and closes the program.    *)
(* The pcap thread runs pcap_loop and hands every packet to the loop       *)
(* through a blocking datagram socket pair.  To replace a capture the loop *)
(* thread joins the pcap thread.                                           *)
(*                                                                         *)
(* The host may have several networks up at once: the one towards the peer *)
(* and the one towards the name servers need not be the same.              *)
(***************************************************************************)
EXTENDS Integers

CONSTANTS
    Networks,       \* device and address pairs
    NoNet,          \* no route, an empty device; a null libnet_t or pcap_t
    Link,           \* the link type of a network's device, DLT_EN10MB or DLT_NULL
    PairSize        \* datagrams the socket pair holds

Links == {"EN10MB", "NULL"}

ASSUME RouteAssumption ==
    /\ NoNet \notin Networks
    /\ Link \in [Networks -> Links]
    /\ PairSize \in Nat \ {0}

VARIABLES
    net,            \* the network with the route to the peer
    dns,            \* the network with the route to the public name server
    conf,           \* ConfManager's dev and ip
    mTcpNet,        \* network mTcpNet was opened on
    mDatalink,      \* the link type RawTcp takes the frames for
    mCap,           \* network mCap was opened on
    mCapThread,     \* the pcap thread
    broken,         \* pcap_breakloop was called on mCap
    pair,           \* datagrams in the socket pair
    mSyncConn,      \* the socket pair is open
    msgCheck,       \* MSG_CHECK is in the handler
    mCheckIntervalSec,
    loop,           \* what the loop thread is doing
    isServer,       \* ssock or csock
    openMayFail     \* libnet_init, pcap_open_live or the pcap set-up may fail, in this run

vars == <<net, dns, conf, mTcpNet, mDatalink, mCap, mCapThread, broken, pair, mSyncConn,
          msgCheck, mCheckIntervalSec, loop>>

routeVars == <<net, dns>>
rawVars == <<mTcpNet, mDatalink>>
capVars == <<mCap, mCapThread, broken>>
pairVars == <<pair, mSyncConn>>
checkVars == <<msgCheck, mCheckIntervalSec>>

Nets == Networks \cup {NoNet}

LoopStates == {"idle", "join", "open", "raw", "closeJoin", "closeBridge", "closed", "crashed"}

TypeOK ==
    /\ net \in Nets /\ dns \in Nets /\ conf \in Nets /\ mTcpNet \in Nets /\ mCap \in Nets
    /\ mDatalink \in Links
    /\ mCapThread \in {"none", "loop", "send", "returned"}
    /\ broken \in BOOLEAN
    /\ pair \in 0 .. PairSize
    /\ mSyncConn \in BOOLEAN
    /\ msgCheck \in BOOLEAN
    /\ mCheckIntervalSec \in {1, 2, 4, 8, 16}
    /\ loop \in LoopStates
    /\ isServer \in BOOLEAN /\ openMayFail \in BOOLEAN

\* The program is up: ISockApp::doInit succeeded on the network of the peer,
\* which the route or the options of the user named.
Init ==
    /\ net \in Networks /\ dns \in Nets
    /\ conf = net /\ mTcpNet = net /\ mCap = net
    /\ mDatalink = Link[net]
    /\ mCapThread = "loop"
    /\ broken = FALSE
    /\ pair = 0
    /\ mSyncConn = TRUE
    /\ msgCheck = FALSE
    /\ mCheckIntervalSec = 1
    /\ loop = "idle"
    /\ isServer \in BOOLEAN /\ openMayFail \in BOOLEAN

\* The host changes a network, or loses it.
NetChange ==
    /\ loop # "crashed"
    /\ net' \in Nets /\ dns' \in Nets
    /\ <<net', dns'>> # routeVars
    /\ UNCHANGED <<conf, rawVars, capVars, pairVars, checkVars, loop>>

-----------------------------------------------------------------------------
\* RouteManager and RouteService

GetWanInfo_DnsFirst == IF ~isServer /\ dns = NoNet THEN net ELSE dns

\* RouteManager tries its targets in order.  CSockApp::Init has put the server in
\* front; what the constructor leaves there is one name server, three times.
GetWanInfo == IF ~isServer /\ net # NoNet THEN net ELSE dns

doubleIntervalSec(s) == IF 2 * s > 16 THEN 1 ELSE 2 * s

CheckNetworkStatusDelayed ==
    IF msgCheck THEN UNCHANGED checkVars
    ELSE /\ msgCheck' = TRUE
         /\ mCheckIntervalSec' = doubleIntervalSec(mCheckIntervalSec)

\* RawTcp::Output when it sends nothing: without a libnet handle always, with one
\* when the write fails, as it may on any network and need not on one that lost
\* its route.  A write that succeeds changes nothing.
Output ==
    /\ loop = "idle"
    /\ CheckNetworkStatusDelayed
    /\ UNCHANGED <<routeVars, conf, rawVars, capVars, pairVars, loop>>

Reads == mCap # NoNet /\ Link[mCap] = mDatalink

Receiving == mCap = net /\ mCapThread \in {"loop", "send"} /\ Reads

\* CNetGroup::Send of a client once no connection is alive: nothing was received
\* and the keep-alive gave them all up.
SendNoConn ==
    /\ loop = "idle" /\ ~isServer
    /\ ~Receiving
    /\ CheckNetworkStatusDelayed
    /\ UNCHANGED <<routeVars, conf, rawVars, capVars, pairVars, loop>>

\* CheckNetworkStatusNow found no route: RawTcp::OnNetDisconnected.  RCap goes
\* on receiving.
NotifyOffline ==
    /\ loop = "idle" /\ msgCheck
    /\ GetWanInfo = NoNet
    /\ msgCheck' = FALSE
    /\ conf' = NoNet
    /\ mTcpNet' = NoNet
    /\ UNCHANGED <<routeVars, mDatalink, capVars, pairVars, mCheckIntervalSec, loop>>

SameNetwork ==
    /\ loop = "idle" /\ msgCheck
    /\ GetWanInfo # NoNet /\ GetWanInfo = conf
    /\ msgCheck' = FALSE
    /\ UNCHANGED <<routeVars, conf, rawVars, capVars, pairVars, mCheckIntervalSec, loop>>

NotifyOnline_NoBreak ==
    /\ loop = "idle" /\ msgCheck
    /\ GetWanInfo # NoNet /\ GetWanInfo # conf
    /\ msgCheck' = FALSE
    /\ conf' = GetWanInfo
    /\ loop' = IF mCap # NoNet THEN "join" ELSE "open"
    /\ UNCHANGED <<routeVars, rawVars, mCap, mCapThread, broken, pairVars, mCheckIntervalSec>>

\* A new network: RCap::OnNetConnected up to joinPcapThread.
NotifyOnline ==
    /\ loop = "idle" /\ msgCheck
    /\ GetWanInfo # NoNet /\ GetWanInfo # conf
    /\ msgCheck' = FALSE
    /\ conf' = GetWanInfo
    /\ IF mCap # NoNet THEN broken' = TRUE /\ loop' = "join"
       ELSE loop' = "open" /\ UNCHANGED broken
    /\ UNCHANGED <<routeVars, rawVars, mCap, mCapThread, pairVars, mCheckIntervalSec>>

-----------------------------------------------------------------------------
\* RCap and RawTcp::OnNetConnected

Joined == mCapThread \in {"none", "returned"}

joinPcapThread_NoWait ==
    /\ loop = "join"
    /\ mCap' = NoNet
    /\ loop' = "open"
    /\ UNCHANGED <<routeVars, conf, rawVars, mCapThread, broken, pairVars, checkVars>>

\* ... and the pcap_close after it.
joinPcapThread ==
    /\ loop = "join"
    /\ Joined
    /\ mCapThread' = "none"
    /\ mCap' = NoNet
    /\ loop' = "open"
    /\ UNCHANGED <<routeVars, conf, rawVars, broken, pairVars, checkVars>>

\* doInit and Start.
doInit ==
    /\ loop = "open"
    /\ mCap' = conf
    /\ broken' = FALSE
    /\ mCapThread' = "loop"
    /\ loop' = "raw"
    /\ UNCHANGED <<routeVars, conf, rawVars, pairVars, checkVars>>

\* The filter, the data link or the direction fails: open, but not started.
doInitSetupFailed ==
    /\ openMayFail
    /\ loop = "open"
    /\ mCap' = conf
    /\ broken' = FALSE
    /\ loop' = "raw"
    /\ UNCHANGED <<routeVars, conf, rawVars, mCapThread, pairVars, checkVars>>

\* pcap_open_live fails: doInit logs pcap_geterr of the null mCap.
doInitOpenFailed ==
    /\ openMayFail
    /\ loop = "open"
    /\ loop' = "crashed"
    /\ UNCHANGED <<routeVars, conf, rawVars, capVars, pairVars, checkVars>>

\* RawTcp keeps its old handle when libnet_init fails.
OnNetConnected ==
    /\ loop = "raw"
    /\ \/ mTcpNet' = conf /\ mDatalink' = Link[conf]
       \/ openMayFail /\ UNCHANGED rawVars
    /\ loop' = "idle"
    /\ UNCHANGED <<routeVars, conf, capVars, pairVars, checkVars>>

-----------------------------------------------------------------------------
\* The pcap thread

\* A data packet has been captured; cap2uv calls sendto.  A frame that is read
\* with the header of the other link type is dropped.
CapInputCb ==
    /\ loop # "crashed"
    /\ mCapThread = "loop"
    /\ ~broken /\ mCap = net /\ Reads
    /\ mCapThread' = "send"
    /\ UNCHANGED <<routeVars, conf, rawVars, mCap, broken, pairVars, checkVars, loop>>

\* sendto returns.  It blocks while the socket pair is full.
cap2uv ==
    /\ loop # "crashed"
    /\ mCapThread = "send"
    /\ pair < PairSize
    /\ pair' = pair + 1
    /\ mCapThread' = "loop"
    /\ UNCHANGED <<routeVars, conf, rawVars, mCap, broken, mSyncConn, checkVars, loop>>

\* pcap_loop sees the flag of pcap_breakloop.
Run ==
    /\ loop # "crashed"
    /\ mCapThread = "loop"
    /\ broken
    /\ mCapThread' = "returned"
    /\ UNCHANGED <<routeVars, conf, rawVars, mCap, broken, pairVars, checkVars, loop>>

\* pcap_loop touches a pcap_t that was closed.
RunClosed ==
    /\ loop # "crashed"
    /\ mCapThread = "loop"
    /\ mCap = NoNet
    /\ loop' = "crashed"
    /\ UNCHANGED <<routeVars, conf, rawVars, capVars, pairVars, checkVars>>

\* UnixDgramSyncConn::pollCb on the loop thread.
pollCb ==
    /\ loop = "idle"
    /\ pair > 0
    /\ pair' = pair - 1
    /\ UNCHANGED <<routeVars, conf, rawVars, capVars, mSyncConn, checkVars, loop>>

-----------------------------------------------------------------------------
\* ISockApp::Close: RCap::Close ...
WaitAndClose ==
    /\ loop = "idle"
    /\ broken' = (broken \/ mCap # NoNet)
    /\ mCap' = NoNet
    /\ loop' = "closeJoin"
    /\ UNCHANGED <<routeVars, conf, rawVars, mCapThread, pairVars, checkVars>>

CloseJoin_NoWait ==
    /\ loop = "closeJoin"
    /\ loop' = "closeBridge"
    /\ UNCHANGED <<routeVars, conf, rawVars, mCap, mCapThread, broken, pairVars, checkVars>>

\* ... joinPcapThread ...
CloseJoin ==
    /\ loop = "closeJoin"
    /\ Joined
    /\ mCapThread' = "none"
    /\ loop' = "closeBridge"
    /\ UNCHANGED <<routeVars, conf, rawVars, mCap, broken, pairVars, checkVars>>

\* ... then RawTcp::Close, and the handler with its messages.
CloseBridge ==
    /\ loop = "closeBridge"
    /\ mSyncConn' = FALSE
    /\ pair' = 0
    /\ mTcpNet' = NoNet
    /\ msgCheck' = FALSE
    /\ loop' = "closed"
    /\ UNCHANGED <<routeVars, mDatalink, conf, capVars, mCheckIntervalSec>>

Sends == Output \/ SendNoConn

handleMessage == NotifyOffline \/ SameNetwork \/ NotifyOnline

LoopStep == joinPcapThread \/ doInit \/ OnNetConnected \/ CloseJoin \/ CloseBridge

Step ==
    \/ NetChange
    \/ Sends \/ handleMessage
    \/ LoopStep \/ doInitSetupFailed \/ doInitOpenFailed
    \/ CapInputCb \/ cap2uv \/ Run \/ RunClosed
    \/ pollCb
    \/ WaitAndClose

Next == Step /\ UNCHANGED <<isServer, openMayFail>>

Spec == Init /\ [][Next]_<<vars, isServer, openMayFail>>

\* What a client's application makes it send, when that is bound to fail.
ClientSends == ~isServer /\ (SendNoConn \/ (mTcpNet = NoNet /\ Output))

(***************************************************************************)
(* The handler's timer fires, the loop thread is not stopped, a write to a *)
(* pair with room returns, and pcap_loop, which wakes for its read         *)
(* timeout, sees the flag of pcap_breakloop.  A client's application goes  *)
(* on sending.  A server is not taken to send at all: it only answers, and *)
(* its keep-alive pauses while it is offline.                              *)
(***************************************************************************)
FairSpec ==
    /\ Spec
    /\ WF_vars(ClientSends) /\ WF_vars(handleMessage) /\ WF_vars(LoopStep)
    /\ WF_vars(cap2uv) /\ WF_vars(Run) /\ WF_vars(pollCb)

-----------------------------------------------------------------------------
(***************************************************************************)
(* However often the network changes, is lost, or fails to open, the pcap  *)
(* thread never runs pcap_loop, nor the handler inside it, on a pcap_t     *)
(* that the loop thread has closed.  RCap::Close is excepted: it calls     *)
(* pcap_close before it joins the thread, and RunClosed may end in a       *)
(* crash.                                                                  *)
(***************************************************************************)
CapOpenWhileUsed ==
    loop \in {"idle", "join", "open", "raw"} /\ mCapThread \in {"loop", "send"} => mCap # NoNet

(***************************************************************************)
(* cap2uv never writes to the socket pair after RawTcp::Close deleted it,  *)
(* though the pcap thread outlives RCap::Close.                            *)
(***************************************************************************)
SyncConnOpen == mCapThread = "send" => mSyncConn

(***************************************************************************)
(* The assertion of RCap::Start: a new pcap thread is started only when    *)
(* the last one was joined, whatever failed in the change before.          *)
(***************************************************************************)
NoSecondThread == loop = "open" => mCapThread = "none"

(***************************************************************************)
(* The loop thread waits for ever in joinPcapThread only if the pcap       *)
(* thread is in sendto on a full socket pair, which only the waiting loop  *)
(* thread could drain.                                                     *)
(***************************************************************************)
PairBlocked == mCapThread = "send" /\ pair = PairSize

JoinReturns ==
    loop \in {"join", "closeJoin"} ~> (loop \notin {"join", "closeJoin"} \/ PairBlocked)

(***************************************************************************)
(* Once the peer stays in reach on one network and every open succeeds, a  *)
(* client ends up sending and receiving on it and reads the frames as its  *)
(* device writes them, however many changes and losses went before and     *)
(* wherever they hit the checks and notifications, and even when the route *)
(* to the name servers is another one, or never stays.  A server asks only *)
(* for the name servers' route, and only after a failed write: it gets     *)
(* there, or its writes no longer fail.  (One that captures on the old     *)
(* device and has nothing to send never notices.)  The exceptions are a    *)
(* join that is blocked for ever and an exit.                              *)
(***************************************************************************)
On(n) == conf = n /\ mTcpNet = n /\ mCap = n /\ mCapThread \in {"loop", "send"} /\ Reads

Stays(n) == net = n /\ (isServer => dns = n)

Excused == (loop = "join" /\ PairBlocked) \/ loop \notin {"idle", "join", "open", "raw"}

FollowsNetwork ==
    \A n \in Networks :
        ~openMayFail /\ <>[]Stays(n) =>
            \/ <>[](On(n) \/ Excused)
            \/ isServer /\ <>[][~Output]_vars
=============================================================================
