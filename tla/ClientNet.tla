----------------------------- MODULE ClientNet -----------------------------
(***************************************************************************)
(* The client's network connections, from the first dial to the redial of  *)
(* a dead one: CNetGroup/INetGroup (conn/INetGroup.cpp), FakeTcp's view of *)
(* the socket (conn/FakeTcp.cpp), CConnErrHandler and ClientNetManager     *)
(* (client/).  All of it runs on the libuv loop thread, one callback at a  *)
(* time; an action is one callback.                                        *)
(*                                                                         *)
(* A connection is identified by its key <<dp, sp>>: the destination port  *)
(* it was dialled for and the source port the kernel gave it.              *)
(***************************************************************************)
EXTENDS NetGroup, Integers

CONSTANTS
    Ports,          \* configured server ports (RPortList), taken as distinct
    SrcPorts,       \* source ports the kernel may pick for a new socket
    UdpConns,       \* the FakeUdp members of the group: always alive
    Dials,          \* identities of the nodes of the list mPending
    NoDial,         \* an unused node
    MAX_RETRY,      \* INT_MAX in the code
    MaxDuration     \* 60 in the code: longest wait between dials, seconds

Keys == Ports \X SrcPorts
Dp(k) == k[1]

ASSUME ConstantsAssumption ==
    /\ MAX_RETRY \in Nat \ {0}
    /\ MaxDuration \in Nat \ {0}
    /\ UdpConns \cap Keys = {}
    /\ NoConn \notin Keys \cup UdpConns

(***************************************************************************)
(* A pending dial: the port, the tries left, the current back-off, the     *)
(* seconds left until nextRetryMs, and whether a uv_connect_t is running.  *)
(***************************************************************************)
DialHelper == [dp : Ports, nRetry : 0 .. MAX_RETRY, duration : 1 .. MaxDuration,
               left : 0 .. MaxDuration, req : BOOLEAN]

ASSUME NoDialAssumption == NoDial \notin DialHelper

VARIABLES
    mConns,         \* keys of the TCP connections in the group
    mAlive,         \* those whose INetConn::mAlive is true
    mErrMsgs,       \* connections with a queued MSG_CONN_ERR
    sockets,        \* TCP connections whose uv_tcp_t is open
    mPending,       \* the list of DialHelpers
    mNetworkAlive,  \* what the RouteService last reported
    mClosing        \* ISockApp::Close has run

vars == <<mConns, mAlive, mErrMsgs, sockets, mPending, mNetworkAlive, mClosing>>

groupVars == <<mConns, mAlive, mErrMsgs>>

TypeOK ==
    /\ mConns \subseteq Keys
    /\ mAlive \subseteq Keys
    /\ mErrMsgs \subseteq Keys
    /\ sockets \subseteq Keys
    /\ mPending \in [Dials -> DialHelper \cup {NoDial}]
    /\ \A d \in Dials : mPending[d] # NoDial /\ mPending[d].req => mPending[d].nRetry > 0
    /\ mNetworkAlive \in BOOLEAN
    /\ mClosing \in BOOLEAN

-----------------------------------------------------------------------------
(***************************************************************************)
(* Start-up: one synchronous dial per port.  A dial that fails (no socket, *)
(* no captured SYN, FakeTcp::Init refused) is only logged; start-up fails  *)
(* when the group stays empty.                                             *)
(***************************************************************************)
Init ==
    /\ mConns \in SUBSET Keys
    /\ \A k1, k2 \in mConns : Dp(k1) = Dp(k2) => k1 = k2
    /\ mConns \cup UdpConns # {}
    /\ mAlive = mConns
    /\ mErrMsgs = {}
    /\ sockets = mConns
    /\ mPending = [d \in Dials |-> NoDial]
    /\ mNetworkAlive = TRUE
    /\ mClosing = FALSE

-----------------------------------------------------------------------------
(***************************************************************************)
(* childConnErrCb: out of the group at once, closed later by the handler.  *)
(***************************************************************************)
childConnErrCb(dead) ==
    /\ mConns' = mConns \ dead
    /\ mAlive' = mAlive \ dead
    /\ mErrMsgs' = mErrMsgs \cup dead

\* One packet through INetGroup::doSend.
doSend(keyOfConnToReset) ==
    \E r \in DoSendResults(mConns \cup UdpConns, mAlive \cup UdpConns,
                           keyOfConnToReset) :
        childConnErrCb(r.removed)

\* Data, a keepalive command or a conversation reset of this endpoint.
Send ==
    /\ ~mClosing
    /\ doSend(NoConn)
    /\ UNCHANGED <<sockets, mPending, mNetworkAlive, mClosing>>

\* Data from the peer for a key that is not in the group: CNetGroup creates
\* no connection, so a reset for the key goes back through another one.
InputUnknown(k) ==
    /\ ~mClosing
    /\ k \notin mConns
    /\ doSend(k)
    /\ UNCHANGED <<sockets, mPending, mNetworkAlive, mClosing>>

\* The application timer: the dead members leave the group.
Flush ==
    /\ ~mClosing
    /\ childConnErrCb(DeadConns(mConns, mAlive))
    /\ UNCHANGED <<sockets, mPending, mNetworkAlive, mClosing>>

-----------------------------------------------------------------------------
\* INetConn::NotifyErr only marks the connection.
NotifyErr(k) ==
    /\ mAlive' = mAlive \ {k}
    /\ UNCHANGED <<mConns, mErrMsgs, sockets, mPending, mNetworkAlive, mClosing>>

\* libuv reports end of file or an error on the socket, in the group or not.
ReadErr(k) ==
    /\ ~mClosing
    /\ k \in sockets
    /\ NotifyErr(k)

\* A reset command of the peer, or a captured FIN or RST, for a member.
OnRecvNetConnRst(k) ==
    /\ ~mClosing
    /\ k \in mConns
    /\ NotifyErr(k)

\* The keepalive of a member timed out.
onNetConnDead(k) ==
    /\ ~mClosing
    /\ k \in mConns
    /\ NotifyErr(k)

-----------------------------------------------------------------------------
NewHelper(p) ==
    [dp |-> p, nRetry |-> MAX_RETRY, duration |-> 1, left |-> 1, req |-> FALSE]

\* push_back on mPending.
DialTcpAsync(p) ==
    \E d \in Dials :
        /\ mPending[d] = NoDial
        /\ mPending' = [mPending EXCEPT ![d] = NewHelper(p)]

handleMessage_NoClose(k) ==
    /\ ~mClosing
    /\ k \in mErrMsgs
    /\ mErrMsgs' = mErrMsgs \ {k}
    /\ DialTcpAsync(Dp(k))
    /\ UNCHANGED <<mConns, mAlive, sockets, mNetworkAlive, mClosing>>

\* MSG_CONN_ERR: close and delete the connection, then CConnErrHandler
\* queues a dial of its port from a new source port.
handleMessage(k) ==
    /\ ~mClosing
    /\ k \in mErrMsgs
    /\ mErrMsgs' = mErrMsgs \ {k}
    /\ sockets' = sockets \ {k}
    /\ DialTcpAsync(Dp(k))
    /\ UNCHANGED <<mConns, mAlive, mNetworkAlive, mClosing>>

-----------------------------------------------------------------------------
\* DialHelper::dialFailed: one try less, twice the wait, 1 s after the cap.
dialFailed(h) ==
    LET next == IF 2 * h.duration > MaxDuration THEN 1 ELSE 2 * h.duration
    IN  [dp |-> h.dp, nRetry |-> h.nRetry - 1, duration |-> next, left |-> next,
         req |-> FALSE]

Due_Late(h) == h # NoDial /\ h.nRetry > 0 /\ ~h.req /\ h.left < 0

Due(h) == h # NoDial /\ h.nRetry > 0 /\ ~h.req /\ h.left = 0

\* The manager's 1 s timer while the network is up.  The tries are over: the
\* dial is dropped.  The wait is over: connect, which may fail at once; ok is
\* the set of dials for which it does not.
flushPending(ok) ==
    /\ ~mClosing
    /\ mNetworkAlive
    /\ mPending' =
         [d \in Dials |->
            LET h == mPending[d] IN
            IF h = NoDial \/ h.nRetry = 0 THEN NoDial
            ELSE IF ~Due(h) THEN h
            ELSE IF d \in ok THEN [h EXCEPT !.req = TRUE]
            ELSE dialFailed(h)]
    /\ UNCHANGED <<mConns, mAlive, mErrMsgs, sockets, mNetworkAlive, mClosing>>

\* The connect failed, or the SYN of the server was not captured in time.
onTcpConnectFailed(d) ==
    /\ ~mClosing
    /\ mPending[d] # NoDial
    /\ mPending[d].req
    /\ mPending' = [mPending EXCEPT ![d] = dialFailed(@)]
    /\ UNCHANGED <<mConns, mAlive, mErrMsgs, sockets, mNetworkAlive, mClosing>>

onTcpConnect_KeepHelper(d, k) ==
    /\ ~mClosing
    /\ mPending[d] # NoDial
    /\ mPending[d].req
    /\ Dp(k) = mPending[d].dp
    /\ k \notin sockets
    /\ mPending' = [mPending EXCEPT ![d] = dialFailed(@)]
    /\ mConns' = mConns \cup {k}
    /\ mAlive' = mAlive \cup {k}
    /\ sockets' = sockets \cup {k}
    /\ UNCHANGED <<mErrMsgs, mNetworkAlive, mClosing>>

onTcpConnect_NotAlive(d, k) ==
    /\ ~mClosing
    /\ mPending[d] # NoDial
    /\ mPending[d].req
    /\ Dp(k) = mPending[d].dp
    /\ k \notin sockets
    /\ mPending' = [mPending EXCEPT ![d] = NoDial]
    /\ mConns' = mConns \cup {k}
    /\ sockets' = sockets \cup {k}
    /\ UNCHANGED <<mAlive, mErrMsgs, mNetworkAlive, mClosing>>

\* Connected, FakeTcp created and initialised: into the group, dial done.
onTcpConnect(d, k) ==
    /\ ~mClosing
    /\ mPending[d] # NoDial
    /\ mPending[d].req
    /\ Dp(k) = mPending[d].dp
    /\ k \notin sockets
    /\ mPending' = [mPending EXCEPT ![d] = NoDial]
    /\ mConns' = mConns \cup {k}
    /\ mAlive' = mAlive \cup {k}
    /\ sockets' = sockets \cup {k}
    /\ UNCHANGED <<mErrMsgs, mNetworkAlive, mClosing>>

\* Connected but FakeTcp::Init fails in TcpDialAsyncCb: the connection is
\* closed and the dial is erased all the same.
TcpDialAsyncCbFailed(d) ==
    /\ ~mClosing
    /\ mPending[d] # NoDial
    /\ mPending[d].req
    /\ mPending' = [mPending EXCEPT ![d] = NoDial]
    /\ UNCHANGED <<mConns, mAlive, mErrMsgs, sockets, mNetworkAlive, mClosing>>

-----------------------------------------------------------------------------
\* A second passes.
Tick ==
    /\ ~mClosing
    /\ \E d \in Dials : mPending[d] # NoDial /\ mPending[d].left > 0
    /\ mPending' = [d \in Dials |->
                      IF mPending[d] # NoDial /\ mPending[d].left > 0
                      THEN [mPending[d] EXCEPT !.left = @ - 1]
                      ELSE mPending[d]]
    /\ UNCHANGED <<mConns, mAlive, mErrMsgs, sockets, mNetworkAlive, mClosing>>

\* RouteService::NotifyOnline.
OnNetConnected ==
    /\ ~mClosing
    /\ mNetworkAlive' = TRUE
    /\ UNCHANGED <<mConns, mAlive, mErrMsgs, sockets, mPending, mClosing>>

\* RouteService::NotifyOffline.
OnNetDisconnected ==
    /\ ~mClosing
    /\ mNetworkAlive' = FALSE
    /\ UNCHANGED <<mConns, mAlive, mErrMsgs, sockets, mPending, mClosing>>

\* ISockApp::Close: the group closes its members, the handler drops its
\* messages, the manager its dials; the walk over the loop's handles closes
\* the sockets of the connections whose message was dropped.
Close ==
    /\ ~mClosing
    /\ mClosing' = TRUE
    /\ mConns' = {}
    /\ mAlive' = {}
    /\ mErrMsgs' = {}
    /\ mPending' = [d \in Dials |-> NoDial]
    /\ sockets' = {}
    /\ UNCHANGED mNetworkAlive

Next ==
    \/ Send
    \/ \E k \in Keys : InputUnknown(k)
    \/ Flush
    \/ \E k \in Keys : ReadErr(k)
    \/ \E k \in Keys : OnRecvNetConnRst(k)
    \/ \E k \in Keys : onNetConnDead(k)
    \/ \E k \in Keys : handleMessage(k)
    \/ \E ok \in SUBSET Dials : flushPending(ok)
    \/ \E d \in Dials : onTcpConnectFailed(d)
    \/ \E d \in Dials, k \in Keys : onTcpConnect(d, k)
    \/ \E d \in Dials : TcpDialAsyncCbFailed(d)
    \/ Tick
    \/ OnNetConnected
    \/ OnNetDisconnected
    \/ Close

Spec == Init /\ [][Next]_vars

(***************************************************************************)
(* Fairness.  libuv's timers keep firing (Flush, flushPending, Tick) and   *)
(* the handler's one-shot timer is always armed while a message is queued  *)
(* (handleMessage).  The other three are assumptions on the environment,   *)
(* not on the program: the RouteService reports a lost network back, a due *)
(* dial does not fail to start for ever while the network is up again and  *)
(* again, and a dial that is started again and again connects.             *)
(***************************************************************************)
Fairness ==
    /\ WF_vars(Flush)
    /\ WF_vars(Tick)
    /\ \A k \in Keys : WF_vars(handleMessage(k))
    /\ WF_vars(OnNetConnected)
    /\ SF_vars(flushPending(Dials))
    /\ \A d \in Dials : SF_vars(\E k \in Keys : onTcpConnect(d, k))

FairSpec == Spec /\ Fairness

-----------------------------------------------------------------------------
Queued(d) == mPending[d] # NoDial

\* Each port has at most one of: a member of the group, a removed connection
\* whose close is queued, a pending dial.  A second one would be a duplicate
\* connection to a port, or a connection closed twice.
OneSlotPerPort ==
    /\ mConns \cap mErrMsgs = {}
    /\ \A k1, k2 \in mConns \cup mErrMsgs : Dp(k1) = Dp(k2) => k1 = k2
    /\ \A k \in mConns \cup mErrMsgs, d \in Dials :
         Queued(d) => mPending[d].dp # Dp(k)
    /\ \A d1, d2 \in Dials :
         Queued(d1) /\ Queued(d2) /\ mPending[d1].dp = mPending[d2].dp => d1 = d2

\* The open sockets are exactly those of the members and of the removed
\* connections waiting for their message: none leaks, and none that is
\* reachable (doSend, read_cb, handleMessage) has been closed and deleted.
SocketsOwned ==
    /\ sockets = mConns \cup mErrMsgs
    /\ mAlive \subseteq mConns

HasSlot(p) ==
    \/ \E k \in mConns \cup mErrMsgs : Dp(k) = p
    \/ \E d \in Dials : Queued(d) /\ mPending[d].dp = p

\* A port is forgotten only by a dial that gave up (no try left) or whose
\* connected socket could not be initialised, or when the client closes.
SlotKept ==
    [][\A p \in Ports :
         HasSlot(p) /\ ~HasSlot(p)' =>
            \/ mClosing'
            \/ \E d \in Dials :
                 /\ Queued(d) /\ mPending[d].dp = p
                 /\ mPending[d].req \/ mPending[d].nRetry = 0]_vars

\* The slot of a port as PortSlots sees it.
SlotOf(p) ==
    IF \E k \in mConns \cap mAlive : Dp(k) = p THEN "up"
    ELSE IF \E k \in mConns \cup mErrMsgs : Dp(k) = p THEN "down"
    ELSE IF \E d \in Dials : Queued(d) /\ mPending[d].dp = p THEN "dialing"
    ELSE "none"

PS == INSTANCE PortSlots WITH slot <- [p \in Ports |-> SlotOf(p)]

\* The group, the handler, the error handler and the dial list together keep
\* the promise of PortSlots.
SlotProtocol == PS!Spec

\* A port whose connection died is connected again, unless its dial is given
\* up or the client closes.
Reconnected ==
    \A p \in Ports : SlotOf(p) \in {"down", "dialing"} ~> SlotOf(p) \in {"up", "none"}

=============================================================================
