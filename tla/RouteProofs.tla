---------------------------- MODULE RouteProofs ----------------------------
(***************************************************************************)
(* The safety properties of Route, for any set of networks and a socket    *)
(* pair of any size.  None of them is inductive: whether the pcap thread   *)
(* uses an open pcap_t depends on when the loop thread replaces it, which  *)
(* depends on what RouteService left in conf.                              *)
(***************************************************************************)
EXTENDS Route, TLAPS

Running == {"idle", "join", "open", "raw"}

\* Outside the window between pcap_close and pcap_open_live there is a capture,
\* the window is only entered on a network that exists, with no pcap thread,
\* and the socket pair is closed only after the thread was joined for good.
IInv ==
    /\ TypeOK
    /\ loop \in Running \ {"open"} => mCap # NoNet
    /\ loop \in Running \ {"idle"} => conf # NoNet
    /\ loop \in {"open", "closeBridge", "closed"} => mCapThread = "none"
    /\ loop # "closed" => mSyncConn

USE DEF Running

LEMMA InitInv == Init => IInv
  <1> SUFFICES ASSUME Init PROVE IInv
    BY Zenon
  <1>1. /\ net \in Networks /\ conf = net /\ mTcpNet = net /\ mCap = net
        /\ dns \in Nets /\ mDatalink = Link[net]
        /\ mCapThread = "loop" /\ broken = FALSE /\ pair = 0 /\ mSyncConn = TRUE
        /\ msgCheck = FALSE /\ mCheckIntervalSec = 1 /\ loop = "idle"
        /\ isServer \in BOOLEAN /\ openMayFail \in BOOLEAN
    BY Zenon DEF Init
  <1>2. net # NoNet /\ net \in Nets /\ 0 \in 0 .. PairSize /\ Link[net] \in Links
    BY RouteAssumption, <1>1 DEF Nets
  <1>3. TypeOK
    BY Zenon, <1>1, <1>2 DEF TypeOK, LoopStates
  <1> QED BY Zenon, <1>1, <1>2, <1>3 DEF IInv

\* Steps that leave the loop thread, the capture and the pair as they are.
LEMMA QuietInv ==
    ASSUME IInv, UNCHANGED <<loop, conf, mCap, mCapThread, mSyncConn>>, TypeOK'
    PROVE  IInv'
  BY Zenon DEF IInv

\* The route changes, or traffic finds it gone.
LEMMA CheckInv ==
    ASSUME IInv, NetChange \/ Sends, UNCHANGED <<isServer, openMayFail>>
    PROVE  IInv'
  <1>1. CASE NetChange
    <2>1. TypeOK'
      BY <1>1 DEF IInv, TypeOK, NetChange, rawVars, capVars, pairVars, checkVars
    <2> QED BY Zenon, <1>1, <2>1, QuietInv DEF NetChange, capVars, pairVars
  <1>2. CASE Sends
    <2>1. CheckNetworkStatusDelayed /\ UNCHANGED <<routeVars, conf, rawVars, capVars, pairVars, loop>>
      BY Zenon, <1>2 DEF Sends, Output, SendNoConn
    <2>2. msgCheck' \in BOOLEAN /\ mCheckIntervalSec' \in {1, 2, 4, 8, 16}
      <3>1. msgCheck \in BOOLEAN /\ mCheckIntervalSec \in {1, 2, 4, 8, 16}
        BY Zenon DEF IInv, TypeOK
      <3>2. CASE msgCheck
        BY Zenon, <2>1, <3>1, <3>2 DEF CheckNetworkStatusDelayed, checkVars
      <3>3. CASE ~msgCheck
        <4>1. msgCheck' = TRUE /\ mCheckIntervalSec' = doubleIntervalSec(mCheckIntervalSec)
          BY Zenon, <2>1, <3>3 DEF CheckNetworkStatusDelayed
        <4>2. doubleIntervalSec(mCheckIntervalSec) \in {1, 2, 4, 8, 16}
          BY <3>1 DEF doubleIntervalSec
        <4> QED BY Zenon, <4>1, <4>2
      <3> QED BY Zenon, <3>2, <3>3
    <2>3. TypeOK'
      BY Zenon, <2>1, <2>2 DEF IInv, TypeOK, routeVars, rawVars, capVars, pairVars
    <2> QED BY Zenon, <2>1, <2>3, QuietInv DEF capVars, pairVars
  <1> QED BY Zenon, <1>1, <1>2

\* MSG_CHECK: RouteService compares the network with ConfManager's.
LEMMA HandleMessageInv ==
    ASSUME IInv, handleMessage, UNCHANGED <<isServer, openMayFail>>
    PROVE  IInv'
  <1>1. CASE NotifyOffline
    <2>1. /\ loop = "idle" /\ loop' = loop /\ msgCheck' = FALSE /\ conf' = NoNet /\ mTcpNet' = NoNet
          /\ UNCHANGED <<routeVars, mDatalink, capVars, pairVars, mCheckIntervalSec>>
      BY Zenon, <1>1 DEF NotifyOffline
    <2>2. NoNet \in Nets
      BY Zenon DEF Nets
    <2>3. TypeOK'
      BY <2>1, <2>2, Zenon DEF IInv, TypeOK, routeVars, capVars, pairVars
    <2>4. UNCHANGED <<mCap, mCapThread, mSyncConn>>
      BY Zenon, <2>1 DEF capVars, pairVars
    <2> QED BY Zenon, <2>1, <2>3, <2>4 DEF IInv
  <1>2. CASE SameNetwork
    <2>1. TypeOK'
      BY Zenon, <1>2 DEF IInv, TypeOK, SameNetwork, routeVars, rawVars, capVars, pairVars
    <2> QED BY Zenon, <1>2, <2>1, QuietInv DEF SameNetwork, capVars, pairVars
  <1>3. CASE NotifyOnline
    <2>1. mCap # NoNet /\ loop' = "join" /\ broken' = TRUE
      BY Zenon, <1>3 DEF IInv, NotifyOnline
    <2>2. /\ GetWanInfo # NoNet /\ conf' = GetWanInfo /\ msgCheck' = FALSE
          /\ UNCHANGED <<routeVars, rawVars, mCap, mCapThread, pairVars, mCheckIntervalSec>>
          /\ loop = "idle"
      BY Zenon, <1>3 DEF NotifyOnline
    <2>3. TypeOK'
      BY Zenon, <2>1, <2>2 DEF IInv, TypeOK, pairVars, routeVars, rawVars, GetWanInfo, LoopStates
    <2> QED BY Zenon, <2>1, <2>2, <2>3 DEF IInv, pairVars
  <1> QED BY Zenon, <1>1, <1>2, <1>3 DEF handleMessage

\* RCap and RawTcp move to the new network, and the failures on the way.
LEMMA ReopenInv ==
    ASSUME IInv, joinPcapThread \/ doInit \/ doInitSetupFailed \/ doInitOpenFailed \/ OnNetConnected,
           UNCHANGED <<isServer, openMayFail>>
    PROVE  IInv'
  <1> USE DEF IInv, TypeOK, Nets, LoopStates, routeVars, rawVars, capVars, pairVars, checkVars
  <1>1. CASE joinPcapThread
    BY <1>1 DEF joinPcapThread
  <1>2. CASE doInit
    BY Zenon, <1>2 DEF doInit
  <1>3. CASE doInitSetupFailed
    BY Zenon, <1>3 DEF doInitSetupFailed
  <1>4. CASE doInitOpenFailed
    BY <1>4 DEF doInitOpenFailed
  <1>5. CASE OnNetConnected
    BY RouteAssumption, <1>5 DEF OnNetConnected
  <1> QED BY Zenon, <1>1, <1>2, <1>3, <1>4, <1>5

\* The pcap thread, and the loop thread draining the pair.
LEMMA ThreadInv ==
    ASSUME IInv, CapInputCb \/ cap2uv \/ Run \/ RunClosed \/ pollCb, UNCHANGED <<isServer, openMayFail>>
    PROVE  IInv'
  <1> USE DEF IInv, TypeOK, Nets, LoopStates, routeVars, rawVars, capVars, pairVars, checkVars
  <1>1. CASE CapInputCb
    BY <1>1 DEF CapInputCb
  <1>2. CASE cap2uv
    BY RouteAssumption, <1>2 DEF cap2uv
  <1>3. CASE Run
    BY <1>3 DEF Run
  <1>4. CASE RunClosed
    BY <1>4 DEF RunClosed
  <1>5. CASE pollCb
    BY RouteAssumption, <1>5 DEF pollCb
  <1> QED BY Zenon, <1>1, <1>2, <1>3, <1>4, <1>5

\* ISockApp::Close.
LEMMA CloseInv ==
    ASSUME IInv, WaitAndClose \/ CloseJoin \/ CloseBridge, UNCHANGED <<isServer, openMayFail>>
    PROVE  IInv'
  <1> USE DEF IInv, TypeOK, Nets, LoopStates, routeVars, rawVars, capVars, pairVars, checkVars
  <1>1. CASE WaitAndClose
    <2>1. (broken \/ mCap # NoNet) \in BOOLEAN
      BY Zenon
    <2>2. broken' \in BOOLEAN
      BY <2>1, <1>1, Zenon DEF WaitAndClose
    <2>3. TypeOK'
      BY <1>1, <2>2 DEF WaitAndClose
    <2> QED BY Zenon, <1>1, <2>3 DEF WaitAndClose
  <1>2. CASE CloseJoin
    BY <1>2 DEF CloseJoin
  <1>3. CASE CloseBridge
    <2>1. 0 \in 0 .. PairSize /\ FALSE \in BOOLEAN
      BY RouteAssumption
    <2>2. TypeOK'
      <3>1. /\ mSyncConn' = FALSE /\ pair' = 0 /\ mTcpNet' = NoNet /\ msgCheck' = FALSE
            /\ loop' = "closed"
            /\ UNCHANGED <<net, dns, mDatalink, conf, mCap, mCapThread, broken, mCheckIntervalSec>>
        BY Zenon, <1>3 DEF CloseBridge
      <3>2. NoNet \in Nets /\ "closed" \in LoopStates
        BY Zenon
      <3> HIDE DEF Nets, LoopStates
      <3> QED BY <2>1, <3>1, <3>2, Zenon
    <2>3. mCapThread' = "none" /\ loop' = "closed"
      BY Zenon, <1>3 DEF CloseBridge
    <2> QED BY Zenon, <2>2, <2>3
  <1> QED BY Zenon, <1>1, <1>2, <1>3

LEMMA Inductive == Spec => []IInv
  <1>1. IInv /\ [Next]_<<vars, isServer, openMayFail>> => IInv'
    <2> SUFFICES ASSUME IInv, [Next]_<<vars, isServer, openMayFail>> PROVE IInv'
      BY Zenon
    <2>1. CASE Next
      BY Zenon, <2>1, CheckInv, HandleMessageInv, ReopenInv, ThreadInv, CloseInv DEF Next, Step, LoopStep
    <2>2. CASE UNCHANGED <<vars, isServer, openMayFail>>
      BY <2>2 DEF IInv, TypeOK, vars
    <2> QED BY Zenon, <2>1, <2>2
  <1> QED BY <1>1, InitInv, PTL DEF Spec

\* For every set of networks and every size of the socket pair: the pcap thread
\* is never inside pcap_loop on a pcap_t that RCap::OnNetConnected has closed.
THEOREM CaptureOpen == Spec => []CapOpenWhileUsed
  <1>1. IInv => CapOpenWhileUsed
    BY Zenon DEF IInv, CapOpenWhileUsed
  <1> QED BY <1>1, Inductive, PTL

\* ... RCap::Start never starts a second pcap thread ...
THEOREM OneThread == Spec => []NoSecondThread
  <1>1. IInv => NoSecondThread
    BY Zenon DEF IInv, NoSecondThread
  <1> QED BY <1>1, Inductive, PTL

\* ... and cap2uv never writes to the socket pair that RawTcp::Close deleted.
THEOREM PairOpen == Spec => []SyncConnOpen
  <1>1. IInv => SyncConnOpen
    BY Zenon DEF IInv, SyncConnOpen
  <1> QED BY <1>1, Inductive, PTL
=============================================================================
