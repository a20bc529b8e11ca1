-------------------------------- MODULE App --------------------------------
(***************************************************************************)
(* The process as a whole: the configuration that RConfig::Parse accepts   *)
(* or refuses, and the parts that ISockApp builds from it and takes down.  *)
(*                                                                         *)
(* The steps of Lifecycle are taken as they are, except the two that       *)
(* depend on the configuration: Parse, whose result decides how the life   *)
(* goes on, and the creation of the bottom connection, where a process     *)
(* that uses UDP binds a socket per port and makes its key.                *)
(***************************************************************************)
EXTENDS Config

CONSTANT Groups

VARIABLES pc, objs, svc, reg, loop, left

L == INSTANCE Lifecycle

lifeVars == <<isServer, pc, objs, svc, reg, loop, left>>
appVars == <<isServer, gw, source, opt, param, outcome, pc, objs, svc, reg, loop, left>>

AppInit == ConfInit /\ L!Init

(* ISockApp::Parse: without root it fails before the options are read; a   *)
(* failed assert ends the process where it stands.                         *)
NotRoot ==
  /\ L!ParseFailed
  /\ outcome = "none" /\ outcome' = "error"
  /\ opt' = NoOptions /\ source' = "flags" /\ gw' = NoRoute
  /\ UNCHANGED param

ParseOk == Parse /\ outcome' = "ok" /\ L!Parse
ParseRefused == Parse /\ outcome' = "error" /\ L!ParseFailed
ParseAborts == Parse /\ outcome' = "abort" /\ UNCHANGED lifeVars

(* CreateBtmConn of a process that uses UDP: bindUdpConns asserts that     *)
(* there are ports, binds a socket for each, and for every one that could  *)
(* be bound KeyForUdp asserts that neither port of its key is 0.  A        *)
(* server's sockets have no peer, a client's have the capture port as dp.  *)
UsesUdp == "udp" \in param.type
BindsForNoPeer == isServer \/ 0 \in GetRawList(param.capPorts)
NothingToBind == GetRawList(param.capPorts) = {}

BtmConnAborts ==
  /\ pc = "btmConn" /\ outcome = "ok"
  /\ UsesUdp /\ (BindsForNoPeer \/ NothingToBind)
  /\ outcome' = "abort"
  /\ UNCHANGED <<lifeVars, gw, source, opt, param>>

BtmConn ==
  /\ outcome = "ok"
  /\ UsesUdp => ~NothingToBind
  /\ L!initBtmConn
  /\ UNCHANGED confVars

OtherInit ==
  /\ outcome # "abort"
  /\ \/ L!makeDaemon \/ L!initLog \/ L!initServices \/ L!initObservers \/ L!initAckPool
     \/ L!initNetManager \/ L!initCap \/ L!CreateBridgeConn \/ L!ServerGroupInit
     \/ L!ClientGroupInit \/ L!watchExitSignals
  /\ UNCHANGED confVars

Running ==
  /\ outcome # "abort"
  /\ L!Start \/ L!onExitSignal \/ \E g \in Groups : L!newConn(g) \/ L!Flush(g)
  /\ UNCHANGED confVars

Closing ==
  /\ outcome # "abort"
  /\ \/ L!destroyObservers \/ L!closeCap \/ L!closeBridge \/ L!closeBtmConn
     \/ L!closeNetManager \/ L!closeAckPool \/ L!destroySingletons \/ L!closeLoop
  /\ UNCHANGED confVars

Gone == (pc = "exited" \/ outcome = "abort") /\ UNCHANGED appVars

AppNext ==
  \/ NotRoot \/ ParseOk \/ ParseRefused \/ ParseAborts
  \/ BtmConn \/ BtmConnAborts \/ OtherInit \/ Running \/ Closing \/ Gone

AppSpec == AppInit /\ [][AppNext]_appVars

-----------------------------------------------------------------------------
(* From the first step of doInit to the exit signal the parameters are     *)
(* complete, whether they came from flags or from a file.  No single check *)
(* establishes it: the client's port is asserted, the server's is refused  *)
(* by parseAddr, and a file without taddr is only stopped by the assert on *)
(* the address.                                                            *)
RunsComplete ==
  pc \in L!InitSteps \cup {"start", "running"} => outcome # "error" /\ Complete(param)

(* Lifecycle's properties, for every configuration.                        *)
ObserversLive == L!ObserversLive

(* Close leaves nothing behind, wherever Init failed: the assertion of     *)
(* IService::Close finds no observer, and everything doInit created has    *)
(* been deleted when the process exits.                                    *)
CloseComplete == L!NoObserverLeft /\ L!NothingLeaked

(* assert(info.sp != 0 && info.dp != 0) of KeyGenerator::KeyForUdp: the    *)
(* initialisation of an accepted configuration trips over no assert.       *)
InitAssertsHold == outcome = "abort" => pc = "parse"
=============================================================================
