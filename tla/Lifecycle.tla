----------------------------- MODULE Lifecycle -----------------------------
(***************************************************************************)
(* The life of one process: csock_main or ssock_main calls Parse, Init,    *)
(* Start and Close of the ISockApp.                                        *)
(*                                                                         *)
(* doInit builds the parts one after the other and returns at the first    *)
(* failure; Close runs after a failed Init as well as after an exit signal *)
(* and takes the parts down in a fixed order.  Most parts register as      *)
(* observers with one of the three services, some with two; a service      *)
(* keeps the pointers it is given, and IService::Close asserts that none   *)
(* is left.  On the server one application group (SubGroup) per client     *)
(* comes and goes while the loop runs.                                     *)
(*                                                                         *)
(* Everything runs on the loop thread; the capture thread's part in Close  *)
(* is the subject of the module Route.                                     *)
(***************************************************************************)
CONSTANT Groups  \* application groups: the ClientGroup, or the SubGroups

VARIABLES isServer, \* ssock or csock: mServer
          pc,       \* the next step of main, doInit or Close
          objs,     \* the objects that exist
          svc,      \* the service manager: "none", "open", "destroyed"
          reg,      \* registrations: pairs of a service and an observer
          loop,     \* mLoop: "none", "open", "freed"
          left      \* observers a service found when it was closed

vars == <<isServer, pc, objs, svc, reg, loop, left>>

(* An object is named by the member that holds it and by its owner: the    *)
(* application, or an application group for its keepalive and that one's   *)
(* route observer.                                                         *)
App(p) == <<p, "app">>
KeepAlive(g) == <<"keepAlive", g>>
KeepAliveRoute(g) == <<"keepAliveRoute", g>>
Group(g) == <<"group", g>>
Parts == {App(p) : p \in {"netObserver", "appTimer", "ackPool", "netTimer", "netManager", "cap",
                          "rawTcp", "btmConn", "bridge", "clientNetObserver", "errHandler"}}
GroupObjs(g) == {Group(g), KeepAlive(g), KeepAliveRoute(g)}
Objects == Parts \cup UNION {GroupObjs(g) : g \in Groups}

(* Who registers with which service.                                       *)
KeepAliveRegs(g) == {<<"route", KeepAliveRoute(g)>>, <<"timer", KeepAlive(g)>>}
Registrations ==
  {<<"net", App("netObserver")>>, <<"net", App("bridge")>>, <<"net", App("clientNetObserver")>>,
   <<"timer", App("ackPool")>>, <<"timer", App("netTimer")>>, <<"timer", App("appTimer")>>,
   <<"route", App("netManager")>>, <<"route", App("cap")>>, <<"route", App("rawTcp")>>}
  \cup UNION {KeepAliveRegs(g) : g \in Groups}

(* Steps of doInit, in order, and those of Close.                          *)
InitSteps == {"daemon", "log", "services", "observers", "ackPool", "netManager", "cap",
              "btmConn", "bridge", "bridgeInit", "signals"}
CloseSteps == {"closeObservers", "closeCap", "closeBridge", "closeBtmConn", "closeNetManager",
               "closeAckPool", "closeSingletons", "closeLoop"}
Steps == {"parse", "start", "running", "exited"} \cup InitSteps \cup CloseSteps

Init ==
  /\ isServer \in BOOLEAN
  /\ pc = "parse"
  /\ objs = {} /\ svc = "none" /\ loop = "none"
  /\ reg = {} /\ left = {}

(* A call returned an error: doInit returns it, and main goes on to Close. *)
Failed == pc' = "closeObservers"

-----------------------------------------------------------------------------
(* Parse may fail (no root, bad arguments): nothing has been created.      *)
(* CSockApp::Init then makes the error handler.                            *)
ParseFailed ==
  /\ pc = "parse" /\ Failed
  /\ UNCHANGED <<isServer, objs, svc, reg, loop, left>>

Parse ==
  /\ pc = "parse" /\ pc' = "daemon"
  /\ objs' = IF isServer THEN objs ELSE objs \cup {App("errHandler")}
  /\ UNCHANGED <<isServer, svc, reg, loop, left>>

(* makeDaemon: the parent process returns -1; the child makes its loop.    *)
makeDaemon ==
  /\ pc = "daemon"
  /\ \/ Failed /\ UNCHANGED loop
     \/ pc' = "log" /\ loop' = "open"
  /\ UNCHANGED <<isServer, objs, svc, reg, left>>

initLog ==
  /\ pc = "log"
  /\ Failed \/ pc' = "services"
  /\ UNCHANGED <<isServer, objs, svc, reg, loop, left>>

initServices ==
  /\ pc = "services" /\ pc' = "observers"
  /\ svc' = "open"
  /\ UNCHANGED <<isServer, objs, reg, loop, left>>

initObservers ==
  /\ pc = "observers" /\ pc' = "ackPool"
  /\ objs' = objs \cup {App("netObserver")}
  /\ reg' = reg \cup {<<"net", App("netObserver")>>}
  /\ UNCHANGED <<isServer, svc, loop, left>>

initAckPool ==
  /\ pc = "ackPool" /\ pc' = "netManager"
  /\ objs' = objs \cup {App("ackPool")}
  /\ reg' = reg \cup {<<"timer", App("ackPool")>>}
  /\ UNCHANGED <<isServer, svc, loop, left>>

(* INetManager::Init registers its timer.  The client's manager then       *)
(* observes the route; the server's starts to listen, which may fail.      *)
initNetManager ==
  /\ pc = "netManager"
  /\ objs' = objs \cup {App("netManager"), App("netTimer")}
  /\ reg' = reg \cup {<<"timer", App("netTimer")>>}
                \cup (IF isServer THEN {} ELSE {<<"route", App("netManager")>>})
  /\ pc' = "cap" \/ (isServer /\ Failed)
  /\ UNCHANGED <<isServer, svc, loop, left>>

(* RCap::Init registers whether or not the device could be opened.         *)
initCap ==
  /\ pc = "cap"
  /\ objs' = objs \cup {App("cap")}
  /\ reg' = reg \cup {<<"route", App("cap")>>}
  /\ pc' = "btmConn" \/ Failed
  /\ UNCHANGED <<isServer, svc, loop, left>>

(* RConn and the RawTcp it owns; RawTcp::Init registers first and may then *)
(* fail to open libnet or the sync pair.                                   *)
initBtmConn ==
  /\ pc = "btmConn"
  /\ objs' = objs \cup {App("btmConn"), App("rawTcp")}
  /\ reg' = reg \cup {<<"route", App("rawTcp")>>}
  /\ pc' = "bridge" \/ Failed
  /\ UNCHANGED <<isServer, svc, loop, left>>

(* CreateBridgeConn: the client returns nullptr when no port was dialled.  *)
CreateBridgeConn ==
  /\ pc = "bridge"
  /\ \/ /\ pc' = "bridgeInit"
        /\ objs' = objs \cup {App("bridge")}
     \/ ~isServer /\ Failed /\ UNCHANGED objs
  /\ UNCHANGED <<isServer, svc, reg, loop, left>>

(* ServerGroup::Init registers the group itself.                           *)
ServerGroupInit ==
  /\ pc = "bridgeInit" /\ isServer
  /\ pc' = "signals"
  /\ reg' = reg \cup {<<"net", App("bridge")>>}
  /\ UNCHANGED <<isServer, objs, svc, loop, left>>

(* ClientGroup::Init: IAppGroup::Init makes the keepalive and its route    *)
(* observer; then listening on UDP or on the unix socket may fail; the net *)
(* observer comes last.                                                    *)
ClientGroupInit ==
  \E g \in Groups :
    /\ pc = "bridgeInit" /\ ~isServer
    /\ \/ /\ Failed
          /\ objs' = objs \cup GroupObjs(g)
          /\ reg' = reg \cup KeepAliveRegs(g)
       \/ /\ pc' = "signals"
          /\ objs' = objs \cup GroupObjs(g) \cup {App("clientNetObserver")}
          /\ reg' = reg \cup KeepAliveRegs(g) \cup {<<"net", App("clientNetObserver")>>}
    /\ UNCHANGED <<isServer, svc, loop, left>>

watchExitSignals ==
  /\ pc = "signals" /\ pc' = "start"
  /\ UNCHANGED <<isServer, objs, svc, reg, loop, left>>

(* Start makes the application timer and enters uv_run.                    *)
Start ==
  /\ pc = "start" /\ pc' = "running"
  /\ objs' = objs \cup {App("appTimer")}
  /\ reg' = reg \cup {<<"timer", App("appTimer")>>}
  /\ UNCHANGED <<isServer, svc, loop, left>>

-----------------------------------------------------------------------------
(* ServerGroup::newConn: a packet of a client that is not known yet.       *)
newConn(g) ==
  /\ pc = "running" /\ isServer /\ Group(g) \notin objs
  /\ objs' = objs \cup GroupObjs(g)
  /\ reg' = reg \cup KeepAliveRegs(g)
  /\ UNCHANGED <<isServer, pc, svc, loop, left>>

(* What NetConnKeepAlive::Close unregisters.                               *)
UnRegisterKeepAlive_TimerOnly(g) == {<<"timer", KeepAlive(g)>>}
UnRegisterKeepAlive(g) == {<<"route", KeepAliveRoute(g)>>, <<"timer", KeepAlive(g)>>}

(* ISockApp::Flush closes a SubGroup that is no longer alive.              *)
Flush(g) ==
  /\ pc = "running" /\ isServer /\ Group(g) \in objs
  /\ objs' = objs \ GroupObjs(g)
  /\ reg' = reg \ UnRegisterKeepAlive(g)
  /\ UNCHANGED <<isServer, pc, svc, loop, left>>

(* SIGINT or SIGHUP: Close is called from the signal's callback.           *)
onExitSignal ==
  /\ pc = "running" /\ pc' = "closeObservers"
  /\ UNCHANGED <<isServer, objs, svc, reg, loop, left>>

-----------------------------------------------------------------------------
(* Close, step by step.  Each step deletes a member if it is not null.     *)
destroyObservers ==
  /\ pc = "closeObservers" /\ pc' = "closeCap"
  /\ objs' = objs \ {App("netObserver"), App("appTimer")}
  /\ reg' = reg \ {<<"net", App("netObserver")>>, <<"timer", App("appTimer")>>}
  /\ UNCHANGED <<isServer, svc, loop, left>>

closeCap ==
  /\ pc = "closeCap" /\ pc' = "closeBridge"
  /\ objs' = objs \ {App("cap")}
  /\ reg' = reg \ {<<"route", App("cap")>>}
  /\ UNCHANGED <<isServer, svc, loop, left>>

(* The bridge closes the RConn below it, with its RawTcp, and every        *)
(* application group.                                                      *)
BtmObjs == {App("btmConn"), App("rawTcp")}
closeBridge ==
  /\ pc = "closeBridge" /\ pc' = "closeBtmConn"
  /\ \/ /\ App("bridge") \in objs
        /\ objs' = objs \ (BtmObjs \cup {App("bridge"), App("clientNetObserver")}
                             \cup UNION {GroupObjs(g) : g \in Groups})
        /\ reg' = reg \ ({<<"route", App("rawTcp")>>, <<"net", App("bridge")>>,
                           <<"net", App("clientNetObserver")>>}
                             \cup UNION {UnRegisterKeepAlive(g) : g \in Groups})
     \/ App("bridge") \notin objs /\ UNCHANGED <<objs, reg>>
  /\ UNCHANGED <<isServer, svc, loop, left>>

(* The RConn of an application whose bridge could not be created.          *)
closeBtmConn_InBridge ==
  /\ pc = "closeBtmConn" /\ pc' = "closeNetManager"
  /\ UNCHANGED <<isServer, objs, reg, svc, loop, left>>

closeBtmConn ==
  /\ pc = "closeBtmConn" /\ pc' = "closeNetManager"
  /\ objs' = objs \ BtmObjs
  /\ reg' = reg \ {<<"route", App("rawTcp")>>}
  /\ UNCHANGED <<isServer, svc, loop, left>>

closeNetManager ==
  /\ pc = "closeNetManager" /\ pc' = "closeAckPool"
  /\ objs' = objs \ {App("netManager"), App("netTimer")}
  /\ reg' = reg \ {<<"timer", App("netTimer")>>, <<"route", App("netManager")>>}
  /\ UNCHANGED <<isServer, svc, loop, left>>

closeAckPool ==
  /\ pc = "closeAckPool" /\ pc' = "closeSingletons"
  /\ objs' = objs \ {App("ackPool")}
  /\ reg' = reg \ {<<"timer", App("ackPool")>>}
  /\ UNCHANGED <<isServer, svc, loop, left>>

(* ServiceManager::Close closes and deletes the services, if there are     *)
(* any; IService::Close looks at the observers that are left.              *)
destroySingletons ==
  /\ pc = "closeSingletons" /\ pc' = "closeLoop"
  /\ svc' = IF svc = "open" THEN "destroyed" ELSE svc
  /\ left' = reg
  /\ reg' = {}
  /\ UNCHANGED <<isServer, objs, loop>>

(* The loop is closed and freed; CSockApp::Close deletes its handler.      *)
closeLoop ==
  /\ pc = "closeLoop" /\ pc' = "exited"
  /\ loop' = IF loop = "open" THEN "freed" ELSE loop
  /\ objs' = objs \ {App("errHandler")}
  /\ UNCHANGED <<isServer, svc, reg, left>>

(* Close is called again by main: mClosing is set, it returns at once.     *)
Exited ==
  /\ pc = "exited"
  /\ UNCHANGED vars

Next ==
  \/ Parse \/ ParseFailed \/ makeDaemon \/ initLog
  \/ initServices \/ initObservers \/ initAckPool \/ initNetManager \/ initCap
  \/ initBtmConn \/ CreateBridgeConn \/ ServerGroupInit \/ ClientGroupInit
  \/ watchExitSignals \/ Start
  \/ \E g \in Groups : newConn(g) \/ Flush(g)
  \/ onExitSignal
  \/ destroyObservers \/ closeCap \/ closeBridge \/ closeBtmConn \/ closeNetManager
  \/ closeAckPool \/ destroySingletons \/ closeLoop \/ Exited

Spec == Init /\ [][Next]_vars

-----------------------------------------------------------------------------
(* Every variable keeps its type; only the parts that have the callbacks   *)
(* of a service register with it.                                          *)
TypeOK ==
  /\ isServer \in BOOLEAN /\ pc \in Steps
  /\ objs \subseteq Objects
  /\ svc \in {"none", "open", "destroyed"}
  /\ loop \in {"none", "open", "freed"}
  /\ reg \subseteq Registrations /\ left \subseteq Registrations

(* A service never holds a pointer to an object that has been deleted,     *)
(* wherever Init failed and whichever groups have come and gone: its next  *)
(* notification would call into freed memory.                              *)
ObserversLive == \A r \in reg : r[2] \in objs

(* assert(mObserver.empty()) of IService::Close holds for every failure of *)
(* Init and for every history of the groups: whoever registers is closed   *)
(* before the services are.                                                *)
NoObserverLeft == left = {}

(* When the process exits everything doInit created has been deleted.      *)
NothingLeaked == pc = "exited" => objs = {} /\ svc # "open" /\ loop # "open"
=============================================================================
