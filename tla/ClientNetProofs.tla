-------------------------- MODULE ClientNetProofs --------------------------
(***************************************************************************)
(* Proofs about ClientNet for every set of ports, source ports, UDP        *)
(* connections and dials, and every retry limit and back-off.              *)
(*                                                                         *)
(* TypeOK, OneSlotPerPort and SocketsOwned are inductive together.         *)
(* OneSlotPerPort needs SocketsOwned (a new connection's key is not open,  *)
(* hence not a member), and SocketsOwned needs OneSlotPerPort (closing a   *)
(* removed connection does not close a member).  From them follow that     *)
(* every port keeps its slot (SlotKept) and that ClientNet implements      *)
(* PortSlots (SlotProtocol).                                               *)
(*                                                                         *)
(* The second part is about one of these connections from end to end       *)
(* (FakeTcp): its numbers, the packets it carries and those it loses, for  *)
(* any sizes, initial sequence numbers and number of packets.              *)
(***************************************************************************)
EXTENDS ClientNet, FakeTcp, TLAPS

IInv == TypeOK /\ OneSlotPerPort /\ SocketsOwned

-----------------------------------------------------------------------------
\* doSend only ever removes dead TCP members, whichever random choices it
\* makes: the UDP members are always alive.
LEMMA DoSendRemovesDead ==
    ASSUME NEW key, NEW r \in DoSendResults(mConns \cup UdpConns, mAlive \cup UdpConns, key)
    PROVE  r.removed \subseteq mConns \ mAlive
  BY DEF DoSendResults, LiveConns, DeadConns

\* Removing dead members keeps the invariant.
LEMMA ChildConnErrInv ==
    ASSUME IInv, NEW dead, dead \subseteq mConns, childConnErrCb(dead),
           UNCHANGED <<sockets, mPending, mNetworkAlive, mClosing>>
    PROVE  IInv'
  <1>1. TypeOK'
    BY Zenon DEF IInv, TypeOK, childConnErrCb
  <1>2. OneSlotPerPort'
    BY DEF IInv, OneSlotPerPort, childConnErrCb, Queued
  <1>3. SocketsOwned'
    BY Zenon DEF IInv, SocketsOwned, OneSlotPerPort, childConnErrCb
  <1> QED BY Zenon, <1>1, <1>2, <1>3 DEF IInv

\* Marking a connection dead keeps the invariant.
LEMMA NotifyErrInv ==
    ASSUME IInv, NEW k, NotifyErr(k)
    PROVE  IInv'
  BY Zenon DEF IInv, TypeOK, OneSlotPerPort, SocketsOwned, NotifyErr, Queued

\* A dial as TypeOK has it: well formed, and running only with tries left.
GoodDial(h) == h \in DialHelper /\ (h.req => h.nRetry > 0)

\* TypeOK in terms of GoodDial.
LEMMA TypeOKDials ==
    TypeOK => \A d \in Dials : mPending[d] # NoDial => GoodDial(mPending[d])
  BY Zenon DEF TypeOK, GoodDial

\* A step that leaves the connections alone and changes the dials keeps the
\* invariant when every dial it leaves was there before, for the same port.
LEMMA PendingInv ==
    ASSUME IInv,
           NEW pending, mPending' = [d \in Dials |-> pending[d]],
           \A d \in Dials : pending[d] # NoDial =>
               /\ GoodDial(pending[d])
               /\ Queued(d)
               /\ pending[d].dp = mPending[d].dp,
           UNCHANGED <<mConns, mAlive, mErrMsgs, sockets>>,
           mNetworkAlive' \in BOOLEAN, mClosing' \in BOOLEAN
    PROVE  IInv'
  <1>1. TypeOK'
    BY Zenon DEF IInv, TypeOK, GoodDial
  <1>2. OneSlotPerPort'
    BY DEF IInv, OneSlotPerPort, Queued
  <1>3. SocketsOwned'
    BY Zenon DEF IInv, SocketsOwned
  <1> QED BY Zenon, <1>1, <1>2, <1>3 DEF IInv

\* A failed dial stays a dial of its port, within its bounds.
LEMMA DialFailedType ==
    ASSUME NEW h \in DialHelper, h.nRetry # 0
    PROVE  GoodDial(dialFailed(h)) /\ dialFailed(h).dp = h.dp
  <1> DEFINE next == IF 2 * h.duration > MaxDuration THEN 1 ELSE 2 * h.duration
  <1>1. next \in 1 .. MaxDuration
    BY ConstantsAssumption DEF DialHelper
  <1>2. h.nRetry - 1 \in 0 .. MAX_RETRY
    BY ConstantsAssumption DEF DialHelper
  <1> QED BY <1>1, <1>2 DEF dialFailed, DialHelper, GoodDial

\* So does one whose connect has started.
LEMMA StartedType ==
    ASSUME NEW h \in DialHelper, h.nRetry # 0
    PROVE  GoodDial([h EXCEPT !.req = TRUE]) /\ [h EXCEPT !.req = TRUE].dp = h.dp
  <1> DEFINE g == [h EXCEPT !.req = TRUE]
  <1>1. g \in DialHelper
    BY Zenon DEF DialHelper
  <1>2. g.nRetry = h.nRetry /\ g.dp = h.dp
    BY Zenon DEF DialHelper
  <1>3. h.nRetry > 0
    BY ConstantsAssumption DEF DialHelper
  <1> QED BY Zenon, <1>1, <1>2, <1>3 DEF GoodDial

\* What one pass over the dials leaves of dial d.
Flushed(d, ok) ==
    LET h == mPending[d] IN
    IF h = NoDial \/ h.nRetry = 0 THEN NoDial
    ELSE IF ~Due(h) THEN h
    ELSE IF d \in ok THEN [h EXCEPT !.req = TRUE]
    ELSE dialFailed(h)

\* One pass over the dials keeps each of them a dial of its port.
LEMMA FlushedType ==
    ASSUME TypeOK, NEW ok \in SUBSET Dials, NEW d \in Dials, Flushed(d, ok) # NoDial
    PROVE  /\ GoodDial(Flushed(d, ok))
           /\ Queued(d)
           /\ Flushed(d, ok).dp = mPending[d].dp
  <1>1. mPending[d] # NoDial /\ mPending[d].nRetry # 0
    BY Zenon DEF Flushed
  <1>2. mPending[d] \in DialHelper /\ GoodDial(mPending[d])
    BY Zenon, <1>1, TypeOKDials DEF GoodDial
  <1>3. GoodDial(dialFailed(mPending[d])) /\ dialFailed(mPending[d]).dp = mPending[d].dp
    BY Zenon, <1>1, <1>2, DialFailedType
  <1>4. /\ GoodDial([mPending[d] EXCEPT !.req = TRUE])
        /\ [mPending[d] EXCEPT !.req = TRUE].dp = mPending[d].dp
    BY Zenon, <1>1, <1>2, StartedType
  <1>5. \/ Flushed(d, ok) = mPending[d]
        \/ Flushed(d, ok) = [mPending[d] EXCEPT !.req = TRUE]
        \/ Flushed(d, ok) = dialFailed(mPending[d])
    BY <1>1, Zenon DEF Flushed
  <1> QED BY Zenon, <1>1, <1>2, <1>3, <1>4, <1>5 DEF Queued

\* A second less to wait.
LEMMA TickedType ==
    ASSUME NEW h, GoodDial(h), h.left > 0
    PROVE  GoodDial([h EXCEPT !.left = @ - 1]) /\ [h EXCEPT !.left = @ - 1].dp = h.dp
  <1> DEFINE g == [h EXCEPT !.left = @ - 1]
  <1>1. h.left - 1 \in 0 .. MaxDuration
    BY ConstantsAssumption DEF DialHelper, GoodDial
  <1>2. g \in DialHelper
    BY Zenon, <1>1 DEF DialHelper, GoodDial
  <1>3. g.nRetry = h.nRetry /\ g.dp = h.dp /\ g.req = h.req
    BY Zenon DEF DialHelper, GoodDial
  <1> QED BY Zenon, <1>2, <1>3 DEF GoodDial

-----------------------------------------------------------------------------
\* What start-up leaves satisfies the invariant.
LEMMA InitInv == Init => IInv
  <1> SUFFICES ASSUME Init PROVE IInv
    BY Zenon
  <1>1. TypeOK
    BY Zenon DEF Init, TypeOK
  <1>2. OneSlotPerPort
    BY Zenon DEF Init, OneSlotPerPort, Queued
  <1>3. SocketsOwned
    BY Zenon DEF Init, SocketsOwned
  <1> QED BY Zenon, <1>1, <1>2, <1>3 DEF IInv

\* A new dial is well formed and not running.
LEMMA NewHelperType ==
    ASSUME NEW k \in Keys
    PROVE  NewHelper(Dp(k)) \in DialHelper /\ NewHelper(Dp(k)).dp = Dp(k) /\ ~NewHelper(Dp(k)).req
  BY ConstantsAssumption DEF NewHelper, DialHelper, Keys, Dp

\* A dead connection is closed and its port queued: only its own slot
\* changes, because no other connection and no dial has its port.
LEMMA HandleMessageInv ==
    ASSUME IInv, NEW k \in Keys, handleMessage(k)
    PROVE  IInv'
  <1>1. PICK d \in Dials : mPending[d] = NoDial /\ mPending' = [mPending EXCEPT ![d] = NewHelper(Dp(k))]
    BY Zenon DEF handleMessage, DialTcpAsync
  <1>2. NewHelper(Dp(k)) \in DialHelper /\ NewHelper(Dp(k)).dp = Dp(k) /\ ~NewHelper(Dp(k)).req
    BY Zenon, NewHelperType
  <1>3. NewHelper(Dp(k)) # NoDial
    BY Zenon, <1>2, NoDialAssumption
  <1>4. TypeOK'
    BY Zenon, <1>1, <1>2 DEF IInv, TypeOK, handleMessage
  <1>5. OneSlotPerPort'
    BY <1>1, <1>2, <1>3 DEF IInv, TypeOK, OneSlotPerPort, handleMessage, Queued
  <1>6. SocketsOwned'
    BY Zenon DEF IInv, SocketsOwned, OneSlotPerPort, handleMessage
  <1> QED BY Zenon, <1>4, <1>5, <1>6 DEF IInv

\* A connected dial becomes the connection of its port.
LEMMA OnTcpConnectInv ==
    ASSUME IInv, NEW d \in Dials, NEW k \in Keys, onTcpConnect(d, k)
    PROVE  IInv'
  <1>1. TypeOK'
    BY Zenon DEF IInv, TypeOK, onTcpConnect
  <1>2. OneSlotPerPort'
    BY DEF IInv, TypeOK, OneSlotPerPort, SocketsOwned, onTcpConnect, Queued
  <1>3. SocketsOwned'
    BY Zenon DEF IInv, SocketsOwned, OneSlotPerPort, onTcpConnect
  <1> QED BY Zenon, <1>1, <1>2, <1>3 DEF IInv

\* Every callback of the loop thread keeps the invariant.
LEMMA NextInv == IInv /\ [Next]_vars => IInv'
  <1> SUFFICES ASSUME IInv, [Next]_vars PROVE IInv'
    BY Zenon
  <1>1. CASE Send
    BY Zenon, <1>1, DoSendRemovesDead, ChildConnErrInv DEF Send, doSend
  <1>2. ASSUME NEW k \in Keys, InputUnknown(k) PROVE IInv'
    BY Zenon, <1>2, DoSendRemovesDead, ChildConnErrInv DEF InputUnknown, doSend
  <1>3. CASE Flush
    BY Zenon, <1>3, ChildConnErrInv DEF Flush, DeadConns
  <1>4. ASSUME NEW k \in Keys, ReadErr(k) \/ OnRecvNetConnRst(k) \/ onNetConnDead(k) PROVE IInv'
    BY Zenon, <1>4, NotifyErrInv DEF ReadErr, OnRecvNetConnRst, onNetConnDead
  <1>5. ASSUME NEW k \in Keys, handleMessage(k) PROVE IInv'
    BY Zenon, <1>5, HandleMessageInv
  <1>6. ASSUME NEW ok \in SUBSET Dials, flushPending(ok) PROVE IInv'
    <2> DEFINE pending == [d \in Dials |-> Flushed(d, ok)]
    <2>1. mPending' = [d \in Dials |-> pending[d]]
      BY Zenon, <1>6 DEF flushPending, Flushed
    <2>2. \A d \in Dials : pending[d] # NoDial =>
            GoodDial(pending[d]) /\ Queued(d) /\ pending[d].dp = mPending[d].dp
      BY Zenon, FlushedType DEF IInv
    <2> HIDE DEF pending
    <2> QED BY Zenon, <1>6, <2>1, <2>2, PendingInv DEF flushPending, IInv, TypeOK
  <1>7. ASSUME NEW d \in Dials, onTcpConnectFailed(d) PROVE IInv'
    <2> DEFINE pending == [mPending EXCEPT ![d] = dialFailed(mPending[d])]
    <2>1. mPending' = [e \in Dials |-> pending[e]]
      BY Zenon, <1>7 DEF onTcpConnectFailed, IInv, TypeOK
    <2>2. GoodDial(dialFailed(mPending[d])) /\ dialFailed(mPending[d]).dp = mPending[d].dp
      BY <1>7, TypeOKDials, DialFailedType DEF onTcpConnectFailed, IInv, GoodDial, DialHelper
    <2>3. \A e \in Dials : pending[e] # NoDial =>
            GoodDial(pending[e]) /\ Queued(e) /\ pending[e].dp = mPending[e].dp
      BY Zenon, <1>7, <2>2, TypeOKDials DEF onTcpConnectFailed, IInv, TypeOK, Queued
    <2> HIDE DEF pending
    <2> QED BY Zenon, <1>7, <2>1, <2>3, PendingInv DEF onTcpConnectFailed, IInv, TypeOK
  <1>8. ASSUME NEW d \in Dials, NEW k \in Keys, onTcpConnect(d, k) PROVE IInv'
    BY Zenon, <1>8, OnTcpConnectInv
  <1>9. ASSUME NEW d \in Dials, TcpDialAsyncCbFailed(d) PROVE IInv'
    <2> DEFINE pending == [mPending EXCEPT ![d] = NoDial]
    <2>1. mPending' = [e \in Dials |-> pending[e]]
      BY Zenon, <1>9 DEF TcpDialAsyncCbFailed, IInv, TypeOK
    <2>2. \A e \in Dials : pending[e] # NoDial =>
            GoodDial(pending[e]) /\ Queued(e) /\ pending[e].dp = mPending[e].dp
      BY Zenon, TypeOKDials DEF IInv, TypeOK, Queued
    <2> HIDE DEF pending
    <2> QED BY Zenon, <1>9, <2>1, <2>2, PendingInv DEF TcpDialAsyncCbFailed, IInv, TypeOK
  <1>10. CASE Tick
    <2> DEFINE pending == [d \in Dials |-> IF mPending[d] # NoDial /\ mPending[d].left > 0
                                          THEN [mPending[d] EXCEPT !.left = @ - 1]
                                          ELSE mPending[d]]
    <2>1. mPending' = [d \in Dials |-> pending[d]]
      BY Zenon, <1>10 DEF Tick
    <2>2. \A d \in Dials : pending[d] # NoDial =>
            GoodDial(pending[d]) /\ Queued(d) /\ pending[d].dp = mPending[d].dp
      BY TypeOKDials, TickedType, Zenon DEF IInv, Queued
    <2> HIDE DEF pending
    <2> QED BY Zenon, <1>10, <2>1, <2>2, PendingInv DEF Tick, IInv, TypeOK
  <1>11. CASE OnNetConnected \/ OnNetDisconnected \/ UNCHANGED vars
    BY Zenon, <1>11 DEF OnNetConnected, OnNetDisconnected, vars, IInv, TypeOK, OneSlotPerPort, SocketsOwned, Queued
  <1>12. CASE Close
    BY Zenon, <1>12 DEF Close, IInv, TypeOK, OneSlotPerPort, SocketsOwned, Queued
  <1> QED BY Zenon, <1>1, <1>2, <1>3, <1>4, <1>5, <1>6, <1>7, <1>8, <1>9, <1>10, <1>11, <1>12 DEF Next

\* The strengthened invariant.
LEMMA Invariance == Spec => []IInv
  BY InitInv, NextInv, PTL DEF Spec

\* The variables keep their types, every back-off stays within 1 .. 60 s, and
\* a dial with a running connect has tries left.
THEOREM TypeCorrect == Spec => []TypeOK
  <1>1. IInv => TypeOK
    BY Zenon DEF IInv
  <1> QED BY Invariance, <1>1, PTL

\* No port ever has two of: a member, a removed connection, a dial.
THEOREM OneSlot == Spec => []OneSlotPerPort
  <1>1. IInv => OneSlotPerPort
    BY Zenon DEF IInv
  <1> QED BY Invariance, <1>1, PTL

\* No socket leaks, and no connection still reachable has been deleted.
THEOREM NoLeakNoUseAfterFree == Spec => []SocketsOwned
  <1>1. IInv => SocketsOwned
    BY Zenon DEF IInv
  <1> QED BY Invariance, <1>1, PTL

-----------------------------------------------------------------------------
\* The step relation SlotKept boxes.
KeepsSlots ==
    \A p \in Ports :
        HasSlot(p) /\ ~HasSlot(p)' =>
            \/ mClosing'
            \/ \E d \in Dials :
                 /\ Queued(d) /\ mPending[d].dp = p
                 /\ mPending[d].req \/ mPending[d].nRetry = 0

\* A step that keeps the connections that are members or waiting to be closed
\* and loses only dials that are over keeps the slots.
LEMMA KeepsSlotsPending ==
    ASSUME mConns' \cup mErrMsgs' = mConns \cup mErrMsgs,
           \A d \in Dials : Queued(d) =>
               \/ Queued(d)' /\ mPending'[d].dp = mPending[d].dp
               \/ mPending[d].req
               \/ mPending[d].nRetry = 0
    PROVE  KeepsSlots
  BY Zenon DEF KeepsSlots, HasSlot

\* Moving dead members to the message queue forgets no port.
LEMMA ChildConnErrKeeps ==
    ASSUME NEW dead, dead \subseteq mConns, childConnErrCb(dead), UNCHANGED mPending
    PROVE  KeepsSlots
  <1>1. mConns' \cup mErrMsgs' = mConns \cup mErrMsgs
    BY Zenon DEF childConnErrCb
  <1> QED BY Zenon, <1>1, KeepsSlotsPending DEF Queued

\* One pass over the dials drops only those with no try left.
LEMMA FlushPendingKeeps ==
    ASSUME TypeOK, NEW ok \in SUBSET Dials, flushPending(ok)
    PROVE  \A d \in Dials : Queued(d) =>
               \/ Queued(d)' /\ mPending'[d].dp = mPending[d].dp
               \/ mPending[d].nRetry = 0
  <1> SUFFICES ASSUME NEW d \in Dials, Queued(d), mPending[d].nRetry # 0
               PROVE  Queued(d)' /\ mPending'[d].dp = mPending[d].dp
    BY Zenon
  <1>1. mPending'[d] = Flushed(d, ok)
    BY Zenon DEF flushPending, Flushed
  <1>2. mPending[d] \in DialHelper
    BY Zenon, TypeOKDials DEF Queued, GoodDial
  <1>3. Flushed(d, ok) \in DialHelper
    <2>1. \/ Flushed(d, ok) = mPending[d]
          \/ Flushed(d, ok) = [mPending[d] EXCEPT !.req = TRUE]
          \/ Flushed(d, ok) = dialFailed(mPending[d])
      BY Zenon DEF Flushed, Queued
    <2> QED BY Zenon, <1>2, <2>1, StartedType, DialFailedType DEF GoodDial
  <1>4. Flushed(d, ok) # NoDial
    BY Zenon, <1>3, NoDialAssumption
  <1> QED BY Zenon, <1>1, <1>4, FlushedType DEF Queued

\* No callback forgets a port except as SlotKept allows.
LEMMA NextKeepsSlots == IInv /\ [Next]_vars => KeepsSlots \/ UNCHANGED vars
  <1> SUFFICES ASSUME IInv, Next PROVE KeepsSlots
    BY Zenon
  <1>1. CASE Send
    BY Zenon, <1>1, DoSendRemovesDead, ChildConnErrKeeps DEF Send, doSend
  <1>2. ASSUME NEW k \in Keys, InputUnknown(k) PROVE KeepsSlots
    BY Zenon, <1>2, DoSendRemovesDead, ChildConnErrKeeps DEF InputUnknown, doSend
  <1>3. CASE Flush
    BY Zenon, <1>3, ChildConnErrKeeps DEF Flush, DeadConns
  <1>4. ASSUME NEW k \in Keys, ReadErr(k) \/ OnRecvNetConnRst(k) \/ onNetConnDead(k) PROVE KeepsSlots
    BY Zenon, <1>4, KeepsSlotsPending DEF ReadErr, OnRecvNetConnRst, onNetConnDead, NotifyErr, Queued
  <1>5. ASSUME NEW k \in Keys, handleMessage(k) PROVE KeepsSlots
    <2>1. PICK d \in Dials : mPending[d] = NoDial /\ mPending' = [mPending EXCEPT ![d] = NewHelper(Dp(k))]
      BY Zenon, <1>5 DEF handleMessage, DialTcpAsync
    <2>2. NewHelper(Dp(k)) # NoDial /\ NewHelper(Dp(k)).dp = Dp(k)
      BY Zenon, NewHelperType, NoDialAssumption
    <2>3. Queued(d)' /\ mPending'[d].dp = Dp(k)
      BY Zenon, <2>1, <2>2 DEF Queued, IInv, TypeOK
    <2>4. \A e \in Dials : Queued(e) => Queued(e)' /\ mPending'[e] = mPending[e]
      BY Zenon, <2>1 DEF Queued, IInv, TypeOK
    <2>5. \A j \in mConns \cup mErrMsgs : j = k \/ j \in mConns' \cup mErrMsgs'
      BY Zenon, <1>5 DEF handleMessage
    <2> QED BY Zenon, <2>3, <2>4, <2>5 DEF KeepsSlots, HasSlot
  <1>6. ASSUME NEW ok \in SUBSET Dials, flushPending(ok) PROVE KeepsSlots
    <2>1. UNCHANGED <<mConns, mErrMsgs>>
      BY Zenon, <1>6 DEF flushPending
    <2> QED BY Zenon, <1>6, <2>1, FlushPendingKeeps, KeepsSlotsPending DEF IInv
  <1>7. ASSUME NEW d \in Dials, onTcpConnectFailed(d) \/ TcpDialAsyncCbFailed(d) PROVE KeepsSlots
    BY Zenon, <1>7, KeepsSlotsPending DEF onTcpConnectFailed, TcpDialAsyncCbFailed, Queued, IInv, TypeOK
  <1>8. ASSUME NEW d \in Dials, NEW k \in Keys, onTcpConnect(d, k) PROVE KeepsSlots
    BY Zenon, <1>8 DEF onTcpConnect, KeepsSlots, HasSlot, Queued, IInv, TypeOK
  <1>9. CASE Tick
    <2>1. \A d \in Dials : Queued(d) => GoodDial(mPending[d])
      BY Zenon, TypeOKDials DEF Queued, IInv
    <2>2. \A d \in Dials : Queued(d) => Queued(d)' /\ mPending'[d].dp = mPending[d].dp
      BY <1>9, <2>1, TickedType, NoDialAssumption, Zenon DEF Tick, Queued, GoodDial
    <2> QED BY Zenon, <1>9, <2>2, KeepsSlotsPending DEF Tick
  <1>10. CASE OnNetConnected \/ OnNetDisconnected
    BY Zenon, <1>10, KeepsSlotsPending DEF OnNetConnected, OnNetDisconnected, Queued
  <1>11. CASE Close
    BY Zenon, <1>11 DEF Close, KeepsSlots
  <1> QED BY Zenon, <1>1, <1>2, <1>3, <1>4, <1>5, <1>6, <1>7, <1>8, <1>9, <1>10, <1>11 DEF Next

\* A configured port is never forgotten, except by a dial that is over or by
\* the end of the client.
THEOREM SlotsAreKept == Spec => SlotKept
  <1>1. IInv /\ [Next]_vars => [KeepsSlots]_vars
    BY Zenon, NextKeepsSlots
  <1> QED BY <1>1, Invariance, PTL DEF Spec, SlotKept, KeepsSlots

-----------------------------------------------------------------------------
\* The three questions SlotOf asks about a port.
Up(p) == \E k \in mConns \cap mAlive : Dp(k) = p
Connected(p) == \E k \in mConns \cup mErrMsgs : Dp(k) = p
Dialled(p) == \E d \in Dials : Queued(d) /\ mPending[d].dp = p

Slot == [p \in Ports |-> SlotOf(p)]

\* A slot has one of the four states of PortSlots.
LEMMA SlotOfCases ==
    \A p : SlotOf(p) = IF Up(p) THEN "up" ELSE IF Connected(p) THEN "down"
                       ELSE IF Dialled(p) THEN "dialing" ELSE "none"
  BY Zenon DEF SlotOf, Up, Connected, Dialled

\* The slot of a port depends on the connections and dials of that port only.
LEMMA SlotOfSame ==
    ASSUME NEW p, Up(p)' = Up(p), Connected(p)' = Connected(p), Dialled(p)' = Dialled(p)
    PROVE  SlotOf(p)' = SlotOf(p)
  BY Zenon DEF SlotOf, Up, Connected, Dialled

\* Steps that leave every connection and dial where PortSlots sees it.
LEMMA SameSlots ==
    ASSUME mConns' \cap mAlive' = mConns \cap mAlive,
           mConns' \cup mErrMsgs' = mConns \cup mErrMsgs,
           \A d \in Dials : /\ Queued(d)' = Queued(d)
                            /\ Queued(d) => mPending'[d].dp = mPending[d].dp
    PROVE  UNCHANGED Slot
  <1>1. \A p \in Ports : Up(p)' = Up(p) /\ Connected(p)' = Connected(p)
    BY Zenon DEF Up, Connected
  <1>2. \A p \in Ports : Dialled(p)' = Dialled(p)
    BY Zenon DEF Dialled
  <1> QED BY Zenon, <1>1, <1>2, SlotOfSame DEF Slot

\* Removing dead members changes no slot: they are down already.
LEMMA ChildConnErrSlots ==
    ASSUME NEW dead, dead \subseteq mConns \ mAlive, childConnErrCb(dead), UNCHANGED mPending
    PROVE  UNCHANGED Slot
  <1>1. mConns' \cap mAlive' = mConns \cap mAlive
    BY Zenon DEF childConnErrCb
  <1>2. mConns' \cup mErrMsgs' = mConns \cup mErrMsgs
    BY Zenon DEF childConnErrCb
  <1> QED BY Zenon, <1>1, <1>2, SameSlots DEF Queued

\* An error on the live member of a port breaks its slot; no other member
\* has that port.
LEMMA NotifyErrSlots ==
    ASSUME IInv, NEW k \in Keys, NotifyErr(k)
    PROVE  UNCHANGED Slot \/ PS!Break(Dp(k))
  <1>1. CASE k \notin mConns \cap mAlive
    <2>1. mConns' \cap mAlive' = mConns \cap mAlive
      BY Zenon, <1>1 DEF NotifyErr
    <2> QED BY Zenon, <2>1, SameSlots DEF NotifyErr, Queued
  <1>2. CASE k \in mConns \cap mAlive
    <2>1. Dp(k) \in Ports
      BY Zenon DEF Keys, Dp
    <2>2. SlotOf(Dp(k)) = "up"
      BY Zenon, <1>2 DEF SlotOf
    <2>3. SlotOf(Dp(k))' = "down"
      <3>1. ~Up(Dp(k))'
        BY Zenon, <1>2 DEF Up, NotifyErr, IInv, OneSlotPerPort
      <3>2. Connected(Dp(k))'
        BY Zenon, <1>2 DEF Connected, NotifyErr
      <3> QED BY Zenon, <3>1, <3>2 DEF SlotOf, Up, Connected
    <2>4. \A p \in Ports \ {Dp(k)} : SlotOf(p)' = SlotOf(p)
      <3> SUFFICES ASSUME NEW p \in Ports \ {Dp(k)} PROVE SlotOf(p)' = SlotOf(p)
        BY Zenon
      <3>1. Up(p)' = Up(p)
        BY Zenon DEF Up, NotifyErr
      <3>2. Connected(p)' = Connected(p) /\ Dialled(p)' = Dialled(p)
        BY Zenon DEF Connected, Dialled, NotifyErr, Queued
      <3> QED BY Zenon, <3>1, <3>2, SlotOfSame
    <2>5. Slot' = [Slot EXCEPT ![Dp(k)] = "down"]
      BY Zenon, <2>1, <2>3, <2>4 DEF Slot
    <2>6. Slot[Dp(k)] = "up"
      BY Zenon, <2>1, <2>2 DEF Slot
    <2> QED BY Zenon, <2>5, <2>6 DEF PS!Break, Slot
  <1> QED BY Zenon, <1>1, <1>2

\* The close of a removed connection turns its broken slot into a dial.
LEMMA HandleMessageSlots ==
    ASSUME IInv, NEW k \in Keys, handleMessage(k)
    PROVE  PS!Redial(Dp(k))
  <1>1. PICK d \in Dials : mPending[d] = NoDial /\ mPending' = [mPending EXCEPT ![d] = NewHelper(Dp(k))]
    BY Zenon DEF handleMessage, DialTcpAsync
  <1>2. NewHelper(Dp(k)) # NoDial /\ NewHelper(Dp(k)).dp = Dp(k)
    BY Zenon, NewHelperType, NoDialAssumption
  <1>3. Dp(k) \in Ports
    BY Zenon DEF Keys, Dp
  <1>4. SlotOf(Dp(k)) = "down"
    <2>1. ~Up(Dp(k))
      BY Zenon DEF Up, handleMessage, IInv, OneSlotPerPort
    <2>2. Connected(Dp(k))
      BY Zenon DEF Connected, handleMessage
    <2> QED BY Zenon, <2>1, <2>2, SlotOfCases
  <1>5. SlotOf(Dp(k))' = "dialing"
    <2>1. ~Connected(Dp(k))'
      BY Zenon DEF Connected, handleMessage, IInv, OneSlotPerPort
    <2>2. ~Up(Dp(k))'
      BY Zenon, <2>1 DEF Up, Connected
    <2>3. Dialled(Dp(k))'
      BY Zenon, <1>1, <1>2 DEF Dialled, Queued, IInv, TypeOK
    <2> QED BY Zenon, <2>1, <2>2, <2>3 DEF SlotOf, Up, Connected, Dialled
  <1>6. ASSUME NEW p \in Ports \ {Dp(k)} PROVE SlotOf(p)' = SlotOf(p)
    <2>1. Up(p)' = Up(p)
      BY Zenon DEF Up, handleMessage
    <2>2. Connected(p)' = Connected(p)
      BY Zenon DEF Connected, handleMessage
    <2>3. Dialled(p)' = Dialled(p)
      BY Zenon, <1>1, <1>2 DEF Dialled, Queued, IInv, TypeOK
    <2> QED BY Zenon, <2>1, <2>2, <2>3, SlotOfSame
  <1>7. Slot' = [Slot EXCEPT ![Dp(k)] = "dialing"] /\ Slot[Dp(k)] = "down"
    BY Zenon, <1>3, <1>4, <1>5, <1>6 DEF Slot
  <1> QED BY Zenon, <1>7 DEF PS!Redial, Slot

\* A connected dial turns the slot of its port into a live connection.
LEMMA OnTcpConnectSlots ==
    ASSUME IInv, NEW d \in Dials, NEW k \in Keys, onTcpConnect(d, k)
    PROVE  PS!Connect(Dp(k))
  <1>1. Dp(k) \in Ports
    BY Zenon DEF Keys, Dp
  <1>2. SlotOf(Dp(k)) = "dialing"
    <2>1. ~Connected(Dp(k))
      BY Zenon DEF Connected, onTcpConnect, IInv, OneSlotPerPort, Queued
    <2>2. ~Up(Dp(k))
      BY Zenon, <2>1 DEF Up, Connected
    <2>3. Dialled(Dp(k))
      BY Zenon DEF Dialled, onTcpConnect, Queued
    <2> QED BY Zenon, <2>1, <2>2, <2>3, SlotOfCases
  <1>3. SlotOf(Dp(k))' = "up"
    BY Zenon DEF SlotOf, onTcpConnect
  <1>4. ASSUME NEW p \in Ports \ {Dp(k)} PROVE SlotOf(p)' = SlotOf(p)
    <2>1. k \notin mConns
      BY Zenon DEF onTcpConnect, IInv, SocketsOwned
    <2>2. Up(p)' = Up(p)
      BY Zenon, <2>1 DEF Up, onTcpConnect
    <2>3. Connected(p)' = Connected(p)
      BY Zenon DEF Connected, onTcpConnect
    <2>4. Dialled(p)' = Dialled(p)
      BY Zenon DEF Dialled, onTcpConnect, Queued, IInv, TypeOK
    <2> QED BY Zenon, <2>2, <2>3, <2>4, SlotOfSame
  <1>5. Slot' = [Slot EXCEPT ![Dp(k)] = "up"] /\ Slot[Dp(k)] = "dialing"
    BY Zenon, <1>1, <1>2, <1>3, <1>4 DEF Slot
  <1> QED BY Zenon, <1>5 DEF PS!Connect, Slot

\* A step that leaves the connections alone and may only drop dials gives up
\* the ports of the dropped ones.
LEMMA DropDialSlots ==
    ASSUME UNCHANGED <<mConns, mAlive, mErrMsgs>>,
           \A d \in Dials : Queued(d)' => Queued(d) /\ mPending'[d].dp = mPending[d].dp
    PROVE  PS!GiveUp
  <1> DEFINE dropped == {p \in Ports : SlotOf(p) # SlotOf(p)'}
  <1>1. ASSUME NEW p \in dropped PROVE SlotOf(p) = "dialing" /\ SlotOf(p)' = "none"
    <2>1. Up(p)' = Up(p) /\ Connected(p)' = Connected(p)
      BY Zenon DEF Up, Connected
    <2>2. Dialled(p)' => Dialled(p)
      BY Zenon DEF Dialled
    <2>3. ~Up(p) /\ ~Connected(p) /\ Dialled(p) /\ ~Dialled(p)'
      BY Zenon, <2>1, <2>2, SlotOfSame DEF SlotOf, Up, Connected, Dialled
    <2> QED BY Zenon, <2>1, <2>3 DEF SlotOf, Up, Connected, Dialled
  <1>2. dropped \in SUBSET {p \in Ports : Slot[p] = "dialing"}
    BY Zenon, <1>1 DEF Slot
  <1>3. Slot' = [p \in Ports |-> IF p \in dropped THEN "none" ELSE Slot[p]]
    BY Zenon, <1>1 DEF Slot
  <1> HIDE DEF dropped
  <1> QED BY Zenon, <1>2, <1>3 DEF PS!GiveUp, Slot

\* Start-up maps to an initial state of PortSlots.
LEMMA InitSlots == Init => PS!Init
  <1> SUFFICES ASSUME Init, NEW p \in Ports PROVE SlotOf(p) \in {"up", "none"}
    BY Zenon DEF PS!Init
  <1> QED BY Zenon DEF Init, SlotOf, Queued

\* Every callback maps to a step of PortSlots or to a stutter.
LEMMA NextSlots == IInv /\ [Next]_vars => PS!Next \/ UNCHANGED Slot
  <1> SUFFICES ASSUME IInv, [Next]_vars PROVE PS!Next \/ UNCHANGED Slot
    BY Zenon
  <1>1. CASE Send
    BY Zenon, <1>1, DoSendRemovesDead, ChildConnErrSlots DEF Send, doSend
  <1>2. ASSUME NEW k \in Keys, InputUnknown(k) PROVE UNCHANGED Slot
    BY Zenon, <1>2, DoSendRemovesDead, ChildConnErrSlots DEF InputUnknown, doSend
  <1>3. CASE Flush
    BY Zenon, <1>3, ChildConnErrSlots DEF Flush, DeadConns
  <1>4. ASSUME NEW k \in Keys, ReadErr(k) \/ OnRecvNetConnRst(k) \/ onNetConnDead(k)
        PROVE  PS!Next \/ UNCHANGED Slot
    <2>1. UNCHANGED Slot \/ PS!Break(Dp(k))
      BY Zenon, <1>4, NotifyErrSlots DEF ReadErr, OnRecvNetConnRst, onNetConnDead
    <2>2. Dp(k) \in Ports
      BY Zenon DEF Keys, Dp
    <2> QED BY Zenon, <2>1, <2>2 DEF PS!Next
  <1>5. ASSUME NEW k \in Keys, handleMessage(k) PROVE PS!Next
    <2>1. Dp(k) \in Ports
      BY Zenon DEF Keys, Dp
    <2> QED BY Zenon, <1>5, <2>1, HandleMessageSlots DEF PS!Next
  <1>6. ASSUME NEW ok \in SUBSET Dials, flushPending(ok) PROVE PS!Next
    <2>1. \A d \in Dials : mPending'[d] = Flushed(d, ok)
      BY Zenon, <1>6 DEF flushPending, Flushed
    <2>2. \A d \in Dials : Queued(d)' => Queued(d) /\ mPending'[d].dp = mPending[d].dp
      BY Zenon, <2>1, FlushedType DEF IInv, Queued
    <2>3. UNCHANGED <<mConns, mAlive, mErrMsgs>>
      BY Zenon, <1>6 DEF flushPending
    <2> QED BY Zenon, <2>2, <2>3, DropDialSlots DEF PS!Next
  <1>7. ASSUME NEW d \in Dials, onTcpConnectFailed(d) PROVE PS!Next
    <2>1. mPending[d] \in DialHelper /\ mPending[d].nRetry # 0
      BY <1>7, TypeOKDials DEF onTcpConnectFailed, IInv, GoodDial, DialHelper
    <2>2. dialFailed(mPending[d]).dp = mPending[d].dp
      BY Zenon, <2>1, DialFailedType
    <2>3. \A e \in Dials : Queued(e)' => Queued(e) /\ mPending'[e].dp = mPending[e].dp
      BY Zenon, <1>7, <2>2 DEF onTcpConnectFailed, Queued, IInv, TypeOK
    <2>4. UNCHANGED <<mConns, mAlive, mErrMsgs>>
      BY Zenon, <1>7 DEF onTcpConnectFailed
    <2> QED BY Zenon, <2>3, <2>4, DropDialSlots DEF PS!Next
  <1>8. ASSUME NEW d \in Dials, NEW k \in Keys, onTcpConnect(d, k) PROVE PS!Next
    <2>1. Dp(k) \in Ports
      BY Zenon DEF Keys, Dp
    <2> QED BY Zenon, <1>8, <2>1, OnTcpConnectSlots DEF PS!Next
  <1>9. ASSUME NEW d \in Dials, TcpDialAsyncCbFailed(d) PROVE PS!Next
    <2>1. \A e \in Dials : Queued(e)' => Queued(e) /\ mPending'[e].dp = mPending[e].dp
      BY Zenon, <1>9 DEF TcpDialAsyncCbFailed, Queued, IInv, TypeOK
    <2>2. UNCHANGED <<mConns, mAlive, mErrMsgs>>
      BY Zenon, <1>9 DEF TcpDialAsyncCbFailed
    <2> QED BY Zenon, <2>1, <2>2, DropDialSlots DEF PS!Next
  <1>10. CASE Tick
    <2>1. \A d \in Dials : Queued(d) => GoodDial(mPending[d])
      BY Zenon, TypeOKDials DEF Queued, IInv
    <2>2. \A d \in Dials : Queued(d)' => Queued(d) /\ mPending'[d].dp = mPending[d].dp
      BY <1>10, <2>1, TickedType, Zenon DEF Tick, Queued
    <2>3. UNCHANGED <<mConns, mAlive, mErrMsgs>>
      BY Zenon, <1>10 DEF Tick
    <2> QED BY Zenon, <2>2, <2>3, DropDialSlots DEF PS!Next
  <1>11. CASE OnNetConnected \/ OnNetDisconnected \/ UNCHANGED vars
    BY Zenon, <1>11, SameSlots DEF OnNetConnected, OnNetDisconnected, vars, Queued
  <1>12. CASE Close
    <2>1. \A p \in Ports : SlotOf(p)' = "none"
      BY Zenon, <1>12 DEF Close, SlotOf, Queued
    <2> QED BY Zenon, <2>1 DEF PS!Next, PS!Shutdown
  <1> QED BY Zenon, <1>1, <1>2, <1>3, <1>4, <1>5, <1>6, <1>7, <1>8, <1>9, <1>10, <1>11, <1>12 DEF Next

\* The group, the handler, the error handler and the dial list implement
\* PortSlots: every slot is connected, broken and dialled in that order.
THEOREM ImplementsPortSlots == Spec => SlotProtocol
  <1>1. IInv /\ [Next]_vars => [PS!Next]_Slot
    BY Zenon, NextSlots
  <1> QED BY <1>1, InitSlots, Invariance, PTL DEF Spec, SlotProtocol, PS!Spec, Slot

(***************************************************************************)
(* FakeTcp.  RecordsAgree and SeqTiles rest on what the captures may have  *)
(* recorded (Numbered); DeliveredIntact on where the segments under way    *)
(* come from (Carriage); LengthChecksExact on where every packet is as     *)
(* long as nothing was lost (NothingDropped).                              *)
(***************************************************************************)
\* The numbers of the SYN|ACK segment.
SynAck == [seq |-> isn["server"], ack |-> Wrap(isn["client"] + 1)]

\* The captures of both ends have recorded that segment or nothing yet; a FakeTcp
\* has numbers from its constructor on and writes only after its Init.
Numbered ==
    /\ pool["client"] \in {NoInfo, SynAck}
    /\ pool["server"] \in {NoInfo, Reverse(SynAck)}
    /\ \A e \in Ends :
         /\ inited[e] => mInfo[e] # NoInfo
         /\ ~inited[e] => sent[e] = <<>>

\* The Output call with index k wrote s: a packet that fits every buffer but, perhaps,
\* that of the socket pair.
Written(s, k) ==
    s.id = k /\ ~s.close /\ IsPacket(s.len)

\* A segment on its way to an end whose peer wrote ss: the kernel's, or one of ss.
Same(p, s) == p.id = s.id /\ p.len = s.len /\ p.cmd = s.cmd /\ ~p.close
Carried(ss, p) ==
    \/ p.close /\ p.len = 0
    \/ \E k \in 1 .. Len(ss) : Same(p, ss[k])

Carriage ==
    \A e \in Ends :
        /\ \A k \in 1 .. Len(sent[e]) : Written(sent[e][k], k)
        /\ \A p \in net[e] : Carried(sent[Peer(e)], p)
        /\ \A k \in 1 .. Len(pair[e]) :
             Carried(sent[Peer(e)], pair[e][k]) /\ Keeps(pair[e][k])

\* The packet with index k, or the kernel's segment, is on the network ns, in the
\* pair q, or has been handed up.
Somewhere(ns, q, gs, k) ==
    \/ \E p \in ns : p.id = k /\ ~p.close
    \/ \E j \in 1 .. Len(q) : q[j].id = k /\ ~q[j].close
    \/ \E g \in gs : g.id = k
FinSomewhere(ns, q, seen) ==
    \/ \E p \in ns : p.close
    \/ \E j \in 1 .. Len(q) : q[j].close
    \/ seen

\* The end e has, or will get, all that is to reach it: the packets that leave room
\* for the two addresses, and the segment of the peer's kernel.
Room(s) == s.len + SA4_SIZES <= OM_MAX_PKT_SIZE
Reaches(e) ==
    /\ \A k \in 1 .. Len(sent[Peer(e)]) :
         sameKey /\ Room(sent[Peer(e)][k]) => Somewhere(net[e], pair[e], got[e], k)
    /\ closed[e] => FinSomewhere(net[e], pair[e], finSeen[e])

NothingDropped == ~lost => \A e \in Ends : Reaches(e)

-----------------------------------------------------------------------------
LEMMA WrapType ==
    ASSUME NEW n \in Int
    PROVE  Wrap(n) \in SeqNums
  <1>1. SeqSpace \in Nat /\ SeqSpace > 0
    BY SizesAssumption
  <1>2. n % SeqSpace \in Int /\ 0 <= n % SeqSpace /\ n % SeqSpace <= SeqSpace - 1
    BY <1>1
  <1> QED BY <1>1, <1>2 DEF Wrap, SeqNums

LEMMA PeerFacts ==
    ASSUME NEW e \in Ends
    PROVE  Peer(e) \in Ends /\ Peer(e) # e /\ Peer(Peer(e)) = e
  BY Zenon DEF Ends, Peer

\* Data goes to the capture of the peer and to no other.
LEMMA WireReaches ==
    ASSUME LinkTypeOK, NEW e \in Ends, NEW seg \in Segments
    PROVE  /\ Wire(e, seg) \in [Ends -> SUBSET Segments]
           /\ Wire(e, seg)[Peer(e)] = net[Peer(e)] \cup {seg}
           /\ \A f \in Ends \ {Peer(e)} : Wire(e, seg)[f] = net[f]
  <1>1. ASSUME NEW f \in Ends PROVE Passes(f, e, FALSE) <=> f = Peer(e)
    BY Zenon DEF Passes, Peer, Ends
  <1>2. Wire(e, seg) = [f \in Ends |-> IF f = Peer(e) THEN net[f] \cup {seg} ELSE net[f]]
    BY Zenon, <1>1 DEF Wire
  <1>3. \A f \in Ends : net[f] \subseteq Segments
    BY Zenon DEF LinkTypeOK
  <1>4. ASSUME NEW f \in Ends
        PROVE  (IF f = Peer(e) THEN net[f] \cup {seg} ELSE net[f]) \in SUBSET Segments
    BY Zenon, <1>3
  <1> QED BY Zenon, <1>2, <1>4, PeerFacts

-----------------------------------------------------------------------------
\* The numbers.
NumInv == LinkTypeOK /\ Numbered

LEMMA NumInit == LinkInit => NumInv
  <1> SUFFICES ASSUME LinkInit PROVE NumInv
    BY Zenon
  <1>1. isn \in [Ends -> SeqNums]
    BY Zenon, SizesAssumption DEF LinkInit, SeqNums
  <1>2. /\ sent \in [Ends -> Seq(Segments)] /\ pair \in [Ends -> Seq(Segments)]
        /\ net \in [Ends -> SUBSET Segments]
    BY DEF LinkInit
  <1>3. LinkTypeOK
    BY Zenon, <1>1, <1>2 DEF LinkInit, LinkTypeOK
  <1>4. Numbered
    BY Zenon DEF LinkInit, Numbered, Ends
  <1> QED BY Zenon, <1>3, <1>4 DEF NumInv

LEMMA InfoFacts ==
    /\ NoInfo \notin Infos
    /\ \A i \in Infos : /\ i.seq \in SeqNums /\ i.ack \in SeqNums
                        /\ i.seq \in Int /\ i.ack \in Int
                        /\ Reverse(i) \in Infos
                        /\ \A n \in SeqNums : /\ [i EXCEPT !.seq = n] \in Infos
                                              /\ [i EXCEPT !.ack = n] \in Infos
                                              /\ [i EXCEPT !.seq = n].seq = n
                                              /\ [i EXCEPT !.ack = n].seq = i.seq
  <1>1. SeqNums \subseteq Int /\ -1 \notin SeqNums
    BY SizesAssumption DEF SeqNums
  <1>2. NoInfo \notin Infos
    BY Zenon, <1>1 DEF NoInfo, Infos
  <1> QED BY Zenon, <1>1, <1>2 DEF Infos, Reverse

\* SynAck is a record of numbers, and only its two ends read it.
LEMMA SynAckType ==
    ASSUME LinkTypeOK
    PROVE  SynAck \in Infos /\ Reverse(SynAck) \in Infos
  <1>1. isn["server"] \in SeqNums /\ isn["client"] \in Int
    BY DEF LinkTypeOK, Ends, SeqNums
  <1>2. Wrap(isn["client"] + 1) \in SeqNums
    BY <1>1, WrapType
  <1>3. SynAck \in Infos
    BY Zenon, <1>1, <1>2 DEF SynAck, Infos
  <1> QED BY Zenon, <1>3, InfoFacts

LEMMA HandshakeNum ==
    ASSUME NumInv, NEW e \in Ends, Handshake(e), sameKey' = sameKey
    PROVE  NumInv'
  <1>1. LinkTypeOK /\ Numbered
    BY Zenon DEF NumInv
  <1>2. PICK s \in Syns :
          /\ Passes(e, s.from, TRUE)
          /\ pool' = [pool EXCEPT ![e] = IF e = "server"
                                         THEN Reverse([seq |-> s.seq, ack |-> s.ack])
                                         ELSE [seq |-> s.seq, ack |-> s.ack]]
    BY Zenon DEF Handshake
  <1>3. UNCHANGED <<isn, mInfo, inited, sent, net, pair, got, closed, finSeen, lost>>
    BY Zenon DEF Handshake
  <1>4. s.from = "server"
    BY Zenon, <1>2 DEF Passes, Peer, Ends
  <1>5. [seq |-> s.seq, ack |-> s.ack] = SynAck
    BY <1>4 DEF Syns, SynAck
  <1>6. pool' = [pool EXCEPT ![e] = IF e = "server" THEN Reverse(SynAck) ELSE SynAck]
    BY Zenon, <1>2, <1>5
  <1>7. pool \in [Ends -> Infos \cup {NoInfo}]
    BY Zenon, <1>1 DEF LinkTypeOK
  <1>8. pool' \in [Ends -> Infos \cup {NoInfo}]
    BY Zenon, <1>1, <1>6, <1>7, SynAckType
  <1>9. LinkTypeOK'
    BY Zenon, <1>1, <1>3, <1>8 DEF LinkTypeOK
  <1>10. SynAck' = SynAck
    BY Zenon, <1>3 DEF SynAck
  <1>11. /\ pool'["client"] \in {NoInfo, SynAck}
         /\ pool'["server"] \in {NoInfo, Reverse(SynAck)}
    BY Zenon, <1>1, <1>6, <1>7 DEF Numbered, Ends
  <1>12. Numbered'
    BY Zenon, <1>1, <1>3, <1>10, <1>11 DEF Numbered, Reverse
  <1> QED BY Zenon, <1>9, <1>12 DEF NumInv

\* The steps after the handshake leave the records alone.
LEMMA RecordsStay ==
    ASSUME Numbered, isn' = isn, pool' = pool,
           \A e \in Ends : /\ inited'[e] => mInfo'[e] # NoInfo
                           /\ ~inited'[e] => sent'[e] = <<>>
    PROVE  Numbered'
  <1>1. SynAck' = SynAck /\ Reverse(SynAck)' = Reverse(SynAck)
    BY Zenon DEF SynAck, Reverse
  <1> QED BY Zenon, <1>1 DEF Numbered

LEMMA NewFakeTcpNum ==
    ASSUME NumInv, NEW e \in Ends, NewFakeTcp(e), sameKey' = sameKey
    PROVE  NumInv'
  <1>1. LinkTypeOK /\ Numbered
    BY Zenon DEF NumInv
  <1>2. /\ pool[e] # NoInfo /\ mInfo' = [mInfo EXCEPT ![e] = pool[e]]
        /\ UNCHANGED <<isn, pool, inited, sent, net, pair, got, closed, finSeen, lost>>
    BY Zenon DEF NewFakeTcp
  <1>3. mInfo \in [Ends -> Infos \cup {NoInfo}] /\ pool[e] \in Infos
    BY Zenon, <1>1, <1>2 DEF LinkTypeOK
  <1>4. /\ mInfo' \in [Ends -> Infos \cup {NoInfo}] /\ mInfo'[e] = pool[e]
        /\ \A f \in Ends \ {e} : mInfo'[f] = mInfo[f]
    BY Zenon, <1>2, <1>3
  <1>5. LinkTypeOK'
    BY Zenon, <1>1, <1>2, <1>4 DEF LinkTypeOK
  <1>6. Numbered'
    BY Zenon, <1>1, <1>2, <1>4, RecordsStay DEF Numbered
  <1> QED BY Zenon, <1>5, <1>6 DEF NumInv

LEMMA FakeTcpInitNum ==
    ASSUME NumInv, NEW e \in Ends, FakeTcpInit(e), sameKey' = sameKey
    PROVE  NumInv'
  <1>1. LinkTypeOK /\ Numbered
    BY Zenon DEF NumInv
  <1> DEFINE a == SetISN(mInfo[e], mInfo[e])
             b == SetAckISN(a, a)
  <1>2. /\ mInfo[e] # NoInfo /\ mInfo' = [mInfo EXCEPT ![e] = b]
        /\ inited' = [inited EXCEPT ![e] = TRUE]
        /\ UNCHANGED <<isn, pool, sent, net, pair, got, closed, finSeen, lost>>
    BY Zenon DEF FakeTcpInit
  <1>3. mInfo \in [Ends -> Infos \cup {NoInfo}] /\ mInfo[e] \in Infos
    BY Zenon, <1>1, <1>2 DEF LinkTypeOK
  <1>4. a \in Infos
    <2>1. Wrap(mInfo[e].ack + 1) \in SeqNums
      BY <1>3, InfoFacts, WrapType
    <2> QED BY Zenon, <1>3, <2>1, InfoFacts DEF SetISN
  <1>5. b \in Infos
    <2> HIDE DEF a
    <2>1. Wrap(a.seq + 1) \in SeqNums
      BY <1>4, InfoFacts, WrapType
    <2> QED BY Zenon, <1>4, <2>1, InfoFacts DEF SetAckISN
  <1> HIDE DEF b
  <1>6. /\ mInfo' \in [Ends -> Infos \cup {NoInfo}] /\ mInfo'[e] = b
        /\ \A f \in Ends \ {e} : mInfo'[f] = mInfo[f]
    BY Zenon, <1>2, <1>3, <1>5
  <1>7. /\ inited' \in [Ends -> BOOLEAN] /\ inited'[e]
        /\ \A f \in Ends \ {e} : inited'[f] = inited[f]
    BY Zenon, <1>1, <1>2 DEF LinkTypeOK
  <1>8. LinkTypeOK'
    BY Zenon, <1>1, <1>2, <1>6, <1>7 DEF LinkTypeOK
  <1>9. \A f \in Ends : /\ inited'[f] => mInfo'[f] # NoInfo
                        /\ ~inited'[f] => sent'[f] = <<>>
    BY Zenon, <1>1, <1>2, <1>5, <1>6, <1>7, InfoFacts DEF Numbered
  <1>10. Numbered'
    BY Zenon, <1>1, <1>2, <1>9, RecordsStay
  <1> QED BY Zenon, <1>8, <1>10 DEF NumInv

-----------------------------------------------------------------------------
\* The segment that Output writes.
Seg(e, n, cmd) ==
    [seq |-> mInfo[e].seq, ack |-> mInfo[e].ack, len |-> HEAD_SIZE + n,
     id |-> Len(sent[e]) + 1, cmd |-> cmd, close |-> FALSE]

LEMMA OutputIs ==
    ASSUME NumInv, NEW e \in Ends, NEW n \in DataLens, NEW cmd \in Cmds,
           Output(e, n, cmd)
    PROVE  /\ Seg(e, n, cmd) \in Segments
           /\ sent' = [sent EXCEPT ![e] = Append(sent[e], Seg(e, n, cmd))]
           /\ net' = Wire(e, Seg(e, n, cmd))
           /\ mInfo' = [mInfo EXCEPT ![e] = UpdateSeq(mInfo[e], n)]
           /\ inited[e] /\ mInfo[e] \in Infos /\ n \in Nat \ {0}
           /\ UNCHANGED <<isn, pool, inited, pair, got, closed, finSeen, lost>>
  <1>1. LinkTypeOK /\ Numbered
    BY Zenon DEF NumInv
  <1>2. /\ inited[e] /\ Len(sent["client"]) + Len(sent["server"]) < MaxSent
        /\ FitsMtu(n)
        /\ UNCHANGED <<isn, pool, inited, pair, got, closed, finSeen, lost>>
    BY Zenon DEF Output
  <1>3. /\ sent' = [sent EXCEPT ![e] = Append(sent[e], Seg(e, n, cmd))]
        /\ net' = Wire(e, Seg(e, n, cmd))
        /\ mInfo' = [mInfo EXCEPT ![e] = UpdateSeq(mInfo[e], n)]
    BY Zenon DEF Output, Seg
  <1>4. mInfo[e] \in Infos
    BY Zenon, <1>1, <1>2 DEF Numbered, LinkTypeOK
  <1>5. n \in Nat \ {0}
    BY Zenon, SizesAssumption
  <1>6. HEAD_SIZE + n \in 0 .. OM_MAX_PKT_SIZE
    BY <1>2, <1>5, SizesAssumption DEF FitsMtu, HEAD_SIZE
  <1>7. Len(sent[e]) + 1 \in 0 .. MaxSent
    <2> DEFINE c == Len(sent["client"])
               d == Len(sent["server"])
    <2>1. c \in Nat /\ d \in Nat
      BY <1>1 DEF LinkTypeOK, Ends
    <2>2. Len(sent[e]) = c \/ Len(sent[e]) = d
      BY Zenon DEF Ends
    <2>3. MaxSent \in Nat /\ c + d < MaxSent
      BY Zenon, <1>2, SizesAssumption
    <2> HIDE DEF c, d
    <2>4. c + 1 \in 0 .. MaxSent /\ d + 1 \in 0 .. MaxSent
      BY <2>1, <2>3
    <2> QED BY Zenon, <2>2, <2>4
  <1>8. Seg(e, n, cmd) \in Segments
    BY Zenon, <1>4, <1>6, <1>7, InfoFacts DEF Seg, Segments
  <1> QED BY Zenon, <1>2, <1>3, <1>4, <1>5, <1>8

LEMMA OutputNum ==
    ASSUME NumInv, NEW e \in Ends, NEW n \in DataLens, NEW cmd \in Cmds,
           Output(e, n, cmd), sameKey' = sameKey
    PROVE  NumInv'
  <1> DEFINE seg == Seg(e, n, cmd)
             i == UpdateSeq(mInfo[e], n)
  <1>1. LinkTypeOK /\ Numbered
    BY Zenon DEF NumInv
  <1>2. /\ seg \in Segments /\ sent' = [sent EXCEPT ![e] = Append(sent[e], seg)]
        /\ net' = Wire(e, seg) /\ mInfo' = [mInfo EXCEPT ![e] = i]
        /\ inited[e] /\ mInfo[e] \in Infos /\ n \in Nat
        /\ UNCHANGED <<isn, pool, inited, pair, got, closed, finSeen, lost>>
    BY Zenon, OutputIs
  <1>3. i \in Infos
    <2>1. n + mInfo[e].seq + HEAD_SIZE \in Int
      <3>1. HASH_BUF_SIZE \in Nat /\ ENC_SIZE \in Nat
        BY Zenon, SizesAssumption
      <3>2. mInfo[e].seq \in Int
        BY Zenon, <1>2, InfoFacts
      <3> QED BY <1>2, <3>1, <3>2 DEF HEAD_SIZE
    <2>2. Wrap(n + mInfo[e].seq + HEAD_SIZE) \in SeqNums
      BY Zenon, <2>1, WrapType
    <2> QED BY Zenon, <1>2, <2>2, InfoFacts DEF UpdateSeq
  <1> HIDE DEF seg, i
  <1>4. net' \in [Ends -> SUBSET Segments]
    BY Zenon, <1>1, <1>2, WireReaches
  <1>5. /\ sent' \in [Ends -> Seq(Segments)]
        /\ \A f \in Ends \ {e} : sent'[f] = sent[f]
    <2>1. sent \in [Ends -> Seq(Segments)]
      BY Zenon, <1>1 DEF LinkTypeOK
    <2>2. Append(sent[e], seg) \in Seq(Segments)
      BY <1>2, <2>1
    <2> QED BY Zenon, <1>2, <2>1, <2>2
  <1>6. /\ mInfo' \in [Ends -> Infos \cup {NoInfo}] /\ mInfo'[e] = i
        /\ \A f \in Ends \ {e} : mInfo'[f] = mInfo[f]
    BY Zenon, <1>1, <1>2, <1>3 DEF LinkTypeOK
  <1>7. LinkTypeOK'
    BY Zenon, <1>1, <1>2, <1>4, <1>5, <1>6 DEF LinkTypeOK
  <1>8. \A f \in Ends : /\ inited'[f] => mInfo'[f] # NoInfo
                        /\ ~inited'[f] => sent'[f] = <<>>
    BY <1>1, <1>2, <1>3, <1>5, <1>6, InfoFacts DEF Numbered
  <1>9. Numbered'
    BY Zenon, <1>1, <1>2, <1>8, RecordsStay
  <1> QED BY Zenon, <1>7, <1>9 DEF NumInv

\* The segment of the peer's kernel.
Fin(e) ==
    [seq |-> Wrap(isn[Peer(e)] + 1), ack |-> Wrap(isn[e] + 1), len |-> 0,
     id |-> 0, cmd |-> "data", close |-> TRUE]

LEMMA KernelCloseIs ==
    ASSUME NumInv, NEW e \in Ends, KernelClose(e)
    PROVE  /\ Fin(e) \in Segments
           /\ net' \in [Ends -> SUBSET Segments]
           /\ net'[e] = net[e] \cup {Fin(e)}
           /\ \A f \in Ends \ {e} : net'[f] = net[f]
           /\ closed' = [closed EXCEPT ![e] = TRUE]
           /\ UNCHANGED <<isn, pool, mInfo, inited, sent, pair, got, finSeen, lost>>
  <1>1. LinkTypeOK
    BY Zenon DEF NumInv
  <1>2. /\ net' = Wire(Peer(e), Fin(e)) /\ closed' = [closed EXCEPT ![e] = TRUE]
        /\ UNCHANGED <<isn, pool, mInfo, inited, sent, pair, got, finSeen, lost>>
    BY Zenon DEF KernelClose, Fin
  <1>3. Fin(e) \in Segments
    <2>1. isn[e] \in Int /\ isn[Peer(e)] \in Int
      BY <1>1, PeerFacts DEF LinkTypeOK, SeqNums
    <2>2. Wrap(isn[Peer(e)] + 1) \in SeqNums /\ Wrap(isn[e] + 1) \in SeqNums
      BY <2>1, WrapType
    <2>3. 0 \in 0 .. OM_MAX_PKT_SIZE /\ 0 \in 0 .. MaxSent
      BY SizesAssumption
    <2> QED BY Zenon, <2>2, <2>3 DEF Fin, Segments, Cmds
  <1>4. Peer(e) \in Ends /\ Peer(Peer(e)) = e
    BY Zenon, PeerFacts
  <1>5. /\ net' \in [Ends -> SUBSET Segments]
        /\ net'[e] = net[e] \cup {Fin(e)}
        /\ \A f \in Ends \ {e} : net'[f] = net[f]
    BY <1>1, <1>2, <1>3, <1>4, WireReaches
  <1> QED BY Zenon, <1>2, <1>3, <1>5

\* A step that takes seg off the network of e, and what it does to the pair of e.
Takes(e, seg) ==
    /\ seg \in net[e]
    /\ net' = [net EXCEPT ![e] = net[e] \ {seg}]
    /\ UNCHANGED <<isn, pool, mInfo, inited, sent, got, closed, finSeen>>

LEMMA TakesNum ==
    ASSUME NumInv, NEW e \in Ends, NEW seg, Takes(e, seg),
           pair' \in [Ends -> Seq(Segments)], lost' \in BOOLEAN, sameKey' = sameKey
    PROVE  NumInv'
  <1>1. LinkTypeOK /\ Numbered
    BY Zenon DEF NumInv
  <1>2. net' \in [Ends -> SUBSET Segments]
    BY Zenon, <1>1 DEF Takes, LinkTypeOK
  <1>3. UNCHANGED <<isn, pool, mInfo, inited, sent, got, closed, finSeen>>
    BY Zenon DEF Takes
  <1>4. LinkTypeOK'
    BY Zenon, <1>1, <1>2, <1>3 DEF LinkTypeOK
  <1>5. Numbered'
    BY Zenon, <1>1, <1>3, RecordsStay DEF Numbered
  <1> QED BY Zenon, <1>4, <1>5 DEF NumInv

\* What RawInput passes on.
Passed(seg) == [seg EXCEPT !.seq = Wrap(seg.seq + seg.len)]

LEMMA PassedFields ==
    ASSUME NEW seg \in Segments
    PROVE  /\ Passed(seg) \in Segments
           /\ \A f \in {"len", "id", "cmd", "close"} : Passed(seg)[f] = seg[f]
  <1>1. seg.seq \in Int /\ seg.len \in Int
    BY DEF Segments, SeqNums
  <1>2. Wrap(seg.seq + seg.len) \in SeqNums
    BY <1>1, WrapType
  <1> QED BY Zenon, <1>2 DEF Passed, Segments

LEMMA RawInputIs ==
    ASSUME NumInv, NEW e \in Ends, RawInput(e)
    PROVE  \E seg \in Segments :
             /\ Takes(e, seg) /\ lost' = lost
             /\ Keeps(seg) => pair' = [pair EXCEPT ![e] = Append(pair[e], Passed(seg))]
             /\ ~Keeps(seg) => pair' = pair
             /\ pair' \in [Ends -> Seq(Segments)]
  <1>1. PICK seg \in net[e] :
          /\ net' = [net EXCEPT ![e] = net[e] \ {seg}]
          /\ pair' = IF Keeps(seg) THEN [pair EXCEPT ![e] = Append(pair[e], Passed(seg))] ELSE pair
          /\ UNCHANGED <<isn, pool, mInfo, inited, sent, got, closed, finSeen, lost>>
    BY Zenon DEF RawInput, Passed
  <1>2. seg \in Segments /\ pair \in [Ends -> Seq(Segments)]
    BY Zenon DEF NumInv, LinkTypeOK
  <1>3. Append(pair[e], Passed(seg)) \in Seq(Segments)
    BY <1>2, PassedFields
  <1>4. pair' \in [Ends -> Seq(Segments)]
    BY Zenon, <1>1, <1>2, <1>3
  <1>5. Takes(e, seg) /\ lost' = lost
    BY Zenon, <1>1 DEF Takes
  <1> QED BY Zenon, <1>1, <1>2, <1>4, <1>5

\* A segment is lost, on the network or at the pair.
LEMMA LossIs ==
    ASSUME NumInv, NEW e \in Ends, RawInputFailed(e) \/ Lose(e)
    PROVE  \E seg \in Segments : Takes(e, seg) /\ lost' = TRUE /\ pair' = pair
  <1>1. PICK seg \in net[e] :
          /\ net' = [net EXCEPT ![e] = net[e] \ {seg}] /\ lost' = TRUE
          /\ UNCHANGED <<isn, pool, mInfo, inited, sent, pair, got, closed, finSeen>>
    BY Zenon DEF RawInputFailed, Lose
  <1>2. seg \in Segments
    BY Zenon DEF NumInv, LinkTypeOK
  <1> QED BY Zenon, <1>1, <1>2 DEF Takes

\* syncInput, by the three kinds of packet.
Received(e, p) ==
    \/ /\ IsPacket(p.len) /\ sameKey
       /\ got' = [got EXCEPT ![e] =
                    got[e] \cup {[id |-> p.id, len |-> Stripped(p.len), cmd |-> p.cmd]}]
       /\ finSeen' = finSeen
    \/ IsPacket(p.len) /\ ~sameKey /\ UNCHANGED <<got, finSeen>>
    \/ /\ ~IsPacket(p.len)
       /\ finSeen' = [finSeen EXCEPT ![e] = finSeen[e] \/ p.close]
       /\ got' = got

LEMMA SyncInputIs ==
    ASSUME NumInv, NEW e \in Ends, syncInput(e)
    PROVE  /\ pair[e] # <<>> /\ pair' = [pair EXCEPT ![e] = Tail(pair[e])]
           /\ Received(e, Head(pair[e]))
           /\ \/ mInfo' = mInfo
              \/ inited[e] /\ mInfo' = [mInfo EXCEPT ![e] = UpdateAck(mInfo[e], Head(pair[e]).seq)]
           /\ UNCHANGED <<isn, pool, inited, sent, net, closed, lost>>
  <1>1. /\ pair[e] # <<>> /\ pair' = [pair EXCEPT ![e] = Tail(pair[e])]
        /\ UNCHANGED <<isn, pool, inited, sent, net, closed, lost>>
    BY Zenon DEF syncInput
  <1>2. Received(e, Head(pair[e]))
    BY Zenon DEF syncInput, Received, hash_equal
  <1>3. \/ mInfo' = mInfo
        \/ inited[e] /\ mInfo' = [mInfo EXCEPT ![e] = UpdateAck(mInfo[e], Head(pair[e]).seq)]
    BY Zenon DEF syncInput
  <1> QED BY Zenon, <1>1, <1>2, <1>3

\* A FakeTcp::OnRecv changes the ack at most.
LEMMA UpdateAckKeeps ==
    ASSUME NEW i \in Infos, NEW seq \in SeqNums
    PROVE  UpdateAck(i, seq) \in Infos /\ UpdateAck(i, seq).seq = i.seq
  <1>1. [i EXCEPT !.ack = seq] \in Infos /\ [i EXCEPT !.ack = seq].seq = i.seq
    BY Zenon, InfoFacts
  <1> QED BY Zenon, <1>1 DEF UpdateAck

\* The head of a pair, and the rest.
LEMMA PairHead ==
    ASSUME NumInv, NEW e \in Ends, pair[e] # <<>>
    PROVE  /\ Head(pair[e]) \in Segments /\ Head(pair[e]) = pair[e][1]
           /\ Len(pair[e]) \in Nat \ {0} /\ 1 \in 1 .. Len(pair[e])
           /\ Tail(pair[e]) \in Seq(Segments) /\ Len(Tail(pair[e])) = Len(pair[e]) - 1
           /\ \A k \in 1 .. Len(pair[e]) - 1 : Tail(pair[e])[k] = pair[e][k + 1]
  <1>1. pair[e] \in Seq(Segments)
    BY Zenon DEF NumInv, LinkTypeOK
  <1>2. Len(pair[e]) \in Nat /\ Len(pair[e]) # 0
    BY <1>1
  <1>3. Head(pair[e]) \in Segments /\ Head(pair[e]) = pair[e][1]
    BY <1>1, <1>2
  <1>4. Tail(pair[e]) \in Seq(Segments) /\ Len(Tail(pair[e])) = Len(pair[e]) - 1
    BY <1>1, <1>2
  <1>5. \A k \in 1 .. Len(pair[e]) - 1 : Tail(pair[e])[k] = pair[e][k + 1]
    BY <1>1, <1>2
  <1> QED BY <1>2, <1>3, <1>4, <1>5

LEMMA SyncInputNum ==
    ASSUME NumInv, NEW e \in Ends, syncInput(e), sameKey' = sameKey
    PROVE  /\ NumInv'
           /\ \A f \in Ends : mInfo'[f].seq = mInfo[f].seq
  <1> DEFINE p == Head(pair[e])
             i == UpdateAck(mInfo[e], p.seq)
  <1>1. LinkTypeOK /\ Numbered
    BY Zenon DEF NumInv
  <1>2. /\ pair[e] # <<>> /\ pair' = [pair EXCEPT ![e] = Tail(pair[e])]
        /\ Received(e, p)
        /\ mInfo' = mInfo \/ (inited[e] /\ mInfo' = [mInfo EXCEPT ![e] = i])
        /\ UNCHANGED <<isn, pool, inited, sent, net, closed, lost>>
    BY Zenon, SyncInputIs
  <1>3. p \in Segments /\ Tail(pair[e]) \in Seq(Segments)
    BY Zenon, <1>2, PairHead
  <1>4. pair' \in [Ends -> Seq(Segments)]
    BY Zenon, <1>1, <1>2, <1>3 DEF LinkTypeOK
  <1>5. /\ mInfo' \in [Ends -> Infos \cup {NoInfo}]
        /\ \A f \in Ends : mInfo'[f].seq = mInfo[f].seq
        /\ \A f \in Ends : inited[f] => mInfo'[f] # NoInfo
    <2>1. mInfo \in [Ends -> Infos \cup {NoInfo}]
      BY Zenon, <1>1 DEF LinkTypeOK
    <2>2. \A f \in Ends : inited[f] => mInfo[f] # NoInfo
      BY Zenon, <1>1 DEF Numbered
    <2>3. CASE mInfo' = mInfo
      BY Zenon, <2>1, <2>2, <2>3
    <2>4. CASE inited[e] /\ mInfo' = [mInfo EXCEPT ![e] = i]
      <3>1. mInfo[e] \in Infos
        BY Zenon, <2>1, <2>2, <2>4
      <3>2. p.seq \in SeqNums
        BY Zenon, <1>3 DEF Segments
      <3>3. i \in Infos /\ i.seq = mInfo[e].seq
        BY Zenon, <3>1, <3>2, UpdateAckKeeps
      <3> HIDE DEF i
      <3>4. mInfo'[e] = i /\ \A f \in Ends \ {e} : mInfo'[f] = mInfo[f]
        BY Zenon, <2>1, <2>4
      <3>5. mInfo' \in [Ends -> Infos \cup {NoInfo}]
        BY Zenon, <2>1, <2>4, <3>3
      <3> QED BY <2>2, <3>3, <3>4, <3>5, InfoFacts
    <2> QED BY Zenon, <1>2, <2>3, <2>4
  <1>6. finSeen' \in [Ends -> BOOLEAN] /\ DOMAIN got' = Ends
    <2>1. p.close \in BOOLEAN /\ finSeen \in [Ends -> BOOLEAN] /\ DOMAIN got = Ends
      BY Zenon, <1>1, <1>3 DEF Segments, LinkTypeOK
    <2>2. DOMAIN got' = Ends
      BY Zenon, <1>2, <2>1 DEF Received
    <2>3. finSeen' = finSeen \/ finSeen' = [finSeen EXCEPT ![e] = finSeen[e] \/ p.close]
      BY Zenon, <1>2 DEF Received
    <2>4. (finSeen[e] \/ p.close) \in BOOLEAN
      BY Zenon
    <2> QED BY Zenon, <2>1, <2>2, <2>3, <2>4
  <1>7. LinkTypeOK'
    BY Zenon, <1>1, <1>2, <1>4, <1>5, <1>6 DEF LinkTypeOK
  <1>8. Numbered'
    BY Zenon, <1>1, <1>2, <1>5, RecordsStay DEF Numbered
  <1> QED BY Zenon, <1>5, <1>7, <1>8 DEF NumInv

LEMMA KernelCloseNum ==
    ASSUME NumInv, NEW e \in Ends, KernelClose(e), sameKey' = sameKey
    PROVE  NumInv'
  <1>1. LinkTypeOK /\ Numbered
    BY Zenon DEF NumInv
  <1>2. /\ net' \in [Ends -> SUBSET Segments] /\ closed' = [closed EXCEPT ![e] = TRUE]
        /\ UNCHANGED <<isn, pool, mInfo, inited, sent, pair, got, finSeen, lost>>
    BY Zenon, KernelCloseIs
  <1>3. closed' \in [Ends -> BOOLEAN]
    BY Zenon, <1>1, <1>2 DEF LinkTypeOK
  <1>4. LinkTypeOK'
    BY Zenon, <1>1, <1>2, <1>3 DEF LinkTypeOK
  <1>5. Numbered'
    BY Zenon, <1>1, <1>2, RecordsStay DEF Numbered
  <1> QED BY Zenon, <1>4, <1>5 DEF NumInv

\* What a step of the connection is.
LEMMA FakeSteps ==
    ASSUME [LinkNext]_linkVars
    PROVE  /\ sameKey' = sameKey
           /\ \/ UNCHANGED linkVars
              \/ \E e \in Ends : Handshake(e) \/ NewFakeTcp(e) \/ FakeTcpInit(e)
              \/ \E e \in Ends, n \in DataLens, cmd \in Cmds : Output(e, n, cmd)
              \/ \E e \in Ends : KernelClose(e) \/ RawInput(e) \/ syncInput(e)
              \/ \E e \in Ends : RawInputFailed(e) \/ Lose(e)
  BY Zenon DEF LinkNext, Step, linkVars

LEMMA NumNext ==
    ASSUME NumInv, [LinkNext]_linkVars
    PROVE  NumInv'
  <1>0. sameKey' = sameKey
    BY Zenon, FakeSteps
  <1>1. CASE UNCHANGED linkVars
    BY Zenon, <1>1 DEF linkVars, NumInv, LinkTypeOK, Numbered, SynAck, Reverse
  <1>2. ASSUME NEW e \in Ends, Handshake(e) \/ NewFakeTcp(e) \/ FakeTcpInit(e)
        PROVE  NumInv'
    BY Zenon, <1>0, <1>2, HandshakeNum, NewFakeTcpNum, FakeTcpInitNum
  <1>3. ASSUME NEW e \in Ends, NEW n \in DataLens, NEW cmd \in Cmds, Output(e, n, cmd)
        PROVE  NumInv'
    BY Zenon, <1>0, <1>3, OutputNum
  <1>4. ASSUME NEW e \in Ends, RawInput(e) PROVE NumInv'
    <2>1. lost \in BOOLEAN
      BY Zenon DEF NumInv, LinkTypeOK
    <2> QED BY Zenon, <1>0, <1>4, <2>1, RawInputIs, TakesNum
  <1>5. ASSUME NEW e \in Ends, RawInputFailed(e) \/ Lose(e) PROVE NumInv'
    <2>1. pair \in [Ends -> Seq(Segments)]
      BY Zenon DEF NumInv, LinkTypeOK
    <2> QED BY Zenon, <1>0, <1>5, <2>1, LossIs, TakesNum
  <1>6. ASSUME NEW e \in Ends, KernelClose(e) \/ syncInput(e) PROVE NumInv'
    BY Zenon, <1>0, <1>6, KernelCloseNum, SyncInputNum
  <1> QED BY Zenon, <1>1, <1>2, <1>3, <1>4, <1>5, <1>6, FakeSteps

LEMMA NumInvariant == LinkSpec => []NumInv
  <1>1. LinkInit => NumInv
    BY Zenon, NumInit
  <1>2. NumInv /\ [LinkNext]_linkVars => NumInv'
    BY Zenon, NumNext
  <1> QED BY <1>1, <1>2, PTL DEF LinkSpec

\* RecordsAgree for any initial sequence numbers and any width of them: in whatever
\* order the captures see the handshake, RawInput records the SYN|ACK at both ends.
THEOREM FakeTcpRecordsAgree == LinkSpec => []RecordsAgree
  <1>1. NumInv => RecordsAgree
    <2> SUFFICES ASSUME NumInv, NoInfo \notin {pool[e] : e \in Ends}
                 PROVE  /\ pool["server"] = Reverse(pool["client"])
                        /\ pool["client"].ack = Wrap(isn["client"] + 1)
      BY Zenon DEF RecordsAgree
    <2>1. pool["server"] # NoInfo /\ pool["client"] # NoInfo
      BY Zenon DEF Ends
    <2>2. pool["client"] = SynAck /\ pool["server"] = Reverse(SynAck)
      BY Zenon, <2>1 DEF NumInv, Numbered
    <2>3. SynAck.ack = Wrap(isn["client"] + 1)
      BY Zenon DEF SynAck
    <2> QED BY Zenon, <2>2, <2>3
  <1> QED BY <1>1, NumInvariant, PTL

-----------------------------------------------------------------------------
\* A step that writes nothing and leaves the number of every FakeTcp that has written.
LEMMA TilesStay ==
    ASSUME SeqTiles, sent' = sent,
           \A e \in Ends : sent[e] # <<>> => mInfo'[e].seq = mInfo[e].seq
    PROVE  SeqTiles'
  BY Zenon DEF SeqTiles, Wrap

\* Output adds a segment that starts where the last one ended.
LEMMA TilesOutput ==
    ASSUME NumInv, SeqTiles, NEW e \in Ends, NEW n \in DataLens,
           NEW cmd \in Cmds, Output(e, n, cmd)
    PROVE  SeqTiles'
  <1> DEFINE seg == Seg(e, n, cmd)
             s == sent[e]
             t == sent'[e]
             i == UpdateSeq(mInfo[e], n)
  <1>1. /\ seg \in Segments /\ sent' = [sent EXCEPT ![e] = Append(s, seg)]
        /\ mInfo' = [mInfo EXCEPT ![e] = i]
        /\ mInfo[e] \in Infos /\ n \in Nat
    BY Zenon, OutputIs
  <1>2. sent \in [Ends -> Seq(Segments)] /\ mInfo \in [Ends -> Infos \cup {NoInfo}]
    BY Zenon DEF NumInv, LinkTypeOK
  <1>3. seg.seq = mInfo[e].seq /\ seg.len = HEAD_SIZE + n
    BY Zenon DEF Seg
  <1>4. i.seq = Wrap(seg.seq + seg.len)
    <2>1. HEAD_SIZE \in Int /\ mInfo[e].seq \in Int
      BY <1>1, InfoFacts, SizesAssumption DEF HEAD_SIZE
    <2>2. n + mInfo[e].seq + HEAD_SIZE = seg.seq + seg.len
      BY <1>1, <1>3, <2>1
    <2>3. Wrap(seg.seq + seg.len) \in SeqNums
      BY <1>1, <1>3, <2>1, WrapType
    <2> QED BY Zenon, <1>1, <2>2, <2>3, InfoFacts DEF UpdateSeq
  <1> HIDE DEF seg, i
  <1>5. /\ t = Append(s, seg) /\ mInfo'[e] = i
        /\ \A f \in Ends \ {e} : sent'[f] = sent[f] /\ mInfo'[f] = mInfo[f]
    BY Zenon, <1>1, <1>2
  <1>6. /\ s \in Seq(Segments) /\ Len(s) \in Nat /\ Len(t) = Len(s) + 1
        /\ t[Len(s) + 1] = seg
        /\ \A k \in 1 .. Len(s) : t[k] = s[k]
    BY <1>1, <1>2, <1>5
  <1>7. /\ \A k \in 1 .. Len(s) - 1 : s[k + 1].seq = Wrap(s[k].seq + s[k].len)
        /\ s # <<>> => mInfo[e].seq = Wrap(s[Len(s)].seq + s[Len(s)].len)
    BY Zenon DEF SeqTiles
  <1> HIDE DEF s, t
  <1>8. ASSUME NEW k \in 1 .. Len(t) - 1
        PROVE  t[k + 1].seq = Wrap(t[k].seq + t[k].len)
    <2>1. CASE k < Len(s)
      <3>1. k \in 1 .. Len(s) - 1 /\ k \in 1 .. Len(s) /\ k + 1 \in 1 .. Len(s)
        BY <1>6, <2>1
      <3> QED BY Zenon, <1>6, <1>7, <3>1
    <2>2. CASE k = Len(s)
      <3>1. k \in 1 .. Len(s) /\ s # <<>>
        BY <1>6, <2>2
      <3> QED BY Zenon, <1>3, <1>6, <1>7, <2>2, <3>1
    <2>3. k < Len(s) \/ k = Len(s)
      BY <1>6
    <2> QED BY Zenon, <2>1, <2>2, <2>3
  <1>9. i.seq = Wrap(t[Len(t)].seq + t[Len(t)].len)
    BY Zenon, <1>4, <1>6
  <1>10. ASSUME NEW f \in Ends
         PROVE  /\ \A k \in 1 .. Len(sent'[f]) - 1 :
                     sent'[f][k + 1].seq = Wrap(sent'[f][k].seq + sent'[f][k].len)
                /\ sent'[f] # <<>> =>
                     mInfo'[f].seq = Wrap(sent'[f][Len(sent'[f])].seq + sent'[f][Len(sent'[f])].len)
    <2>1. CASE f = e
      BY Zenon, <1>5, <1>8, <1>9, <2>1 DEF t
    <2>2. CASE f # e
      <3>1. sent'[f] = sent[f] /\ mInfo'[f] = mInfo[f]
        BY Zenon, <1>5, <2>2
      <3> QED BY <3>1 DEF SeqTiles
    <2> QED BY Zenon, <2>1, <2>2
  <1> QED BY Zenon, <1>10 DEF SeqTiles, Wrap

LEMMA TilesNext ==
    ASSUME NumInv, SeqTiles, [LinkNext]_linkVars
    PROVE  SeqTiles'
  <1>0. /\ sameKey' = sameKey /\ mInfo \in [Ends -> Infos \cup {NoInfo}]
        /\ \A e \in Ends : (inited[e] => mInfo[e] # NoInfo) /\ (~inited[e] => sent[e] = <<>>)
    BY Zenon, FakeSteps DEF NumInv, LinkTypeOK, Numbered
  <1>1. CASE UNCHANGED linkVars
    BY Zenon, <1>1, TilesStay DEF linkVars
  <1>2. ASSUME NEW e \in Ends, Handshake(e) PROVE SeqTiles'
    BY Zenon, <1>2, TilesStay DEF Handshake
  <1>3. ASSUME NEW e \in Ends, NewFakeTcp(e) \/ FakeTcpInit(e) PROVE SeqTiles'
    <2>1. /\ sent[e] = <<>> /\ sent' = sent
          /\ \A f \in Ends \ {e} : mInfo'[f] = mInfo[f]
      BY Zenon, <1>0, <1>3 DEF NewFakeTcp, FakeTcpInit
    <2> QED BY Zenon, <2>1, TilesStay
  <1>4. ASSUME NEW e \in Ends, NEW n \in DataLens, NEW cmd \in Cmds, Output(e, n, cmd)
        PROVE  SeqTiles'
    BY Zenon, <1>4, TilesOutput
  <1>5. ASSUME NEW e \in Ends, syncInput(e) PROVE SeqTiles'
    <2>1. \A f \in Ends : mInfo'[f].seq = mInfo[f].seq
      BY Zenon, <1>0, <1>5, SyncInputNum
    <2>2. sent' = sent
      BY Zenon, <1>5 DEF syncInput
    <2> QED BY Zenon, <2>1, <2>2, TilesStay
  <1>6. ASSUME NEW e \in Ends,
               KernelClose(e) \/ RawInput(e) \/ RawInputFailed(e) \/ Lose(e)
        PROVE  SeqTiles'
    <2>1. sent' = sent /\ mInfo' = mInfo
      BY Zenon, <1>6 DEF KernelClose, RawInput, RawInputFailed, Lose
    <2> QED BY Zenon, <2>1, TilesStay
  <1> QED BY Zenon, <1>1, <1>2, <1>3, <1>4, <1>5, <1>6, FakeSteps

\* SeqTiles for any sizes and any number of Output calls: what FakeTcp::Output adds
\* to its number is what RConn::Output wrote.
THEOREM FakeTcpSeqTiles == LinkSpec => []SeqTiles
  <1>1. LinkInit => SeqTiles
    BY DEF LinkInit, SeqTiles
  <1>2. NumInv /\ SeqTiles /\ [LinkNext]_linkVars => SeqTiles'
    BY Zenon, TilesNext
  <1> QED BY <1>1, <1>2, NumInvariant, PTL DEF LinkSpec

-----------------------------------------------------------------------------
\* What an end has written stays written.
Extends(s, t) == \A k \in 1 .. Len(s) : k \in 1 .. Len(t) /\ t[k] = s[k]
SentGrows == \A e \in Ends : Extends(sent[e], sent'[e])

\* Output, position by position.
LEMMA OutputGrows ==
    ASSUME NumInv, NEW e \in Ends, NEW n \in DataLens, NEW cmd \in Cmds,
           Output(e, n, cmd)
    PROVE  /\ SentGrows
           /\ Len(sent[e]) \in Nat /\ Len(sent'[e]) = Len(sent[e]) + 1
           /\ sent'[e][Len(sent[e]) + 1] = Seg(e, n, cmd)
           /\ \A f \in Ends \ {e} : sent'[f] = sent[f]
  <1> DEFINE seg == Seg(e, n, cmd)
  <1>1. seg \in Segments /\ sent' = [sent EXCEPT ![e] = Append(sent[e], seg)]
    BY Zenon, OutputIs
  <1>2. sent \in [Ends -> Seq(Segments)]
    BY Zenon DEF NumInv, LinkTypeOK
  <1> HIDE DEF seg
  <1>3. sent'[e] = Append(sent[e], seg) /\ \A f \in Ends \ {e} : sent'[f] = sent[f]
    BY Zenon, <1>1, <1>2
  <1>4. sent[e] \in Seq(Segments)
    BY Zenon, <1>2
  <1>5. /\ Len(sent[e]) \in Nat /\ Len(sent'[e]) = Len(sent[e]) + 1
        /\ sent'[e][Len(sent[e]) + 1] = seg
        /\ \A k \in 1 .. Len(sent[e]) : sent'[e][k] = sent[e][k]
    BY <1>1, <1>3, <1>4
  <1>6. \A k \in 1 .. Len(sent[e]) : k \in 1 .. Len(sent'[e])
    BY <1>5
  <1>7. SentGrows
    BY Zenon, <1>3, <1>5, <1>6 DEF SentGrows, Extends
  <1> QED BY Zenon, <1>3, <1>5, <1>7 DEF seg

LEMMA CarriedStays ==
    ASSUME NEW s, NEW t, NEW p, Extends(s, t), Carried(s, p)
    PROVE  Carried(t, p)
  BY Zenon DEF Carried, Extends

\* A step that writes nothing, puts nothing on the network and nothing into a pair.
LEMMA CarriageStays ==
    ASSUME Carriage, sent' = sent, pair' = pair, \A e \in Ends : net'[e] \subseteq net[e]
    PROVE  Carriage'
  <1>1. ASSUME NEW e \in Ends
        PROVE  /\ \A k \in 1 .. Len(sent'[e]) : Written(sent'[e][k], k)
               /\ \A p \in net'[e] : Carried(sent'[Peer(e)], p)
               /\ \A k \in 1 .. Len(pair'[e]) :
                    Carried(sent'[Peer(e)], pair'[e][k]) /\ Keeps(pair'[e][k])
    BY Zenon DEF Carriage
  <1> QED BY Zenon, <1>1 DEF Carriage


LEMMA CarriageOutput ==
    ASSUME NumInv, Carriage, NEW e \in Ends, NEW n \in DataLens,
           NEW cmd \in Cmds, Output(e, n, cmd)
    PROVE  Carriage'
  <1> DEFINE seg == Seg(e, n, cmd)
             k1 == Len(sent[e]) + 1
  <1>1. /\ SentGrows /\ Len(sent[e]) \in Nat /\ Len(sent'[e]) = k1 /\ sent'[e][k1] = seg
        /\ \A f \in Ends \ {e} : sent'[f] = sent[f]
    BY Zenon, OutputGrows
  <1>2. /\ net'[Peer(e)] = net[Peer(e)] \cup {seg}
        /\ \A f \in Ends \ {Peer(e)} : net'[f] = net[f]
        /\ pair' = pair
    <2>1. LinkTypeOK
      BY Zenon DEF NumInv
    <2>2. seg \in Segments /\ net' = Wire(e, seg) /\ UNCHANGED <<pair, got, closed, finSeen>>
      BY Zenon, OutputIs
    <2>3. /\ Wire(e, seg)[Peer(e)] = net[Peer(e)] \cup {seg}
          /\ \A h \in Ends \ {Peer(e)} : Wire(e, seg)[h] = net[h]
      <3> HIDE DEF seg
      <3> QED BY Zenon, <2>1, <2>2, WireReaches
    <2> HIDE DEF seg
    <2> QED BY Zenon, <2>2, <2>3
  <1>3. Written(seg, k1) /\ seg.close = FALSE
    <2>1. n \in Nat \ {0} /\ HASH_BUF_SIZE \in Nat /\ ENC_SIZE \in Nat
      BY Zenon, SizesAssumption
    <2>2. seg.id = k1 /\ seg.len = HEAD_SIZE + n /\ seg.close = FALSE
      BY Zenon DEF Seg
    <2>3. IsPacket(HEAD_SIZE + n)
      BY <2>1 DEF IsPacket, HEAD_SIZE
    <2> QED BY Zenon, <2>2, <2>3 DEF Written
  <1>4. Same(seg, seg) /\ k1 \in 1 .. Len(sent'[e])
    BY <1>1, <1>3 DEF Same
  <1>5. \A f \in Ends : Peer(f) \in Ends
    BY Zenon, PeerFacts
  <1>6. Carried(sent'[Peer(Peer(e))], seg)
    BY Zenon, <1>1, <1>4, PeerFacts DEF Carried
  <1> HIDE DEF seg, k1
  <1>7. \A k \in 1 .. Len(sent'[e]) : k \in 1 .. Len(sent[e]) \/ k = k1
    BY <1>1 DEF k1
  <1>8. ASSUME NEW f \in Ends
        PROVE  /\ \A k \in 1 .. Len(sent'[f]) : Written(sent'[f][k], k)
               /\ \A p \in net'[f] : Carried(sent'[Peer(f)], p)
               /\ \A k \in 1 .. Len(pair'[f]) :
                    Carried(sent'[Peer(f)], pair'[f][k]) /\ Keeps(pair'[f][k])
    <2>1. Extends(sent[Peer(f)], sent'[Peer(f)]) /\ Extends(sent[f], sent'[f])
      BY Zenon, <1>1, <1>5 DEF SentGrows
    <2>2. \A k \in 1 .. Len(sent'[f]) : Written(sent'[f][k], k)
      BY Zenon, <1>1, <1>3, <1>7, <2>1 DEF Carriage, Extends
    <2>3. \A p \in net'[f] : p \in net[f] \/ (f = Peer(e) /\ p = seg)
      BY Zenon, <1>2
    <2>4. \A p \in net'[f] : Carried(sent'[Peer(f)], p)
      BY Zenon, <1>6, <2>1, <2>3, CarriedStays DEF Carriage
    <2>5. \A k \in 1 .. Len(pair'[f]) :
            Carried(sent'[Peer(f)], pair'[f][k]) /\ Keeps(pair'[f][k])
      BY Zenon, <1>2, <2>1, CarriedStays DEF Carriage
    <2> QED BY Zenon, <2>2, <2>4, <2>5
  <1> QED BY Zenon, <1>8 DEF Carriage

\* What is in the network or the pair of e is taken off, or the kernel's segment added.
LEMMA CarriageMoves ==
    ASSUME NumInv, Carriage, NEW e \in Ends, sent' = sent,
           \A f \in Ends \ {e} : net'[f] \subseteq net[f] /\ pair'[f] = pair[f],
           \A p \in net'[e] : p \in net[e] \/ p = Fin(e),
           \A k \in 1 .. Len(pair'[e]) :
             \/ \E j \in 1 .. Len(pair[e]) : pair'[e][k] = pair[e][j]
             \/ \E seg \in net[e] \cap Segments : Keeps(seg) /\ pair'[e][k] = Passed(seg)
    PROVE  Carriage'
  <1>1. ASSUME NEW seg \in net[e] \cap Segments, Keeps(seg)
        PROVE  Carried(sent[Peer(e)], Passed(seg)) /\ Keeps(Passed(seg))
    <2>1. /\ Passed(seg).len = seg.len /\ Passed(seg).id = seg.id
          /\ Passed(seg).cmd = seg.cmd /\ Passed(seg).close = seg.close
      BY Zenon, PassedFields
    <2>2. Carried(sent[Peer(e)], seg)
      BY Zenon DEF Carriage
    <2>3. Carried(sent[Peer(e)], Passed(seg))
      BY Zenon, <2>1, <2>2 DEF Carried, Same
    <2>4. Keeps(Passed(seg))
      BY Zenon, <1>1, <2>1 DEF Keeps
    <2> QED BY Zenon, <2>3, <2>4
  <1>2. Carried(sent[Peer(e)], Fin(e))
    BY Zenon DEF Carried, Fin
  <1>3. ASSUME NEW f \in Ends
        PROVE  /\ \A k \in 1 .. Len(sent'[f]) : Written(sent'[f][k], k)
               /\ \A p \in net'[f] : Carried(sent'[Peer(f)], p)
               /\ \A k \in 1 .. Len(pair'[f]) :
                    Carried(sent'[Peer(f)], pair'[f][k]) /\ Keeps(pair'[f][k])
    <2>1. CASE f # e
      BY Zenon, <2>1 DEF Carriage
    <2>2. CASE f = e
      <3>1. \A p \in net'[e] : Carried(sent[Peer(e)], p)
        BY Zenon, <1>2 DEF Carriage
      <3>2. ASSUME NEW k \in 1 .. Len(pair'[e])
            PROVE  Carried(sent[Peer(e)], pair'[e][k]) /\ Keeps(pair'[e][k])
        BY <1>1 DEF Carriage
      <3> QED BY Zenon, <2>2, <3>1, <3>2 DEF Carriage
    <2> QED BY Zenon, <2>1, <2>2
  <1> QED BY Zenon, <1>3 DEF Carriage


\* RawInput and syncInput, position by position.
LEMMA RawInputMoves ==
    ASSUME NumInv, NEW e \in Ends, NEW seg \in Segments, Keeps(seg),
           pair' = [pair EXCEPT ![e] = Append(pair[e], Passed(seg))]
    PROVE  /\ \A f \in Ends \ {e} : pair'[f] = pair[f]
           /\ Extends(pair[e], pair'[e])
           /\ Len(pair[e]) + 1 \in 1 .. Len(pair'[e])
           /\ pair'[e][Len(pair[e]) + 1] = Passed(seg)
           /\ \A k \in 1 .. Len(pair'[e]) :
                k \in 1 .. Len(pair[e]) \/ k = Len(pair[e]) + 1
  <1> DEFINE p == Passed(seg)
  <1>1. p \in Segments /\ pair \in [Ends -> Seq(Segments)]
    BY Zenon, PassedFields DEF NumInv, LinkTypeOK
  <1> HIDE DEF p
  <1>2. pair'[e] = Append(pair[e], p) /\ \A f \in Ends \ {e} : pair'[f] = pair[f]
    BY Zenon, <1>1 DEF p
  <1>3. pair[e] \in Seq(Segments)
    BY Zenon, <1>1
  <1>4. /\ Len(pair[e]) \in Nat /\ Len(pair'[e]) = Len(pair[e]) + 1
        /\ pair'[e][Len(pair[e]) + 1] = p
        /\ \A k \in 1 .. Len(pair[e]) : pair'[e][k] = pair[e][k]
    BY <1>1, <1>2, <1>3
  <1>5. /\ Len(pair[e]) + 1 \in 1 .. Len(pair'[e])
        /\ \A k \in 1 .. Len(pair[e]) : k \in 1 .. Len(pair'[e])
        /\ \A k \in 1 .. Len(pair'[e]) : k \in 1 .. Len(pair[e]) \/ k = Len(pair[e]) + 1
    BY <1>4
  <1> QED BY Zenon, <1>2, <1>4, <1>5 DEF Extends, p

LEMMA SyncInputMoves ==
    ASSUME NumInv, NEW e \in Ends, pair[e] # <<>>,
           pair' = [pair EXCEPT ![e] = Tail(pair[e])]
    PROVE  /\ \A f \in Ends \ {e} : pair'[f] = pair[f]
           /\ \A k \in 1 .. Len(pair'[e]) :
                k + 1 \in 1 .. Len(pair[e]) /\ pair'[e][k] = pair[e][k + 1]
           /\ \A j \in 1 .. Len(pair[e]) :
                \/ j = 1
                \/ j - 1 \in 1 .. Len(pair'[e]) /\ pair'[e][j - 1] = pair[e][j]
  <1>1. pair \in [Ends -> Seq(Segments)]
    BY Zenon DEF NumInv, LinkTypeOK
  <1>2. pair'[e] = Tail(pair[e]) /\ \A f \in Ends \ {e} : pair'[f] = pair[f]
    BY Zenon, <1>1
  <1>3. /\ Len(pair[e]) \in Nat \ {0} /\ Len(pair'[e]) = Len(pair[e]) - 1
        /\ \A k \in 1 .. Len(pair[e]) - 1 : pair'[e][k] = pair[e][k + 1]
    BY <1>2, PairHead
  <1>4. ASSUME NEW k \in 1 .. Len(pair'[e])
        PROVE  k + 1 \in 1 .. Len(pair[e]) /\ pair'[e][k] = pair[e][k + 1]
    BY <1>3
  <1>5. ASSUME NEW j \in 1 .. Len(pair[e]), j # 1
        PROVE  j - 1 \in 1 .. Len(pair'[e]) /\ pair'[e][j - 1] = pair[e][j]
    <2>1. j - 1 \in 1 .. Len(pair[e]) - 1 /\ (j - 1) + 1 = j
      BY <1>3, <1>5
    <2> QED BY Zenon, <1>3, <2>1
  <1> QED BY Zenon, <1>2, <1>4, <1>5

LEMMA CarriageNext ==
    ASSUME NumInv, Carriage, [LinkNext]_linkVars
    PROVE  Carriage'
  <1>0. net \in [Ends -> SUBSET Segments]
    BY Zenon DEF NumInv, LinkTypeOK
  <1>1. CASE UNCHANGED linkVars
    BY Zenon, <1>1, CarriageStays DEF linkVars
  <1>2. ASSUME NEW e \in Ends, Handshake(e) \/ NewFakeTcp(e) \/ FakeTcpInit(e)
        PROVE  Carriage'
    <2>1. sent' = sent /\ pair' = pair /\ net' = net
      BY Zenon, <1>2 DEF Handshake, NewFakeTcp, FakeTcpInit
    <2> QED BY Zenon, <2>1, CarriageStays
  <1>3. ASSUME NEW e \in Ends, NEW n \in DataLens, NEW cmd \in Cmds, Output(e, n, cmd)
        PROVE  Carriage'
    BY Zenon, <1>3, CarriageOutput
  <1>4. ASSUME NEW e \in Ends, KernelClose(e) PROVE Carriage'
    <2>1. /\ net'[e] = net[e] \cup {Fin(e)} /\ sent' = sent /\ pair' = pair
          /\ \A f \in Ends \ {e} : net'[f] = net[f]
      BY Zenon, <1>4, KernelCloseIs
    <2> QED BY Zenon, <2>1, CarriageMoves
  <1>5. ASSUME NEW e \in Ends, RawInput(e) PROVE Carriage'
    <2>1. PICK seg \in Segments :
            /\ Takes(e, seg)
            /\ Keeps(seg) => pair' = [pair EXCEPT ![e] = Append(pair[e], Passed(seg))]
            /\ ~Keeps(seg) => pair' = pair
      BY Zenon, <1>5, RawInputIs
    <2>2. sent' = sent /\ seg \in net[e] /\ \A f \in Ends : net'[f] \subseteq net[f]
      BY Zenon, <1>0, <2>1 DEF Takes
    <2>3. CASE ~Keeps(seg)
      BY Zenon, <2>1, <2>2, <2>3, CarriageStays
    <2>4. CASE Keeps(seg)
      <3>1. /\ \A f \in Ends \ {e} : pair'[f] = pair[f]
            /\ \A k \in 1 .. Len(pair'[e]) :
                 \/ \E j \in 1 .. Len(pair[e]) : pair'[e][k] = pair[e][j]
                 \/ pair'[e][k] = Passed(seg)
        BY Zenon, <2>1, <2>4, RawInputMoves DEF Extends
      <3> QED BY Zenon, <2>2, <2>4, <3>1, CarriageMoves
    <2> QED BY Zenon, <2>3, <2>4
  <1>6. ASSUME NEW e \in Ends, RawInputFailed(e) \/ Lose(e) PROVE Carriage'
    <2>1. PICK seg \in Segments : Takes(e, seg) /\ pair' = pair
      BY Zenon, <1>6, LossIs
    <2>2. sent' = sent /\ \A f \in Ends : net'[f] \subseteq net[f]
      BY Zenon, <1>0, <2>1 DEF Takes
    <2> QED BY Zenon, <2>1, <2>2, CarriageStays
  <1>7. ASSUME NEW e \in Ends, syncInput(e) PROVE Carriage'
    <2>1. /\ pair[e] # <<>> /\ pair' = [pair EXCEPT ![e] = Tail(pair[e])]
          /\ sent' = sent /\ net' = net
      BY Zenon, <1>7, SyncInputIs
    <2>2. /\ \A f \in Ends \ {e} : pair'[f] = pair[f]
          /\ \A k \in 1 .. Len(pair'[e]) : \E j \in 1 .. Len(pair[e]) : pair'[e][k] = pair[e][j]
      BY <2>1, SyncInputMoves
    <2> QED BY Zenon, <2>1, <2>2, CarriageMoves
  <1> QED BY Zenon, <1>1, <1>2, <1>3, <1>4, <1>5, <1>6, <1>7, FakeSteps

LEMMA CarriageInit == LinkInit => Carriage
  BY DEF LinkInit, Carriage

\* Every segment on the network and every packet of a pair is the kernel's or one the
\* peer wrote.
LEMMA CarriageInvariant == LinkSpec => []Carriage
  <1>1. NumInv /\ Carriage /\ [LinkNext]_linkVars => Carriage'
    BY Zenon, CarriageNext
  <1> QED BY <1>1, CarriageInit, NumInvariant, PTL DEF LinkSpec

-----------------------------------------------------------------------------
\* What is handed up: a packet the peer wrote, without hash and head.
LEMMA IntactStays ==
    ASSUME DeliveredIntact, SentGrows, got' = got, sameKey' = sameKey
    PROVE  DeliveredIntact'
  <1>1. ASSUME NEW e \in Ends, NEW g \in got[e]
        PROVE  sameKey /\ \E k \in 1 .. Len(sent'[Peer(e)]) :
                 g = [id |-> sent'[Peer(e)][k].id, len |-> sent'[Peer(e)][k].len - HEAD_SIZE,
                      cmd |-> sent'[Peer(e)][k].cmd]
    <2>1. Extends(sent[Peer(e)], sent'[Peer(e)])
      BY Zenon, PeerFacts DEF SentGrows
    <2>2. sameKey /\ \E k \in 1 .. Len(sent[Peer(e)]) :
            g = [id |-> sent[Peer(e)][k].id, len |-> sent[Peer(e)][k].len - HEAD_SIZE,
                 cmd |-> sent[Peer(e)][k].cmd]
      BY Zenon DEF DeliveredIntact
    <2> QED BY Zenon, <2>1, <2>2 DEF Extends
  <1> QED BY Zenon, <1>1 DEF DeliveredIntact, Peer, HEAD_SIZE

\* The head of a pair: a packet that the peer wrote, or the kernel's segment.
LEMMA HeadOfPair ==
    ASSUME NumInv, Carriage, NEW e \in Ends, pair[e] # <<>>
    PROVE  LET p == Head(pair[e])
           IN  \/ p.close /\ ~IsPacket(p.len)
               \/ /\ ~p.close /\ IsPacket(p.len)
                  /\ \E k \in 1 .. Len(sent[Peer(e)]) : Same(p, sent[Peer(e)][k])
  <1> DEFINE p == Head(pair[e])
  <1>1. Carried(sent[Peer(e)], p)
    BY PairHead DEF Carriage
  <1> HIDE DEF p
  <1>2. ~IsPacket(0)
    <2>1. HASH_BUF_SIZE \in Nat /\ ENC_SIZE \in Nat
      BY Zenon, SizesAssumption
    <2> QED BY <2>1 DEF IsPacket
  <1>3. ASSUME NEW k \in 1 .. Len(sent[Peer(e)]), Same(p, sent[Peer(e)][k])
        PROVE  ~p.close /\ IsPacket(p.len)
    <2>1. Written(sent[Peer(e)][k], k)
      BY Zenon, PeerFacts DEF Carriage
    <2> QED BY Zenon, <1>3, <2>1 DEF Same, Written
  <1>4. \/ p.close /\ ~IsPacket(p.len)
        \/ /\ ~p.close /\ IsPacket(p.len)
           /\ \E k \in 1 .. Len(sent[Peer(e)]) : Same(p, sent[Peer(e)][k])
    BY Zenon, <1>1, <1>2, <1>3 DEF Carried
  <1> QED BY Zenon, <1>4 DEF p

LEMMA IntactSync ==
    ASSUME NumInv, Carriage, DeliveredIntact, NEW e \in Ends,
           syncInput(e), sameKey' = sameKey
    PROVE  DeliveredIntact'
  <1> DEFINE p == Head(pair[e])
             g1 == [id |-> p.id, len |-> Stripped(p.len), cmd |-> p.cmd]
  <1>1. pair[e] # <<>> /\ sent' = sent /\ Received(e, p)
    BY Zenon, SyncInputIs
  <1>2. SentGrows
    BY Zenon, <1>1 DEF SentGrows, Extends
  <1>3. CASE got' = got
    BY Zenon, <1>2, <1>3, IntactStays
  <1>4. CASE IsPacket(p.len) /\ sameKey /\ got' = [got EXCEPT ![e] = got[e] \cup {g1}]
    <2>1. PICK k \in 1 .. Len(sent[Peer(e)]) : Same(p, sent[Peer(e)][k])
      BY Zenon, <1>1, <1>4, HeadOfPair
    <2>2. g1 = [id |-> sent[Peer(e)][k].id, len |-> sent[Peer(e)][k].len - HEAD_SIZE,
                cmd |-> sent[Peer(e)][k].cmd]
      <3>1. /\ p.id = sent[Peer(e)][k].id /\ p.len = sent[Peer(e)][k].len
            /\ p.cmd = sent[Peer(e)][k].cmd
        BY Zenon, <2>1 DEF Same
      <3>2. Stripped(p.len) = p.len - HEAD_SIZE
        <4>1. HASH_BUF_SIZE + ENC_SIZE = ENC_SIZE + HASH_BUF_SIZE
          BY SizesAssumption
        <4> QED BY <4>1, Zenon DEF Stripped, HEAD_SIZE
      <3> QED BY <3>1, <3>2, Zenon
    <2>3. DOMAIN got = Ends
      BY Zenon DEF NumInv, LinkTypeOK
    <2> HIDE DEF g1
    <2>4. got'[e] = got[e] \cup {g1} /\ \A f \in Ends \ {e} : got'[f] = got[f]
      BY Zenon, <1>4, <2>3
    <2>5. ASSUME NEW f \in Ends, NEW g \in got'[f]
          PROVE  sameKey /\ \E j \in 1 .. Len(sent[Peer(f)]) :
                   g = [id |-> sent[Peer(f)][j].id, len |-> sent[Peer(f)][j].len - HEAD_SIZE,
                        cmd |-> sent[Peer(f)][j].cmd]
      <3>1. CASE f = e /\ g = g1
        BY Zenon, <1>4, <2>1, <2>2, <3>1
      <3>2. CASE g \in got[f]
        BY Zenon, <3>2 DEF DeliveredIntact
      <3> QED BY Zenon, <2>4, <3>1, <3>2
    <2> QED BY <1>1, <2>5 DEF DeliveredIntact, Peer, HEAD_SIZE
  <1> QED BY Zenon, <1>1, <1>3, <1>4 DEF Received

\* DeliveredIntact for any sizes and any number of packets: OnRecv's length test and
\* the bytes it takes off are those RConn::Output put in front.
THEOREM FakeTcpDeliveredIntact == LinkSpec => []DeliveredIntact
  <1>1. LinkInit => DeliveredIntact
    BY Zenon DEF LinkInit, DeliveredIntact
  <1>2. ASSUME NumInv, Carriage, DeliveredIntact, [LinkNext]_linkVars PROVE DeliveredIntact'
    <2>1. sameKey' = sameKey
      BY Zenon, <1>2, FakeSteps
    <2>2. sent' = sent => SentGrows
      BY Zenon DEF SentGrows, Extends
    <2>3. ASSUME sent' = sent, got' = got PROVE DeliveredIntact'
      BY Zenon, <1>2, <2>1, <2>2, <2>3, IntactStays
    <2>4. CASE UNCHANGED linkVars
      BY Zenon, <2>3, <2>4 DEF linkVars
    <2>5. ASSUME NEW e \in Ends, Handshake(e) \/ NewFakeTcp(e) \/ FakeTcpInit(e)
          PROVE  DeliveredIntact'
      <3>1. sent' = sent /\ got' = got
        BY Zenon, <2>5 DEF Handshake, NewFakeTcp, FakeTcpInit
      <3> QED BY Zenon, <2>3, <3>1
    <2>6. ASSUME NEW e \in Ends, NEW n \in DataLens, NEW cmd \in Cmds, Output(e, n, cmd)
          PROVE  DeliveredIntact'
      <3>1. SentGrows /\ got' = got
        BY <1>2, <2>6, OutputGrows, OutputIs
      <3> QED BY Zenon, <1>2, <2>1, <3>1, IntactStays
    <2>7. ASSUME NEW e \in Ends,
                 KernelClose(e) \/ RawInput(e) \/ RawInputFailed(e) \/ Lose(e)
          PROVE  DeliveredIntact'
      <3>1. sent' = sent /\ got' = got
        BY Zenon, <2>7 DEF KernelClose, RawInput, RawInputFailed, Lose
      <3> QED BY Zenon, <2>3, <3>1
    <2>8. ASSUME NEW e \in Ends, syncInput(e) PROVE DeliveredIntact'
      BY Zenon, <1>2, <2>1, <2>8, IntactSync
    <2> QED BY Zenon, <1>2, <2>4, <2>5, <2>6, <2>7, <2>8, FakeSteps
  <1>3. NumInv /\ Carriage /\ DeliveredIntact /\ [LinkNext]_linkVars => DeliveredIntact'
    BY Zenon, <1>2
  <1> QED BY <1>1, <1>3, NumInvariant, CarriageInvariant, PTL DEF LinkSpec

-----------------------------------------------------------------------------
\* No packet that leaves room for the two addresses is dropped.
LEMMA SomewhereStays ==
    ASSUME NEW ns, NEW mt, NEW q, NEW r, NEW gs, NEW hs, NEW k,
           ns \subseteq mt, Extends(q, r), gs \subseteq hs, Somewhere(ns, q, gs, k)
    PROVE  Somewhere(mt, r, hs, k)
  BY Zenon DEF Somewhere, Extends

LEMMA FinSomewhereStays ==
    ASSUME NEW ns, NEW mt, NEW q, NEW r, NEW b,
           ns \subseteq mt, Extends(q, r), FinSomewhere(ns, q, b)
    PROVE  FinSomewhere(mt, r, b)
  BY Zenon DEF FinSomewhere, Extends

\* An end for which the step does nothing but, perhaps, put something on the network.
LEMMA ReachesStays ==
    ASSUME NEW e \in Ends, Reaches(e), sameKey' = sameKey, net[e] \subseteq net'[e],
           pair'[e] = pair[e], got'[e] = got[e], finSeen'[e] = finSeen[e],
           closed'[e] => closed[e] \/ FinSomewhere(net'[e], pair'[e], finSeen'[e]),
           \A k \in 1 .. Len(sent'[Peer(e)]) :
             \/ k \in 1 .. Len(sent[Peer(e)]) /\ sent'[Peer(e)][k] = sent[Peer(e)][k]
             \/ Somewhere(net'[e], pair'[e], got'[e], k)
    PROVE  Reaches(e)'
  <1>1. Extends(pair[e], pair'[e])
    BY Zenon DEF Extends
  <1>4. \A k \in 1 .. Len(sent[Peer(e)]) :
          sameKey /\ Room(sent[Peer(e)][k]) => Somewhere(net[e], pair[e], got[e], k)
    BY Zenon DEF Reaches
  <1>2. ASSUME NEW k \in 1 .. Len(sent'[Peer(e)]), sameKey, Room(sent'[Peer(e)][k])
        PROVE  Somewhere(net'[e], pair'[e], got'[e], k)
    <2>1. CASE k \in 1 .. Len(sent[Peer(e)]) /\ sent'[Peer(e)][k] = sent[Peer(e)][k]
      <3>1. Somewhere(net[e], pair[e], got[e], k)
        <4>1. Room(sent[Peer(e)][k])
          BY Zenon, <1>2, <2>1
        <4>2. k \in 1 .. Len(sent[Peer(e)]) /\ sameKey
          BY Zenon, <1>2, <2>1
        <4> QED BY Zenon, <1>4, <4>1, <4>2
      <3> QED BY Zenon, <1>1, <3>1, SomewhereStays
    <2> QED BY Zenon, <2>1
  <1>3. ASSUME closed'[e] PROVE FinSomewhere(net'[e], pair'[e], finSeen'[e])
    <2>1. CASE closed[e]
      <3>1. FinSomewhere(net[e], pair[e], finSeen[e])
        BY Zenon, <2>1 DEF Reaches
      <3> QED BY Zenon, <1>1, <3>1, FinSomewhereStays
    <2> QED BY Zenon, <1>3, <2>1
  <1> QED BY Zenon, <1>2, <1>3 DEF Reaches, Room, Peer

LEMMA ReachesOutput ==
    ASSUME NumInv, NEW e \in Ends, NEW n \in DataLens, NEW cmd \in Cmds,
           Output(e, n, cmd), sameKey' = sameKey, NEW f \in Ends, Reaches(f)
    PROVE  Reaches(f)'
  <1> DEFINE seg == Seg(e, n, cmd)
             k1 == Len(sent[e]) + 1
  <1>1. /\ Len(sent[e]) \in Nat /\ Len(sent'[e]) = k1 /\ Extends(sent[e], sent'[e])
        /\ \A h \in Ends \ {e} : sent'[h] = sent[h]
    <2>1. /\ SentGrows /\ Len(sent[e]) \in Nat /\ Len(sent'[e]) = k1
          /\ \A h \in Ends \ {e} : sent'[h] = sent[h]
      BY Zenon, OutputGrows
    <2> QED BY Zenon, <2>1 DEF SentGrows
  <1>2. /\ net'[Peer(e)] = net[Peer(e)] \cup {seg}
        /\ \A h \in Ends \ {Peer(e)} : net'[h] = net[h]
        /\ UNCHANGED <<pair, got, closed, finSeen>>
    <2>1. LinkTypeOK
      BY Zenon DEF NumInv
    <2>2. seg \in Segments /\ net' = Wire(e, seg) /\ UNCHANGED <<pair, got, closed, finSeen>>
      BY Zenon, OutputIs
    <2>3. /\ Wire(e, seg)[Peer(e)] = net[Peer(e)] \cup {seg}
          /\ \A h \in Ends \ {Peer(e)} : Wire(e, seg)[h] = net[h]
      <3> HIDE DEF seg
      <3> QED BY Zenon, <2>1, <2>2, WireReaches
    <2> HIDE DEF seg
    <2> QED BY Zenon, <2>2, <2>3
  <1>3. seg.id = k1 /\ seg.close = FALSE
    BY Zenon DEF Seg
  <1> HIDE DEF seg
  <1>4. \A k \in 1 .. Len(sent'[e]) : k \in 1 .. Len(sent[e]) \/ k = k1
    BY <1>1
  <1> HIDE DEF k1
  <1>5. net[f] \subseteq net'[f]
    BY Zenon, <1>2
  <1>6. CASE f = Peer(e)
    <2>1. Peer(f) = e
      BY Zenon, <1>6, PeerFacts
    <2>2. Somewhere(net'[f], pair'[f], got'[f], k1)
      BY Zenon, <1>2, <1>3, <1>6 DEF Somewhere
    <2> QED BY Zenon, <1>1, <1>2, <1>4, <1>5, <2>1, <2>2, ReachesStays DEF Extends
  <1>7. CASE f # Peer(e)
    <2>1. Peer(f) \in Ends \ {e}
      BY Zenon, <1>7, PeerFacts
    <2> QED BY Zenon, <1>1, <1>2, <1>5, <2>1, ReachesStays
  <1> QED BY Zenon, <1>6, <1>7

LEMMA ReachesClose ==
    ASSUME NumInv, NEW e \in Ends, KernelClose(e), sameKey' = sameKey,
           NEW f \in Ends, Reaches(f)
    PROVE  Reaches(f)'
  <1>1. /\ net'[e] = net[e] \cup {Fin(e)} /\ \A h \in Ends \ {e} : net'[h] = net[h]
        /\ closed' = [closed EXCEPT ![e] = TRUE]
        /\ UNCHANGED <<sent, pair, got, finSeen>>
    BY Zenon, KernelCloseIs
  <1>2. closed \in [Ends -> BOOLEAN]
    BY Zenon DEF NumInv, LinkTypeOK
  <1>3. closed'[f] => closed[f] \/ f = e
    BY Zenon, <1>1, <1>2
  <1>4. FinSomewhere(net'[e], pair'[e], finSeen'[e])
    <2>1. Fin(e).close = TRUE
      BY Zenon DEF Fin
    <2>2. Fin(e) \in net'[e]
      BY Zenon, <1>1
    <2> QED BY <2>1, <2>2, Zenon DEF FinSomewhere
  <1> QED BY Zenon, <1>1, <1>3, <1>4, ReachesStays


\* A segment of the network that RawInput takes is kept if it is to reach the end.
LEMMA KeptIfNeeded ==
    ASSUME NumInv, Carriage, NEW e \in Ends, NEW seg \in net[e]
    PROVE  /\ seg.close => Keeps(seg)
           /\ ~seg.close => /\ seg.id \in 1 .. Len(sent[Peer(e)])
                            /\ Room(sent[Peer(e)][seg.id]) => Keeps(seg)
  <1>1. /\ HASH_BUF_SIZE \in Nat /\ ENC_SIZE \in Nat \ {0} /\ SA4_SIZES \in Nat
        /\ SA4_SIZES <= OM_MAX_PKT_SIZE /\ OM_MAX_PKT_SIZE \in Nat
    BY Zenon, SizesAssumption
  <1>2. Carried(sent[Peer(e)], seg)
    BY Zenon DEF Carriage
  <1>3. CASE seg.close /\ seg.len = 0
    <2>1. 0 + SA4_SIZES <= OM_MAX_PKT_SIZE
      BY <1>1
    <2> QED BY <1>3, <2>1, Zenon DEF Keeps
  <1>4. ASSUME NEW k \in 1 .. Len(sent[Peer(e)]), Same(seg, sent[Peer(e)][k])
        PROVE  ~seg.close /\ seg.id = k /\ (Room(sent[Peer(e)][k]) => Keeps(seg))
    <2> DEFINE s == sent[Peer(e)][k]
    <2>1. Written(s, k)
      BY Zenon, PeerFacts DEF Carriage
    <2>2. s \in Segments
      <3>1. sent[Peer(e)] \in Seq(Segments)
        BY Zenon, PeerFacts DEF NumInv, LinkTypeOK
      <3> QED BY <3>1
    <2>3. s.len \in Nat
      BY <2>2, <1>1 DEF Segments
    <2>4. /\ ~seg.close /\ seg.id = s.id /\ seg.len = s.len
          /\ s.id = k /\ IsPacket(s.len)
      BY <1>4, <2>1, Zenon DEF Same, Written
    <2> HIDE DEF s
    <2>5. s.len >= HASH_BUF_SIZE + 1
      BY <1>1, <2>3, <2>4 DEF IsPacket
    <2>6. Room(s) => Keeps(seg)
      BY Zenon, <2>4, <2>5 DEF Room, Keeps
    <2> QED BY Zenon, <2>4, <2>6 DEF s
  <1> QED BY Zenon, <1>2, <1>3, <1>4 DEF Carried

LEMMA ReachesRaw ==
    ASSUME NumInv, Carriage, NEW e \in Ends, RawInput(e),
           sameKey' = sameKey, NEW f \in Ends, Reaches(f)
    PROVE  Reaches(f)'
  <1>1. PICK seg \in Segments :
          /\ Takes(e, seg)
          /\ Keeps(seg) => pair' = [pair EXCEPT ![e] = Append(pair[e], Passed(seg))]
          /\ ~Keeps(seg) => pair' = pair
    BY Zenon, RawInputIs
  <1>2. /\ seg \in net[e] /\ net'[e] = net[e] \ {seg}
        /\ \A h \in Ends \ {e} : net'[h] = net[h]
        /\ UNCHANGED <<sent, got, closed, finSeen>>
    BY Zenon, <1>1 DEF Takes, NumInv, LinkTypeOK
  <1>3. \A h \in Ends \ {e} : pair'[h] = pair[h]
    BY Zenon, <1>1, RawInputMoves
  <1>4. CASE f # e
    BY Zenon, <1>2, <1>3, <1>4, ReachesStays
  <1>5. CASE f = e
    <2>1. Extends(pair[e], pair'[e])
      BY Zenon, <1>1, RawInputMoves DEF Extends
    <2>2. /\ Passed(seg).id = seg.id /\ Passed(seg).close = seg.close
      BY Zenon, PassedFields
    <2>3. Keeps(seg) => \E j \in 1 .. Len(pair'[e]) : pair'[e][j].id = seg.id
                                                    /\ pair'[e][j].close = seg.close
      BY <1>1, <2>2, RawInputMoves
    <2>4. ASSUME NEW k \in 1 .. Len(sent[Peer(e)]), sameKey, Room(sent[Peer(e)][k])
          PROVE  Somewhere(net'[e], pair'[e], got'[e], k)
      <3>1. Somewhere(net[e], pair[e], got[e], k)
        BY Zenon, <1>5, <2>4 DEF Reaches
      <3>2. CASE \E p \in net[e] : p.id = k /\ ~p.close
        <4>1. PICK p \in net[e] : p.id = k /\ ~p.close
          BY Zenon, <3>2
        <4>2. CASE p = seg
          <5>1. Keeps(seg)
            BY Zenon, <1>2, <2>4, <4>1, <4>2, KeptIfNeeded
          <5> QED BY <2>3, <4>1, <4>2, <5>1, Zenon DEF Somewhere
        <4>3. CASE p # seg
          <5>1. p \in net'[e]
            BY Zenon, <1>2, <4>3
          <5> QED BY <4>1, <5>1, Zenon DEF Somewhere
        <4> QED BY Zenon, <4>2, <4>3
      <3>3. CASE \E j \in 1 .. Len(pair[e]) : pair[e][j].id = k /\ ~pair[e][j].close
        BY <2>1, <3>3, Zenon DEF Somewhere, Extends
      <3>4. CASE \E g \in got[e] : g.id = k
        BY <1>2, <3>4, Zenon DEF Somewhere
      <3> QED BY <3>1, <3>2, <3>3, <3>4, Zenon DEF Somewhere
    <2>5. ASSUME closed[e] PROVE FinSomewhere(net'[e], pair'[e], finSeen'[e])
      <3>1. FinSomewhere(net[e], pair[e], finSeen[e])
        BY Zenon, <1>5, <2>5 DEF Reaches
      <3>2. CASE \E p \in net[e] : p.close
        <4>1. PICK p \in net[e] : p.close
          BY Zenon, <3>2
        <4>2. CASE p = seg
          <5>1. Keeps(seg)
            BY Zenon, <1>2, <4>1, <4>2, KeptIfNeeded
          <5> QED BY <2>3, <4>1, <4>2, <5>1, Zenon DEF FinSomewhere
        <4>3. CASE p # seg
          <5>1. p \in net'[e]
            BY Zenon, <1>2, <4>3
          <5> QED BY <4>1, <5>1, Zenon DEF FinSomewhere
        <4> QED BY Zenon, <4>2, <4>3
      <3>3. CASE \E j \in 1 .. Len(pair[e]) : pair[e][j].close
        BY <2>1, <3>3, Zenon DEF FinSomewhere, Extends
      <3>4. CASE finSeen[e]
        BY <1>2, <3>4, Zenon DEF FinSomewhere
      <3> QED BY <3>1, <3>2, <3>3, <3>4, Zenon DEF FinSomewhere
    <2> QED BY Zenon, <1>2, <1>5, <2>4, <2>5 DEF Reaches, Room, Peer
  <1> QED BY Zenon, <1>4, <1>5


LEMMA ReachesSync ==
    ASSUME NumInv, Carriage, NEW e \in Ends, syncInput(e),
           sameKey' = sameKey, NEW f \in Ends, Reaches(f)
    PROVE  Reaches(f)'
  <1> DEFINE p == Head(pair[e])
             g1 == [id |-> p.id, len |-> Stripped(p.len), cmd |-> p.cmd]
  <1>1. /\ pair[e] # <<>> /\ pair' = [pair EXCEPT ![e] = Tail(pair[e])]
        /\ Received(e, p)
        /\ UNCHANGED <<sent, net, closed>>
    BY Zenon, SyncInputIs
  <1>2. DOMAIN got = Ends /\ finSeen \in [Ends -> BOOLEAN]
    BY Zenon DEF NumInv, LinkTypeOK
  <1>3. p = pair[e][1]
    BY Zenon, <1>1, PairHead
  <1>4. /\ \A h \in Ends \ {e} : pair'[h] = pair[h]
        /\ \A j \in 1 .. Len(pair[e]) :
             \/ pair[e][j] = p
             \/ \E i \in 1 .. Len(pair'[e]) : pair'[e][i] = pair[e][j]
    BY <1>1, <1>3, SyncInputMoves
  <1>5. /\ p.close => ~IsPacket(p.len)
        /\ ~p.close => IsPacket(p.len)
    BY Zenon, <1>1, HeadOfPair
  <1>6. g1.id = p.id
    BY Zenon
  <1> HIDE DEF g1, p
  <1>7. \/ /\ IsPacket(p.len) /\ sameKey /\ finSeen' = finSeen
           /\ got' = [got EXCEPT ![e] = got[e] \cup {g1}]
        \/ IsPacket(p.len) /\ ~sameKey /\ got' = got /\ finSeen' = finSeen
        \/ ~IsPacket(p.len) /\ got' = got /\ finSeen' = [finSeen EXCEPT ![e] = finSeen[e] \/ p.close]
    BY <1>1, Zenon DEF Received, g1
  <1>8. /\ \A h \in Ends \ {e} : got'[h] = got[h] /\ finSeen'[h] = finSeen[h]
        /\ got[e] \subseteq got'[e]
        /\ IsPacket(p.len) /\ sameKey => g1 \in got'[e]
    BY Zenon, <1>2, <1>7
  <1>9. (finSeen[e] => finSeen'[e]) /\ (~IsPacket(p.len) /\ p.close => finSeen'[e])
    BY Zenon, <1>2, <1>7
  <1>10. CASE f # e
    BY Zenon, <1>1, <1>4, <1>8, <1>10, ReachesStays
  <1>11. CASE f = e
    <2>1. ASSUME NEW k \in 1 .. Len(sent[Peer(e)]), sameKey, Room(sent[Peer(e)][k])
          PROVE  Somewhere(net[e], pair'[e], got'[e], k)
      <3>1. Somewhere(net[e], pair[e], got[e], k)
        BY <1>11, <2>1, Zenon DEF Reaches
      <3>2. CASE \E j \in 1 .. Len(pair[e]) : pair[e][j].id = k /\ ~pair[e][j].close
        <4>1. PICK j \in 1 .. Len(pair[e]) : pair[e][j].id = k /\ ~pair[e][j].close
          BY Zenon, <3>2
        <4>2. CASE pair[e][j] = p
          <5>1. g1 \in got'[e] /\ g1.id = k
            BY <1>5, <1>6, <1>8, <2>1, <4>1, <4>2, Zenon
          <5> QED BY <5>1, Zenon DEF Somewhere
        <4>3. CASE \E i \in 1 .. Len(pair'[e]) : pair'[e][i] = pair[e][j]
          BY <4>1, <4>3, Zenon DEF Somewhere
        <4> QED BY <1>4, <4>2, <4>3, Zenon
      <3>3. CASE \E q \in net[e] : q.id = k /\ ~q.close
        BY <3>3, Zenon DEF Somewhere
      <3>4. CASE \E g \in got[e] : g.id = k
        BY <1>8, <3>4, Zenon DEF Somewhere
      <3> QED BY <3>1, <3>2, <3>3, <3>4, Zenon DEF Somewhere
    <2>2. ASSUME closed[e] PROVE FinSomewhere(net[e], pair'[e], finSeen'[e])
      <3>1. FinSomewhere(net[e], pair[e], finSeen[e])
        BY <1>11, <2>2, Zenon DEF Reaches
      <3>2. CASE \E j \in 1 .. Len(pair[e]) : pair[e][j].close
        <4>1. PICK j \in 1 .. Len(pair[e]) : pair[e][j].close
          BY Zenon, <3>2
        <4>2. CASE pair[e][j] = p
          BY <1>5, <1>9, <4>1, <4>2, Zenon DEF FinSomewhere
        <4>3. CASE \E i \in 1 .. Len(pair'[e]) : pair'[e][i] = pair[e][j]
          BY <4>1, <4>3, Zenon DEF FinSomewhere
        <4> QED BY <1>4, <4>2, <4>3, Zenon
      <3>3. CASE (\E q \in net[e] : q.close) \/ finSeen[e]
        BY <1>9, <3>3, Zenon DEF FinSomewhere
      <3> QED BY <3>1, <3>2, <3>3, Zenon DEF FinSomewhere
    <2> QED BY Zenon, <1>1, <1>11, <2>1, <2>2 DEF Reaches, Room, Peer
  <1> QED BY Zenon, <1>10, <1>11

LEMMA NothingDroppedNext ==
    ASSUME NumInv, Carriage, NothingDropped, [LinkNext]_linkVars
    PROVE  NothingDropped'
  <1>0. sameKey' = sameKey
    BY Zenon, FakeSteps
  <1>1. (~lost' => \A e \in Ends : Reaches(e)') => NothingDropped'
    BY Zenon DEF NothingDropped, Reaches, Room, Peer
  <1> SUFFICES ASSUME ~lost' PROVE \A f \in Ends : Reaches(f)'
    BY Zenon, <1>1
  <1>2. ~lost => \A f \in Ends : Reaches(f)
    BY Zenon DEF NothingDropped
  <1>3. ASSUME lost' = lost, UNCHANGED <<sent, net, pair, got, closed, finSeen>>
        PROVE  \A f \in Ends : Reaches(f)'
    BY Zenon, <1>0, <1>2, <1>3, ReachesStays
  <1>4. CASE UNCHANGED linkVars
    BY Zenon, <1>3, <1>4 DEF linkVars
  <1>5. ASSUME NEW e \in Ends, Handshake(e) \/ NewFakeTcp(e) \/ FakeTcpInit(e)
        PROVE  \A f \in Ends : Reaches(f)'
    <2>1. lost' = lost /\ UNCHANGED <<sent, net, pair, got, closed, finSeen>>
      BY Zenon, <1>5 DEF Handshake, NewFakeTcp, FakeTcpInit
    <2> QED BY Zenon, <1>3, <2>1
  <1>6. ASSUME NEW e \in Ends, NEW n \in DataLens, NEW cmd \in Cmds, Output(e, n, cmd)
        PROVE  \A f \in Ends : Reaches(f)'
    <2>1. lost' = lost
      BY Zenon, <1>6, OutputIs
    <2> QED BY Zenon, <1>0, <1>2, <1>6, <2>1, ReachesOutput
  <1>7. ASSUME NEW e \in Ends, KernelClose(e) \/ RawInput(e) \/ syncInput(e)
        PROVE  \A f \in Ends : Reaches(f)'
    <2>1. lost' = lost
      BY Zenon, <1>7 DEF KernelClose, RawInput, syncInput
    <2>2. \A f \in Ends : Reaches(f)
      BY Zenon, <1>2, <2>1
    <2>3. CASE KernelClose(e)
      BY Zenon, <1>0, <2>2, <2>3, ReachesClose
    <2>4. CASE RawInput(e)
      BY Zenon, <1>0, <2>2, <2>4, ReachesRaw
    <2>5. CASE syncInput(e)
      BY Zenon, <1>0, <2>2, <2>5, ReachesSync
    <2> QED BY Zenon, <1>7, <2>3, <2>4, <2>5
  <1>8. ASSUME NEW e \in Ends PROVE ~(RawInputFailed(e) \/ Lose(e))
    BY Zenon, LossIs
  <1> QED BY Zenon, <1>4, <1>5, <1>6, <1>7, <1>8, FakeSteps

\* LengthChecksExact for any sizes and any number of packets: RawInput, cap2uv and
\* OnRecv drop no packet that leaves room for the addresses, and none overruns.
THEOREM FakeTcpLengthChecksExact == LinkSpec => []LengthChecksExact
  <1>1. LinkInit => NothingDropped
    <2> SUFFICES ASSUME LinkInit PROVE NothingDropped
      BY Zenon
    <2>1. ASSUME NEW e \in Ends
          PROVE  1 .. Len(sent[Peer(e)]) = {} /\ closed[e] = FALSE
      BY PeerFacts DEF LinkInit
    <2>2. \A e \in Ends : Reaches(e)
      BY <2>1, Zenon DEF Reaches
    <2> QED BY Zenon, <2>2 DEF NothingDropped
  <1>2. NumInv /\ Carriage /\ NothingDropped /\ [LinkNext]_linkVars => NothingDropped'
    BY Zenon, NothingDroppedNext
  <1>3. ASSUME NumInv, Carriage, NothingDropped PROVE LengthChecksExact
    <2>1. INFO_SIZE \in Nat /\ SA4_SIZES \in Nat /\ INFO_SIZE <= SA4_SIZES /\ OM_MAX_PKT_SIZE \in Nat
      BY Zenon, SizesAssumption
    <2>2. ASSUME NEW e \in Ends, NEW k \in 1 .. Len(pair[e])
          PROVE  INFO_SIZE + pair[e][k].len <= OM_MAX_PKT_SIZE
      <3> DEFINE p == pair[e][k]
      <3>1. pair[e] \in Seq(Segments)
        BY Zenon, <1>3 DEF NumInv, LinkTypeOK
      <3>2. p \in Segments
        BY <3>1
      <3>3. p.len + SA4_SIZES <= OM_MAX_PKT_SIZE
        BY Zenon, <1>3 DEF Carriage, Keeps
      <3>4. p.len \in Nat
        BY <2>1, <3>2 DEF Segments
      <3> HIDE DEF p
      <3>5. INFO_SIZE + p.len <= OM_MAX_PKT_SIZE
        BY <2>1, <3>3, <3>4
      <3> QED BY Zenon, <3>5 DEF p
    <2>3. ASSUME NEW e \in Ends, ~lost, net[e] = {}, pair[e] = <<>>
          PROVE  /\ \A k \in 1 .. Len(sent[Peer(e)]) :
                      sameKey /\ sent[Peer(e)][k].len + SA4_SIZES <= OM_MAX_PKT_SIZE =>
                        \E g \in got[e] : g.id = k
                 /\ closed[e] => finSeen[e]
      <3>1. 1 .. Len(pair[e]) = {}
        BY <2>3
      <3>2. Reaches(e)
        BY Zenon, <1>3, <2>3 DEF NothingDropped
      <3> QED BY Zenon, <2>3, <3>1, <3>2 DEF Reaches, Room, Somewhere, FinSomewhere
    <2> QED BY Zenon, <2>2, <2>3 DEF LengthChecksExact
  <1>4. NumInv /\ Carriage /\ NothingDropped => LengthChecksExact
    BY Zenon, <1>3
  <1> QED BY <1>1, <1>2, <1>4, NumInvariant, CarriageInvariant, PTL DEF LinkSpec
=============================================================================
