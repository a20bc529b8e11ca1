-------------------------- MODULE ServerNetProofs --------------------------
(***************************************************************************)
(* Proofs about ServerNet for any number of keys, connections per key and  *)
(* packets under way: the variables keep their types, no wake-up is lost,  *)
(* and every open socket of a key whose peer resets no connection has      *)
(* exactly one owner.                                                      *)
(*                                                                         *)
(* The second part is about the conversations that run over the            *)
(* connections (Conv): each number has one application for ever, although  *)
(* both ends forget and open conversations on their own.                   *)
(***************************************************************************)
EXTENDS ServerNet, Conv, TLAPS

\* Where the loop thread is: waiting for the record of the socket it holds,
\* past a wait that failed, or idle.
CallOK ==
    /\ waiter # NoWait => held # NoTcp /\ held[1] = waiter.key /\ ~failed
    /\ failed => held # NoTcp
    /\ held # NoTcp => waiter # NoWait \/ failed

Inv1 == TypeOK /\ CallOK /\ NoLostWakeup

-----------------------------------------------------------------------------
\* A wait in progress is not the idle state.
LEMMA WaitType ==
    ASSUME NEW k \in Keys, NEW b \in BOOLEAN
    PROVE  /\ [key |-> k, woken |-> b] \in Waits
           /\ [key |-> k, woken |-> b] # NoWait
  <1>1. [key |-> k, woken |-> b] \in Waits
    BY Zenon DEF Waits
  <1> QED BY Zenon, AckPoolAssumption, ServerNetAssumption, <1>1

\* Waking a waiter changes neither its key nor that it waits.
LEMMA WokenType ==
    ASSUME NEW w \in Waits
    PROVE  LET v == [w EXCEPT !.woken = TRUE] IN v \in Waits /\ v # NoWait /\ v.key = w.key /\ v.woken
  <1>1. [w EXCEPT !.woken = TRUE] \in Waits
    BY Zenon DEF Waits
  <1>2. [w EXCEPT !.woken = TRUE].key = w.key /\ [w EXCEPT !.woken = TRUE].woken
    BY Zenon DEF Waits
  <1> QED BY AckPoolAssumption, ServerNetAssumption, Zenon, <1>1, <1>2

\* ServerNet starts with nothing pooled, nothing held and nobody waiting.
LEMMA InitInv1 == Init => Inv1
  <1> SUFFICES ASSUME Init PROVE Inv1
    BY Zenon
  <1>1. TypeOK
    <2>1. AckTypeOK
      BY Zenon DEF Init, AckTypeOK, AckInit
    <2>2. <<>> \in Seq(Captured) /\ <<>> \in Seq(Keys) /\ 0 \in 0 .. MaxIsn
      BY AckPoolAssumption, ServerNetAssumption
    <2> QED BY Zenon, <2>1, <2>2 DEF Init, TypeOK
  <1>2. CallOK /\ NoLostWakeup
    BY Zenon DEF Init, CallOK, NoLostWakeup, AckInit
  <1> QED BY Zenon, <1>1, <1>2 DEF Inv1

\* Every step of either thread, of the kernel or of the peer keeps the types.
LEMMA TypeStep == TypeOK /\ CallOK /\ [Next]_vars => TypeOK'
  <1> SUFFICES ASSUME TypeOK, CallOK, [Next]_vars PROVE TypeOK'
    BY Zenon
  <1> USE DEF TypeOK, AckTypeOK, ackVars, netVars, tcpVars, Isns, Infos, Waits, Pooled, Sockets
  <1>1. ASSUME NEW k \in Keys, Connect(k) PROVE TypeOK'
    <2>1. lastIsn[k] + 1 \in Isns
      BY AckPoolAssumption, ServerNetAssumption, <1>1 DEF Connect
    <2>2. [type |-> "SYN", key |-> k, isn |-> lastIsn[k] + 1] \in Captured
      BY Zenon, <2>1 DEF Captured
    <2>3. cap' \in Seq(Captured)
      BY <1>1, <2>2 DEF Connect
    <2>4. lastIsn' \in [Keys -> 0 .. MaxIsn]
      BY <1>1, <2>1 DEF Connect
    <2>5. kernel' \in [Keys -> 0 .. MaxIsn]
      BY <1>1, <2>1 DEF Connect
    <2>6. backlog' \subseteq Sockets
      BY <1>1, <2>1 DEF Connect
    <2>7. UNCHANGED <<ackVars, tcpVars, sync>>
      BY Zenon, <1>1 DEF Connect
    <2> QED BY Zenon, <2>3, <2>4, <2>5, <2>6, <2>7
  <1>2. ASSUME NEW k \in Keys, PeerData(k) PROVE TypeOK'
    <2>1. kernel[k] \in Isns
      BY <1>2 DEF PeerData
    <2>2. [type |-> "DATA", key |-> k, isn |-> kernel[k]] \in Captured
      BY Zenon, <2>1 DEF Captured
    <2> QED BY <1>2, <2>2 DEF PeerData
  <1>3. ASSUME NEW k \in Keys, PeerReset(k) PROVE TypeOK'
    BY AckPoolAssumption, ServerNetAssumption, <1>3 DEF PeerReset
  <1>4. CASE CaptureSyn
    <2>1. Head(cap) \in Captured /\ Tail(cap) \in Seq(Captured)
      BY <1>4 DEF CaptureSyn
    <2> QED BY Zenon, <1>4, <2>1 DEF CaptureSyn, AddInfoFromPeer, Captured
  <1>5. CASE Notify
    BY Zenon, <1>5 DEF Notify, notify_all
  <1>6. CASE CaptureData
    <2>1. Head(cap) \in Captured /\ Tail(cap) \in Seq(Captured)
      BY <1>6 DEF CaptureData
    <2>2. Head(cap).key \in Keys
      BY Zenon, <2>1 DEF Captured
    <2>3. sync' \in Seq(Keys) /\ cap' \in Seq(Captured)
      BY <1>6, <2>1, <2>2 DEF CaptureData
    <2>4. UNCHANGED <<ackVars, netVars, tcpVars>>
      BY Zenon, <1>6 DEF CaptureData
    <2> QED BY Zenon, <2>3, <2>4
  <1>7. ASSUME NEW s \in Sockets, OnNewConnection(s) PROVE TypeOK'
    BY Zenon, <1>7 DEF OnNewConnection, add2Pool
  <1>8. CASE InputMember
    <2>1. Tail(sync) \in Seq(Keys)
      BY <1>8 DEF InputMember
    <2> QED BY Zenon, <1>8, <2>1 DEF InputMember
  <1>9. CASE GetTcpNone
    BY SMTT(60), <1>9 DEF GetTcpNone, RemoveInfo
  <1>10. CASE GetTcpFound
    <2>1. Head(sync) \in Keys /\ Tail(sync) \in Seq(Keys)
      BY <1>10 DEF GetTcpFound
    <2>2. mPool[Head(sync)] \in Pooled
      BY Zenon, <1>10, <2>1 DEF GetTcpFound
    <2>3. fake' \in [Keys -> 0 .. MaxIsn]
      <3>1. fake' = [fake EXCEPT ![Head(sync)] = mPool[Head(sync)].isn]
        BY Zenon, <1>10 DEF GetTcpFound
      <3>2. mPool[Head(sync)].isn \in 0 .. MaxIsn
        BY <2>2
      <3> QED BY Zenon, <3>1, <3>2
    <2>4. mPool' \in [Keys -> Pooled \cup {NoTcp}]
      BY Zenon, <1>10, <2>1 DEF GetTcpFound
    <2>5. AckTypeOK'
      BY Zenon, <1>10, <2>1 DEF GetTcpFound, Transfer
    <2>6. sync' \in Seq(Keys) /\ UNCHANGED <<netVars, opened, held, failed, cap>>
      BY Zenon, <1>10, <2>1 DEF GetTcpFound
    <2> QED BY Zenon, <2>3, <2>4, <2>5, <2>6
  <1>11. CASE GetTcpWait
    <2>1. Head(sync) \in Keys /\ Tail(sync) \in Seq(Keys)
      BY <1>11 DEF GetTcpWait
    <2> QED BY Zenon, <1>11, <2>1 DEF GetTcpWait, Wait
  <1>12. CASE WokenFound
    <2>1. held \in Sockets /\ held[1] = waiter.key /\ waiter.key \in Keys
      BY Zenon, <1>12 DEF WokenFound, CallOK
    <2>2. held[1] \in Keys /\ held[2] \in 0 .. MaxIsn
      BY <2>1
    <2> QED BY Zenon, <1>12, <2>1, <2>2 DEF WokenFound, Transfer
  <1>13. CASE WokenWait
    BY Zenon, <1>13 DEF WokenWait, Wait
  <1>14. CASE Spurious
    BY Zenon, <1>14 DEF Spurious, SpuriousWakeup
  <1>15. CASE WaitTimeout
    BY SMTT(60), AckPoolAssumption, ServerNetAssumption, <1>15 DEF WaitTimeout, Timeout, closeTcp
  <1>16. CASE GetTcpFailed
    BY Zenon, <1>16 DEF GetTcpFailed, RemoveInfo
  <1>17. CASE FlushPool
    BY AckPoolAssumption, ServerNetAssumption, <1>17 DEF FlushPool, closeTcp
  <1>18. CASE FlushAckPool
    BY Zenon, <1>18 DEF FlushAckPool, FlushInfos
  <1>19. ASSUME NEW k \in Keys, ExpirePooled(k) PROVE TypeOK'
    BY Zenon, <1>19 DEF ExpirePooled
  <1>20. ASSUME NEW k \in Keys, ExpireRecord(k) PROVE TypeOK'
    <2>1. mInfoPool[k] \in Infos
      BY Zenon, <1>20 DEF ExpireRecord, ExpireInfo, Contains
    <2>2. [isn |-> mInfoPool[k].isn, due |-> TRUE] \in Infos
      BY Zenon, <2>1
    <2> QED BY Zenon, <1>20, <2>2 DEF ExpireRecord, ExpireInfo
  <1>21. ASSUME NEW k \in Keys, CloseFake(k) PROVE TypeOK'
    BY AckPoolAssumption, ServerNetAssumption, <1>21, SMTT(60) DEF CloseFake, closeTcp
  <1>22. CASE UNCHANGED vars
    BY Zenon, <1>22 DEF vars
  <1> QED BY Zenon, <1>1, <1>2, <1>3, <1>4, <1>5, <1>6, <1>7, <1>8, <1>9, <1>10, <1>11, <1>12, <1>13,
             <1>14, <1>15, <1>16, <1>17, <1>18, <1>19, <1>20, <1>21, <1>22 DEF Next

\* Every step keeps GetTcp's position consistent with the wait in TcpAckPool.
LEMMA CallStep == TypeOK /\ CallOK /\ [Next]_vars => CallOK'
  <1> SUFFICES ASSUME TypeOK, CallOK, [Next]_vars PROVE CallOK'
    BY Zenon
  <1> USE DEF CallOK, ackVars, netVars, tcpVars
  <1>1. CASE UNCHANGED <<waiter, held, failed>>
    BY Zenon, <1>1
  <1>2. CASE Notify \/ Spurious
    <2>1. waiter' = waiter \/ (waiter # NoWait /\ waiter' = [waiter EXCEPT !.woken = TRUE])
      BY Zenon, <1>2 DEF Notify, Spurious, notify_all, SpuriousWakeup
    <2>2. waiter # NoWait => waiter \in Waits
      BY Zenon DEF TypeOK, AckTypeOK
    <2>3. (waiter' # NoWait <=> waiter # NoWait) /\ (waiter # NoWait => waiter'.key = waiter.key)
      BY Zenon, <2>1, <2>2, WokenType
    <2> QED BY <1>2, <2>3 DEF Notify, Spurious
  <1>3. CASE GetTcpFound
    BY Zenon, <1>3 DEF GetTcpFound, Transfer, Idle
  <1>4. CASE GetTcpWait
    <2>1. Head(sync) \in Keys
      BY <1>4 DEF GetTcpWait, TypeOK
    <2>2. mPool[Head(sync)].isn \in Isns
      BY Zenon, <1>4, <2>1 DEF GetTcpWait, TypeOK, Pooled
    <2>3. held' \in Sockets /\ held'[1] = Head(sync)
      BY Zenon, <1>4, <2>1, <2>2 DEF GetTcpWait, Sockets
    <2>4. waiter' = [key |-> Head(sync), woken |-> FALSE] /\ ~failed'
      BY Zenon, <1>4 DEF GetTcpWait, Wait, Idle
    <2>5. waiter' # NoWait
      BY Zenon, <2>1, <2>4, WaitType
    <2>6. waiter'.key = Head(sync)
      BY Zenon, <2>4
    <2>7. held' # NoTcp
      BY Zenon, AckPoolAssumption, ServerNetAssumption, <2>3
    <2> QED BY Zenon, <2>3, <2>4, <2>5, <2>6, <2>7
  <1>5. CASE WokenFound
    BY Zenon, <1>5 DEF WokenFound, Transfer
  <1>6. CASE WokenWait
    <2>1. waiter.key \in Keys
      BY Zenon, <1>6 DEF WokenWait, TypeOK, AckTypeOK, Waits
    <2>2. waiter' = [key |-> waiter.key, woken |-> FALSE]
      BY Zenon, <1>6 DEF WokenWait, Wait
    <2>3. waiter' # NoWait /\ waiter'.key = waiter.key
      BY Zenon, <2>1, <2>2, WaitType
    <2> QED BY Zenon, <1>6, <2>3 DEF WokenWait
  <1>7. CASE WaitTimeout
    BY Zenon, <1>7 DEF WaitTimeout, Timeout
  <1>8. CASE GetTcpFailed
    BY Zenon, <1>8 DEF GetTcpFailed, RemoveInfo
  <1>9. ASSUME Next, ~(Notify \/ Spurious), ~GetTcpFound, ~GetTcpWait, ~WokenFound, ~WokenWait,
               ~WaitTimeout, ~GetTcpFailed
        PROVE  UNCHANGED <<waiter, held, failed>>
    BY Zenon, <1>9 DEF Next, Connect, PeerData, PeerReset, CaptureSyn, AddInfoFromPeer, CaptureData,
                OnNewConnection, InputMember, GetTcpNone, RemoveInfo, FlushPool, FlushAckPool,
                FlushInfos, ExpirePooled, ExpireRecord, ExpireInfo, CloseFake
  <1> QED BY Zenon, <1>1, <1>2, <1>3, <1>4, <1>5, <1>6, <1>7, <1>8, <1>9 DEF vars

\* Only the pcap thread puts a record into the pool, and it notifies after;
\* a waiter that starts to wait found the pool without its record.
LEMMA WakeupStep == TypeOK /\ NoLostWakeup /\ [Next]_vars => NoLostWakeup'
  <1> SUFFICES ASSUME TypeOK, NoLostWakeup, [Next]_vars PROVE NoLostWakeup'
    BY Zenon
  <1> USE DEF NoLostWakeup, Contains, ackVars
  <1>0. waiter # NoWait => waiter \in Waits /\ waiter.key \in Keys
    BY Zenon DEF TypeOK, AckTypeOK, Waits
  <1>1. CASE UNCHANGED ackVars
    BY Zenon, <1>1
  <1>2. CASE CaptureSyn
    BY Zenon, <1>2 DEF CaptureSyn, AddInfoFromPeer
  <1>3. CASE Notify \/ Spurious
    <2>1. waiter' # NoWait => waiter'.woken
      BY Zenon, <1>0, <1>3, WokenType DEF Notify, Spurious, notify_all, SpuriousWakeup
    <2> QED BY Zenon, <2>1
  <1>4. ASSUME NEW k \in Keys, RemoveInfo(k) PROVE NoLostWakeup'
    BY Zenon, <1>0, <1>4 DEF RemoveInfo, TypeOK, AckTypeOK
  <1>5. ASSUME waiter' = NoWait PROVE NoLostWakeup'
    BY Zenon, <1>5
  <1>6. ASSUME NEW k \in Keys, Wait(k) PROVE NoLostWakeup'
    BY Zenon, <1>6 DEF Wait
  <1>7. ASSUME NEW k \in Keys, ExpireInfo(k) PROVE NoLostWakeup'
    BY Zenon, <1>0, <1>7 DEF ExpireInfo, TypeOK, AckTypeOK
  <1>8. CASE FlushInfos
    BY Zenon, <1>0, <1>8 DEF FlushInfos, TypeOK, AckTypeOK
  <1>9. ASSUME Next
        PROVE  \/ UNCHANGED ackVars \/ CaptureSyn \/ Notify \/ Spurious
               \/ \E k \in Keys : RemoveInfo(k) \/ Wait(k) \/ ExpireInfo(k)
               \/ waiter' = NoWait \/ FlushInfos
    <2>1. sync # <<>> => Head(sync) \in Keys
      BY DEF TypeOK
    <2>2. held # NoTcp => held[1] \in Keys
      BY Zenon DEF TypeOK, Sockets
    <2>3. CASE GetTcpFailed
      BY Zenon, <2>2, <2>3 DEF GetTcpFailed, RemoveInfo, TypeOK, AckTypeOK
    <2> QED BY Zenon, <1>0, <1>9, <2>1, <2>3 DEF Next, Connect, PeerData, PeerReset, CaptureData, OnNewConnection,
                InputMember, GetTcpNone, GetTcpFound, GetTcpWait, WokenFound, WokenWait, Transfer,
                WaitTimeout, Timeout, FlushPool, FlushAckPool, ExpirePooled, ExpireRecord, CloseFake
  <1> QED BY Zenon, <1>1, <1>2, <1>3, <1>4, <1>5, <1>6, <1>7, <1>8, <1>9 DEF vars

\* Inv1 holds throughout.
LEMMA Inv1Invariance == Spec => []Inv1
  <1>1. Inv1 /\ [Next]_vars => Inv1'
    BY Zenon, TypeStep, CallStep, WakeupStep DEF Inv1
  <1> QED BY InitInv1, <1>1, PTL DEF Spec

\* The variables of ServerNet keep their types.
THEOREM ServerTypes == Spec => []TypeOK
  <1>1. Inv1 => TypeOK
    BY Zenon DEF Inv1
  <1> QED BY Inv1Invariance, <1>1, PTL

\* Wait2TransferInfo never sleeps on a record that lies in the pool with its
\* notify_all spent, however the two threads interleave.
THEOREM NoWakeupIsLost == Spec => []NoLostWakeup
  <1>1. Inv1 => NoLostWakeup
    BY Zenon DEF Inv1
  <1> QED BY Inv1Invariance, <1>1, PTL

-----------------------------------------------------------------------------
(* Who holds which socket of a key whose peer resets no connection. *)

\* The invariant of one key: its open sockets are the held ones, by one holder
\* at a time; the kernel knows every socket that waits to be accepted or is
\* open; none is both.
KeyInv(q) ==
    /\ \A i \in Isns : <<q, i>> \in opened <=> Holds(q, i)
    /\ mPool[q] # NoTcp => fake[q] = 0 /\ ~Holding(q)
    /\ fake[q] # 0 => ~Holding(q)
    /\ \A i \in Isns : <<q, i>> \in backlog \cup opened => kernel[q] = i
    /\ \A i \in Isns : <<q, i>> \in backlog => <<q, i>> \notin opened

\* What a step looks like to a key it is not about.
Untouched(q) ==
    /\ mPool'[q] = mPool[q] /\ fake'[q] = fake[q] /\ kernel'[q] = kernel[q]
    /\ \A i \in Isns : /\ (Holding(q) /\ held[2] = i)' <=> Holding(q) /\ held[2] = i
                       /\ <<q, i>> \in opened' <=> <<q, i>> \in opened
                       /\ <<q, i>> \in backlog' <=> <<q, i>> \in backlog
    /\ Holding(q)' <=> Holding(q)

LEMMA UntouchedKeeps ==
    ASSUME NEW q \in Keys, KeyInv(q), Untouched(q)
    PROVE  KeyInv(q)'
  BY Zenon DEF KeyInv, Untouched, Holds

\* What closing a set of sockets does to one that is not in it.
LEMMA CloseOthers ==
    ASSUME TypeOK, NEW socks, closeTcp(socks)
    PROVE  \A k \in Keys, i \in Isns :
             /\ <<k, i>> \in opened' <=> <<k, i>> \in opened /\ <<k, i>> \notin socks
             /\ kernel[k] = i /\ <<k, i>> \notin socks => kernel'[k] = i
  BY Zenon DEF closeTcp, TypeOK

\* Closing sockets of other keys does nothing to the sockets of q.
LEMMA CloseElsewhere ==
    ASSUME TypeOK, NEW q \in Keys, NEW socks, closeTcp(socks),
           \A i \in 0 .. MaxIsn : <<q, i>> \notin socks
    PROVE  /\ kernel'[q] = kernel[q]
           /\ \A i \in Isns : <<q, i>> \in opened' <=> <<q, i>> \in opened
  BY DEF closeTcp, TypeOK, Isns

\* Every step passes each open socket of q on to exactly one owner or closes it.
LEMMA OwnedStep ==
    ASSUME NEW q \in Steady, Inv1, KeyInv(q), [Next]_vars
    PROVE  KeyInv(q)'
  <1>0. TypeOK /\ CallOK /\ TypeOK' /\ CallOK'
    BY Zenon, TypeStep, CallStep DEF Inv1
  <1> USE <1>0 DEF netVars, tcpVars
  <1>q. q \in Keys /\ q \notin ResetKeys
    BY Zenon DEF Steady
  <1>h. held # NoTcp => held \in Sockets /\ held = <<held[1], held[2]>> /\ held[1] \in Keys /\ held[2] \in Isns
    BY DEF TypeOK, Sockets
  <1>t. /\ kernel \in [Keys -> 0 .. MaxIsn] /\ fake \in [Keys -> 0 .. MaxIsn]
        /\ mPool \in [Keys -> Pooled \cup {NoTcp}]
        /\ \A k \in Keys : mPool[k] # NoTcp => mPool[k].isn \in Isns
        /\ \A i \in Isns : i # 0 /\ i \in 0 .. MaxIsn
        /\ \A i \in 0 .. MaxIsn : i # 0 => i \in Isns
    BY DEF TypeOK, Pooled, Isns
  <1>1. CASE UNCHANGED <<netVars, tcpVars>>
    BY Zenon, <1>1, <1>q, UntouchedKeeps DEF Untouched, Holding
  <1>2. ASSUME NEW k \in Keys, Connect(k) PROVE KeyInv(q)'
    <2>1. /\ UNCHANGED tcpVars /\ kernel[k] = 0
          /\ kernel' = [kernel EXCEPT ![k] = lastIsn[k] + 1]
          /\ backlog' = backlog \cup {<<k, lastIsn[k] + 1>>}
      BY Zenon, <1>2 DEF Connect
    <2>2. CASE k # q
      <3>1. Untouched(q)
        BY Zenon, <1>q, <1>t, <2>1, <2>2 DEF Untouched, Holding
      <3> QED BY Zenon, <1>q, <3>1, UntouchedKeeps
    <2>3. CASE k = q
      <3>1. \A i \in Isns : <<q, i>> \notin backlog \cup opened
        BY Zenon, <1>t, <2>1, <2>3 DEF KeyInv
      <3> QED BY Zenon, <1>t, <2>1, <2>3, <3>1 DEF KeyInv, Holds, Holding
    <2> QED BY Zenon, <2>2, <2>3
  <1>3. ASSUME NEW s \in Sockets, OnNewConnection(s) PROVE KeyInv(q)'
    <2>1. PICK k \in Keys, i \in Isns : s = <<k, i>>
      BY DEF Sockets
    <2>2. /\ s \in backlog /\ backlog' = backlog \ {s} /\ opened' = opened \cup {s} /\ held = NoTcp
          /\ UNCHANGED <<kernel, fake, held, failed>>
          /\ mPool' = IF kernel[k] = i /\ mPool[k] = NoTcp
                      THEN [mPool EXCEPT ![k] = [isn |-> i, due |-> FALSE]]
                      ELSE mPool
      BY Zenon, <1>3, <2>1 DEF OnNewConnection, add2Pool, Idle
    <2>3. CASE k # q
      <3>1. Untouched(q)
        BY Zenon, <1>q, <1>t, <2>1, <2>2, <2>3 DEF Untouched, Holding
      <3> QED BY Zenon, <1>q, <3>1, UntouchedKeeps
    <2>4. CASE k = q
      <3>1. kernel[q] = i /\ <<q, i>> \notin opened
        BY Zenon, <2>1, <2>2, <2>4 DEF KeyInv
      <3>2. mPool[q] = NoTcp /\ fake[q] = 0
        <4>1. mPool[q] # NoTcp => <<q, mPool[q].isn>> \in opened
          BY Zenon, <1>t, <1>q DEF KeyInv, Holds
        <4>2. fake[q] # 0 => fake[q] \in Isns /\ <<q, fake[q]>> \in opened
          BY Zenon, <1>t, <1>q DEF KeyInv, Holds
        <4> QED BY Zenon, <1>t, <1>q, <3>1, <4>1, <4>2 DEF KeyInv
      <3>3. mPool'[q] = [isn |-> i, due |-> FALSE]
        BY Zenon, <1>t, <1>q, <2>2, <2>4, <3>1, <3>2
      <3>4. mPool'[q] # NoTcp /\ mPool'[q].isn = i
        <4>1. [isn |-> i, due |-> FALSE] \in Pooled
          BY Zenon DEF Pooled
        <4>2. [isn |-> i, due |-> FALSE] # NoTcp
          BY AckPoolAssumption, ServerNetAssumption, Zenon, <4>1
        <4>3. [isn |-> i, due |-> FALSE].isn = i
          BY Zenon
        <4> QED BY Zenon, <3>3, <4>2, <4>3
      <3>5. \A n \in Isns : <<q, n>> \in opened' <=> <<q, n>> \in opened \/ n = i
        BY Zenon, <2>1, <2>2, <2>4
      <3>6. \A n \in Isns : <<q, n>> \in backlog' => <<q, n>> \in backlog /\ n # i
        BY Zenon, <2>1, <2>2, <2>4
      <3>7. \A n \in Isns : <<q, n>> \notin opened
        BY Zenon, <1>t, <2>2, <3>2 DEF KeyInv, Holds, Holding
      <3> QED BY Zenon, <1>t, <2>2, <3>1, <3>2, <3>4, <3>5, <3>6, <3>7 DEF KeyInv, Holds, Holding
    <2> QED BY Zenon, <2>3, <2>4
  <1>4. CASE GetTcpFound
    <2> DEFINE k == Head(sync)
    <2>1. k \in Keys
      BY <1>4 DEF GetTcpFound, TypeOK
    <2>2. /\ fake[k] = 0 /\ mPool[k] # NoTcp /\ held = NoTcp
          /\ fake' = [fake EXCEPT ![k] = mPool[k].isn]
          /\ mPool' = [mPool EXCEPT ![k] = NoTcp]
          /\ UNCHANGED <<netVars, opened, held, failed>>
      BY Zenon, <1>4 DEF GetTcpFound, Idle
    <2> HIDE DEF k
    <2>3. CASE k # q
      BY Zenon, <1>q, <1>t, <2>1, <2>2, <2>3, UntouchedKeeps DEF Untouched, Holding
    <2>4. CASE k = q
      BY Zenon, <1>t, <2>1, <2>2, <2>4 DEF KeyInv, Holds, Holding
    <2> QED BY Zenon, <2>3, <2>4
  <1>5. CASE GetTcpWait
    <2> DEFINE k == Head(sync)
    <2>1. k \in Keys
      BY <1>5 DEF GetTcpWait, TypeOK
    <2>2. /\ fake[k] = 0 /\ mPool[k] # NoTcp /\ held = NoTcp
          /\ held' = <<k, mPool[k].isn>>
          /\ mPool' = [mPool EXCEPT ![k] = NoTcp]
          /\ UNCHANGED <<netVars, opened, fake, failed>>
      BY Zenon, <1>5 DEF GetTcpWait, Idle
    <2>3. ~failed /\ held' # NoTcp
      BY AckPoolAssumption, ServerNetAssumption, <1>t, <2>1, <2>2 DEF CallOK, Sockets
    <2> HIDE DEF k
    <2>4. CASE k # q
      BY Zenon, <1>q, <1>t, <2>1, <2>2, <2>4, UntouchedKeeps DEF Untouched, Holding
    <2>5. CASE k = q
      BY Zenon, <1>t, <2>1, <2>2, <2>3, <2>5 DEF KeyInv, Holds, Holding
    <2> QED BY Zenon, <2>4, <2>5
  <1>6. CASE WokenFound
    <2>1. held # NoTcp /\ ~failed /\ held[1] \in Keys /\ held[2] \in Isns
      BY Zenon, <1>6, <1>h DEF WokenFound, CallOK
    <2>2. /\ fake' = [fake EXCEPT ![held[1]] = held[2]]
          /\ held' = NoTcp
          /\ UNCHANGED <<netVars, opened, mPool, failed>>
      BY Zenon, <1>6 DEF WokenFound
    <2>3. CASE held[1] # q
      BY Zenon, <1>q, <1>t, <2>1, <2>2, <2>3, UntouchedKeeps DEF Untouched, Holding
    <2>4. CASE held[1] = q
      <3>1. fake[q] = 0 /\ mPool[q] = NoTcp
        BY Zenon, <2>1, <2>4 DEF KeyInv, Holding
      <3> QED BY <1>t, <2>1, <2>2, <2>4, <3>1, SMTT(60) DEF KeyInv, Holds, Holding
    <2> QED BY Zenon, <2>3, <2>4
  <1>7. CASE WaitTimeout
    <2>1. held # NoTcp /\ ~failed
      BY Zenon, <1>7 DEF WaitTimeout, Timeout, CallOK
    <2>2. closeTcp({held}) /\ failed' /\ UNCHANGED <<backlog, mPool, fake, held>>
      BY Zenon, <1>7 DEF WaitTimeout
    <2>3. CASE held[1] # q
      <3>1. \A i \in 0 .. MaxIsn : <<q, i>> \notin {held}
        BY <1>h, <2>1, <2>3
      <3>2. /\ kernel'[q] = kernel[q]
            /\ \A i \in Isns : <<q, i>> \in opened' <=> <<q, i>> \in opened
        BY Zenon, <1>q, <2>2, <3>1, CloseElsewhere
      <3> QED BY Zenon, <1>q, <2>2, <2>3, <3>2, UntouchedKeeps DEF Untouched, Holding
    <2>4. CASE held[1] = q
      <3>1. held \in opened /\ held \notin backlog /\ fake[q] = 0 /\ mPool[q] = NoTcp
        BY Zenon, <1>h, <2>1, <2>4 DEF KeyInv, Holds, Holding
      <3>2. \A i \in Isns :
               /\ <<q, i>> \in opened' <=> <<q, i>> \in opened /\ i # held[2]
               /\ kernel[q] = i /\ i # held[2] => kernel'[q] = i
        BY <1>h, <1>q, <2>1, <2>2, <2>4, CloseOthers
      <3> QED BY Zenon, <1>h, <1>t, <2>1, <2>2, <2>4, <3>1, <3>2 DEF KeyInv, Holds, Holding
    <2> QED BY Zenon, <2>3, <2>4
  <1>8. CASE GetTcpFailed
    <2>1. failed /\ ~failed' /\ held' = NoTcp /\ UNCHANGED <<netVars, opened, mPool, fake>>
      BY Zenon, <1>8 DEF GetTcpFailed
    <2> QED BY Zenon, <1>q, <2>1, UntouchedKeeps DEF Untouched, Holding
  <1>9. CASE FlushPool
    <2>1. /\ closeTcp(Expired) /\ UNCHANGED <<backlog, fake, held, failed>> /\ held = NoTcp
          /\ mPool' = [k \in Keys |-> IF mPool[k] # NoTcp /\ mPool[k].due THEN NoTcp ELSE mPool[k]]
      BY Zenon, <1>9 DEF FlushPool, Idle
    <2>2. \A i : <<q, i>> \in Expired <=> mPool[q] # NoTcp /\ mPool[q].due /\ mPool[q].isn = i
      BY Zenon, <1>q DEF Expired
    <2>3. \A i \in Isns : <<q, i>> \in Expired => <<q, i>> \in opened /\ <<q, i>> \notin backlog
      BY Zenon, <2>2 DEF KeyInv, Holds
    <2>4. \A i \in Isns :
             /\ <<q, i>> \in opened' <=> <<q, i>> \in opened /\ <<q, i>> \notin Expired
             /\ kernel[q] = i /\ <<q, i>> \notin Expired => kernel'[q] = i
      BY Zenon, <1>q, <2>1, CloseOthers
    <2> QED BY Zenon, <1>q, <1>t, <2>1, <2>2, <2>3, <2>4 DEF KeyInv, Holds, Holding
  <1>10. ASSUME NEW k \in Keys, ExpirePooled(k) PROVE KeyInv(q)'
    <2>1. /\ mPool'[q] # NoTcp <=> mPool[q] # NoTcp
          /\ mPool[q] # NoTcp => mPool'[q].isn = mPool[q].isn
      <3>1. [isn |-> mPool[k].isn, due |-> TRUE] \in Pooled
        BY Zenon, <1>10, <1>t DEF ExpirePooled, Pooled
      <3>2. mPool' = [mPool EXCEPT ![k] = [isn |-> mPool[k].isn, due |-> TRUE]] /\ mPool[k] # NoTcp
        BY Zenon, <1>10 DEF ExpirePooled
      <3>3. mPool'[k] # NoTcp /\ mPool'[k].isn = mPool[k].isn
        <4>1. mPool'[k] = [isn |-> mPool[k].isn, due |-> TRUE]
          BY Zenon, <1>t, <3>2
        <4>2. [isn |-> mPool[k].isn, due |-> TRUE] # NoTcp
          BY AckPoolAssumption, ServerNetAssumption, Zenon, <3>1
        <4>3. [isn |-> mPool[k].isn, due |-> TRUE].isn = mPool[k].isn
          BY Zenon
        <4> QED BY Zenon, <4>1, <4>2, <4>3
      <3>4. q # k => mPool'[q] = mPool[q]
        BY Zenon, <1>t, <1>q, <3>2
      <3> QED BY Zenon, <3>2, <3>3, <3>4
    <2>2. UNCHANGED <<netVars, opened, fake, held, failed>>
      BY Zenon, <1>10 DEF ExpirePooled
    <2> QED BY Zenon, <2>1, <2>2 DEF KeyInv, Holds, Holding
  <1>11. ASSUME NEW k \in Keys, CloseFake(k) PROVE KeyInv(q)'
    <2>1. /\ fake[k] # 0 /\ held = NoTcp /\ fake' = [fake EXCEPT ![k] = 0]
          /\ closeTcp({<<k, fake[k]>>}) /\ UNCHANGED <<backlog, mPool, held, failed>>
      BY Zenon, <1>11 DEF CloseFake, Idle
    <2> DEFINE socks == {<<k, fake[k]>>}
    <2>2. \A j \in Keys : \A i : <<j, i>> \in socks <=> j = k /\ i = fake[k]
      BY Zenon
    <2>3. closeTcp(socks)
      BY Zenon, <2>1
    <2> HIDE DEF socks
    <2>4. CASE k # q
      <3>1. /\ kernel'[q] = kernel[q]
            /\ \A i \in Isns : <<q, i>> \in opened' <=> <<q, i>> \in opened
        BY Zenon, <1>q, <2>2, <2>3, <2>4, CloseElsewhere
      <3> QED BY Zenon, <1>q, <1>t, <2>1, <2>4, <3>1, UntouchedKeeps DEF Untouched, Holding
    <2>5. CASE k = q
      <3>1. fake[q] \in Isns /\ <<q, fake[q]>> \in opened /\ <<q, fake[q]>> \notin backlog /\ mPool[q] = NoTcp
        BY Zenon, <1>q, <1>t, <2>1, <2>5 DEF KeyInv, Holds
      <3>2. \A i \in Isns :
               /\ <<q, i>> \in opened' <=> <<q, i>> \in opened /\ i # fake[q]
               /\ kernel[q] = i /\ i # fake[q] => kernel'[q] = i
        BY Zenon, <1>q, <2>2, <2>3, <2>5, CloseOthers
      <3> QED BY Zenon, <1>q, <1>t, <2>1, <2>5, <3>1, <3>2 DEF KeyInv, Holds, Holding
    <2> QED BY Zenon, <2>4, <2>5
  <1>12. ASSUME NEW k \in Keys, PeerReset(k) PROVE KeyInv(q)'
    <2>1. k # q /\ kernel' = [kernel EXCEPT ![k] = 0] /\ UNCHANGED <<backlog, tcpVars>>
      BY Zenon, <1>12, <1>q DEF PeerReset
    <2> QED BY Zenon, <1>q, <1>t, <2>1, UntouchedKeeps DEF Untouched, Holding
  <1>13. CASE UNCHANGED vars
    BY Zenon, <1>13, <1>1 DEF vars
  <1>14. ASSUME Next
         PROVE  \/ UNCHANGED <<netVars, tcpVars>>
                \/ \E k \in Keys : Connect(k) \/ ExpirePooled(k) \/ CloseFake(k) \/ PeerReset(k)
                \/ \E s \in Sockets : OnNewConnection(s)
                \/ GetTcpFound \/ GetTcpWait \/ WokenFound \/ WaitTimeout \/ GetTcpFailed \/ FlushPool
    BY Zenon, <1>14 DEF Next, PeerData, CaptureSyn, Notify, CaptureData, InputMember, GetTcpNone,
                 WokenWait, Spurious, FlushAckPool, ExpireRecord
  <1> QED BY Zenon, <1>1, <1>2, <1>3, <1>4, <1>5, <1>6, <1>7, <1>8, <1>9, <1>10, <1>11, <1>12, <1>13, <1>14

Inv2 == \A q \in Steady : KeyInv(q)

\* Every open socket of a key whose peer resets none is in the pool, in a
\* FakeTcp or in the hands of GetTcp, and what is there is open: accepting,
\* waiting, timing out, flushing and closing leak none and close none twice,
\* whatever happens to the connections of other keys.
THEOREM NoHandleLeaks == Spec => []HandlesOwned
  <1>1. Init => Inv2
    BY DEF Init, Inv2, KeyInv, Holds, Holding, Steady, Isns
  <1>2. Inv1 /\ Inv2 /\ [Next]_vars => Inv2'
    BY Zenon, OwnedStep DEF Inv2
  <1>3. Inv2 => HandlesOwned
    BY Zenon DEF Inv2, KeyInv, HandlesOwned
  <1> QED BY Inv1Invariance, <1>1, <1>2, <1>3, PTL DEF Spec

(***************************************************************************)
(* Conv.  MapsAgree and NoCrossTalk rest on ClaimsSound: wherever a number *)
(* appears, in ClientGroup's map, in a packet under way or in a socket of  *)
(* the server, it belongs to the same application, and it is not above     *)
(* mConvCounter.  A new number is therefore nobody's.                      *)
(***************************************************************************)
\* Conversation c is application a's: in ClientGroup's map, in a packet under
\* way, or in a socket of the server.
Claim(c, a) ==
    \/ mConvMap[c] = a
    \/ \E p \in net : p.cmd \in {"UP", "DOWN"} /\ p.conv = c /\ p.app = a
    \/ \E i \in Ips : sconns[<<i, c>>] # NoConn /\ sconns[<<i, c>>].app = a

\* A number has at most one application, and has been given out.
ClaimsSound ==
    \A c \in Convs, a \in Apps :
        Claim(c, a) => /\ c <= mConvCounter
                       /\ \A b \in Apps : Claim(c, b) => a = b

ConvInv == ConvTypeOK /\ MapsAgree /\ ClaimsSound

-----------------------------------------------------------------------------
LEMMA ConvInitInv ==
    ASSUME ConvInit
    PROVE  ConvInv
  <1>1. ConvTypeOK
    BY ConvAssumption DEF ConvInit, ConvTypeOK
  <1>2. MapsAgree
    BY Zenon, ConvAssumption DEF ConvInit, MapsAgree
  <1>3. ClaimsSound
    BY Zenon, ConvAssumption DEF ConvInit, ClaimsSound, Claim
  <1> QED BY Zenon, <1>1, <1>2, <1>3 DEF ConvInv

\* A packet is posted or not; nothing else joins the network.
LEMMA ConvPost == ASSUME NEW q, NEW p PROVE Post(q, p) \in {q, q \cup {p}}
  BY Zenon DEF Post

\* DataStat's fields stay Boolean.
LEMMA ConvStats ==
    /\ NewStat \in Stat
    /\ \A s \in Stat : afterSend(s) \in Stat /\ afterInput(s) \in Stat /\ FlushStat(s) \in Stat
  BY Zenon DEF Stat, NewStat, afterSend, afterInput, FlushStat

\* What changes of a CConn or an SConn is its DataStat.
LEMMA ConvConns ==
    /\ \A c \in CConn, s \in Stat :
          LET d == [c EXCEPT !.stat = s]
          IN  c # NoConn /\ d \in CConn /\ d.conv = c.conv /\ d # NoConn
    /\ \A c \in SConn, s \in Stat :
          LET d == [c EXCEPT !.stat = s]
          IN  c # NoConn /\ d \in SConn /\ d.app = c.app /\ d # NoConn
    /\ \A c \in Convs, s \in Stat : [conv |-> c, stat |-> s] \in CConn
    /\ \A a \in Apps, s \in Stat : [app |-> a, stat |-> s] \in SConn
  BY Zenon, ConvAssumption DEF CConn, SConn

\* The packets' fields.
LEMMA ConvPackets ==
    /\ \A p \in Packets : p.conv \in Convs
    /\ \A p \in Packets : p.cmd = "UP" => p.ip \in Ips /\ p.app \in Apps
    /\ \A p \in Packets : p.cmd = "DOWN" => p.app \in Apps
    /\ \A p \in Packets : p.cmd = "CONV_RST" => p.ip \in Ips
  BY Zenon DEF Packets

\* A step that gives no application a number leaves every number its own.
LEMMA ClaimsKept ==
    ASSUME ClaimsSound, mConvCounter' = mConvCounter,
           \A c \in Convs, a \in Apps : Claim(c, a)' => Claim(c, a)
    PROVE  ClaimsSound'
  BY Zenon DEF ClaimsSound, Convs

\* Nor does one that leaves the packets, or takes one, and gives a socket or an
\* entry of the map to nobody it was not given to before.
LEMMA NothingClaimed ==
    ASSUME ConvInv, mConvCounter' = mConvCounter,
           \A p \in net' : p \in net \/ p.cmd = "CONV_RST" \/ Claim(p.conv, p.app),
           \A c \in Convs : mConvMap'[c] = mConvMap[c] \/ mConvMap'[c] \notin Apps,
           \A i \in Ips, c \in Convs :
              sconns'[<<i, c>>] # NoConn => Claim(c, sconns'[<<i, c>>].app)
    PROVE  ClaimsSound'
  <1>1. ASSUME NEW c \in Convs, NEW a \in Apps, Claim(c, a)' PROVE Claim(c, a)
    <2>1. CASE mConvMap'[c] = a
      BY Zenon, <2>1 DEF Claim
    <2>2. CASE \E p \in net' : p.cmd \in {"UP", "DOWN"} /\ p.conv = c /\ p.app = a
      <3>1. PICK p \in net' : p.cmd \in {"UP", "DOWN"} /\ p.conv = c /\ p.app = a
        BY Zenon, <2>2
      <3>2. p.cmd # "CONV_RST"
        BY Zenon, <3>1
      <3>3. CASE p \in net
        BY Zenon, <3>1, <3>3 DEF Claim
      <3>4. CASE Claim(p.conv, p.app)
        BY Zenon, <3>1, <3>4
      <3> QED BY Zenon, <3>2, <3>3, <3>4
    <2>3. CASE \E i \in Ips : sconns'[<<i, c>>] # NoConn /\ sconns'[<<i, c>>].app = a
      BY Zenon, <2>3
    <2> QED BY Zenon, <1>1, <2>1, <2>2, <2>3 DEF Claim
  <1> QED BY Zenon, <1>1, ClaimsKept DEF ConvInv

-----------------------------------------------------------------------------
\* A new conversation: its number is nobody's yet.
LEMMA NewConnInv ==
    ASSUME ConvInv, NEW a \in Apps, NEW s \in Stat,
           cconns[a] = NoConn, newConn(a, s),
           \A p \in net' : p \in net
               \/ p = [cmd |-> "UP", conv |-> mConvCounter + 1, ip |-> ip, app |-> a],
           ip \in Ips, UNCHANGED <<site, ip, sconns>>
    PROVE  ConvInv'
  <1> DEFINE conv == mConvCounter + 1
  <1>1. /\ conv \in Convs /\ mConvCounter' = conv /\ mConvCounter < MaxConv
        /\ mConvMap' = [mConvMap EXCEPT ![conv] = IF @ = NoConn THEN a ELSE @]
        /\ cconns' = [cconns EXCEPT ![a] = [conv |-> conv, stat |-> s]]
    BY ConvAssumption DEF newConn, ConvInv, ConvTypeOK, Convs
  <1>2. \A b \in Apps : ~Claim(conv, b)
    BY <1>1 DEF ConvInv, ClaimsSound, ConvTypeOK
  <1>3. mConvMap[conv] = NoConn
    BY Zenon, <1>1, <1>2 DEF ConvInv, ConvTypeOK, Claim
  <1>4. /\ mConvMap' \in [Convs -> Apps \cup {NoConn}]
        /\ mConvMap'[conv] = a
        /\ \A c \in Convs : c # conv => mConvMap'[c] = mConvMap[c]
    BY Zenon, <1>1, <1>3 DEF ConvInv, ConvTypeOK
  <1>5. /\ cconns' \in [Apps -> CConn \cup {NoConn}]
        /\ cconns'[a] # NoConn /\ cconns'[a].conv = conv
        /\ \A b \in Apps : b # a => cconns'[b] = cconns[b]
    BY Zenon, <1>1, ConvConns, ConvAssumption DEF ConvInv, ConvTypeOK
  <1>6. ConvTypeOK'
    <2>1. net' \subseteq Packets
      BY <1>1, SMTT(60) DEF ConvInv, ConvTypeOK, Packets
    <2> QED BY <1>1, <1>4, <1>5, <2>1, SMTT(60) DEF ConvInv, ConvTypeOK, Convs
  <1>7. MapsAgree'
    <2> SUFFICES ASSUME NEW c \in Convs, NEW b \in Apps
                 PROVE  mConvMap'[c] = b <=> (cconns'[b] # NoConn /\ cconns'[b].conv = c)
      BY Zenon DEF MapsAgree
    <2>1. mConvMap[c] = b <=> (cconns[b] # NoConn /\ cconns[b].conv = c)
      BY Zenon DEF ConvInv, MapsAgree
    <2>2. NoConn \notin Apps
      BY Zenon, ConvAssumption
    <2> QED BY <1>3, <1>4, <1>5, <2>1, <2>2, SMTT(60)
  <1>8. ASSUME NEW c \in Convs, NEW b \in Apps, Claim(c, b)'
        PROVE  Claim(c, b) \/ (c = conv /\ b = a)
    <2>1. CASE mConvMap'[c] = b
      BY Zenon, <1>4, <2>1 DEF Claim
    <2>2. CASE \E p \in net' : p.cmd \in {"UP", "DOWN"} /\ p.conv = c /\ p.app = b
      BY <2>2 DEF Claim
    <2>3. CASE \E i \in Ips : sconns'[<<i, c>>] # NoConn /\ sconns'[<<i, c>>].app = b
      BY Zenon, <2>3 DEF Claim
    <2> QED BY Zenon, <1>8, <2>1, <2>2, <2>3 DEF Claim
  <1>9. ClaimsSound'
    <2> SUFFICES ASSUME NEW c \in Convs, NEW b \in Apps, Claim(c, b)'
                 PROVE  /\ c <= mConvCounter'
                        /\ \A d \in Apps : Claim(c, d)' => b = d
      BY Zenon DEF ClaimsSound
    <2>1. Claim(c, b) => c <= mConvCounter /\ \A d \in Apps : Claim(c, d) => b = d
      BY Zenon DEF ConvInv, ClaimsSound
    <2>2. c \in Int /\ mConvCounter \in Int
      BY SMTT(60) DEF ConvInv, ConvTypeOK, Convs
    <2>3. c <= mConvCounter'
      BY <1>1, <1>8, <2>1, <2>2
    <2>4. ASSUME NEW d \in Apps, Claim(c, d)' PROVE b = d
      BY Zenon, <1>2, <1>8, <2>1, <2>4
    <2> QED BY Zenon, <2>3, <2>4
  <1> QED BY Zenon, <1>6, <1>7, <1>9 DEF ConvInv

\* A step that leaves the numbers and the CConns' numbers as they are.
LEMMA SameConvs ==
    ASSUME ConvInv, NEW a \in Apps, NEW s \in Stat, cconns[a] # NoConn,
           cconns' = [cconns EXCEPT ![a].stat = s], mConvMap' = mConvMap
    PROVE  /\ cconns' \in [Apps -> CConn \cup {NoConn}]
           /\ MapsAgree'
  <1>1. cconns' = [cconns EXCEPT ![a] = [cconns[a] EXCEPT !.stat = s]]
    BY Zenon
  <1>2. cconns[a] \in CConn /\ cconns \in [Apps -> CConn \cup {NoConn}]
    BY Zenon DEF ConvInv, ConvTypeOK
  <1>3. /\ cconns' \in [Apps -> CConn \cup {NoConn}]
        /\ \A b \in Apps : /\ cconns'[b] = NoConn <=> cconns[b] = NoConn
                           /\ cconns[b] # NoConn => cconns'[b].conv = cconns[b].conv
    BY <1>1, <1>2, ConvConns
  <1> QED BY <1>3 DEF ConvInv, MapsAgree

-----------------------------------------------------------------------------
LEMMA ConvIp == ASSUME ConvInv PROVE ip \in Ips /\ site.apps \subseteq Apps
  BY Zenon, ConvAssumption DEF ConvInv, ConvTypeOK

LEMMA onLocalRecvNewInv ==
    ASSUME ConvInv, NEW a \in site.apps,
           onLocalRecvNew(a) \/ onLocalRecvNewFailed(a)
    PROVE  ConvInv'
  <1>1. a \in Apps /\ ip \in Ips
    BY Zenon, ConvIp
  <1>2. CASE onLocalRecvNew(a)
    <2>1. newConn(a, afterSend(NewStat)) /\ afterSend(NewStat) \in Stat
      BY Zenon, <1>2, ConvStats DEF onLocalRecvNew
    <2>2. mConvCounter' = mConvCounter + 1
      BY Zenon, <2>1 DEF newConn
    <2>3. \A p \in net' : p \in net
             \/ p = [cmd |-> "UP", conv |-> mConvCounter + 1, ip |-> ip, app |-> a]
      BY <1>2, <2>2, ConvPost, SMTT(60) DEF onLocalRecvNew, cconSend
    <2> QED BY Zenon, <1>1, <1>2, <2>1, <2>3, NewConnInv DEF onLocalRecvNew
  <1>3. CASE onLocalRecvNewFailed(a)
    BY Zenon, <1>1, <1>3, ConvStats, NewConnInv DEF onLocalRecvNewFailed
  <1> QED BY Zenon, <1>2, <1>3

LEMMA onLocalRecvInv ==
    ASSUME ConvInv, NEW a \in site.apps, onLocalRecv(a)
    PROVE  ConvInv'
  <1> DEFINE s == afterSend(cconns[a].stat)
             u == [cmd |-> "UP", conv |-> cconns[a].conv, ip |-> ip, app |-> a]
  <1>1. a \in Apps /\ ip \in Ips /\ cconns[a] \in CConn /\ cconns[a] # NoConn
    BY Zenon, ConvIp DEF onLocalRecv, ConvInv, ConvTypeOK
  <1>2. s \in Stat /\ cconns[a].conv \in Convs
    BY Zenon, <1>1, ConvStats DEF CConn
  <1>3. cconns' = [cconns EXCEPT ![a].stat = s] /\ mConvMap' = mConvMap
    BY Zenon DEF onLocalRecv
  <1>4. cconns' \in [Apps -> CConn \cup {NoConn}] /\ MapsAgree'
    BY Zenon, <1>1, <1>2, <1>3, SameConvs
  <1>5. \A p \in net' : p \in net \/ p = u
    BY ConvPost DEF onLocalRecv, cconSend
  <1>6. UNCHANGED <<site, ip, mConvCounter, mConvMap, sconns>>
    BY Zenon DEF onLocalRecv
  <1>7. ConvTypeOK'
    <2>1. u \in Packets
      BY Zenon, <1>1, <1>2 DEF Packets
    <2> QED BY Zenon, <1>4, <1>5, <1>6, <2>1 DEF ConvInv, ConvTypeOK
  <1>8. Claim(u.conv, u.app)
    BY Zenon, <1>1, <1>2 DEF Claim, ConvInv, MapsAgree
  <1>9. \A i \in Ips, c \in Convs : sconns[<<i, c>>] # NoConn => Claim(c, sconns[<<i, c>>].app)
    BY Zenon DEF Claim
  <1> HIDE DEF u
  <1>10. ClaimsSound'
    BY Zenon, <1>5, <1>6, <1>8, <1>9, NothingClaimed
  <1> QED BY Zenon, <1>4, <1>7, <1>10 DEF ConvInv

\* Steps that change neither of ClientGroup's indexes.
LEMMA ConvServerInv ==
    ASSUME ConvInv, UNCHANGED <<site, mConvCounter, cconns, mConvMap>>,
           ip' \in site.ips,
           sconns' \in [Ips \X Convs -> SConn \cup {NoConn}],
           \A i \in Ips, c \in Convs :
              sconns'[<<i, c>>] # NoConn => Claim(c, sconns'[<<i, c>>].app),
           net' \subseteq Packets,
           \A p \in net' : p \in net \/ p.cmd = "CONV_RST" \/ Claim(p.conv, p.app)
    PROVE  ConvInv'
  <1>1. ConvTypeOK'
    BY Zenon DEF ConvInv, ConvTypeOK
  <1>2. MapsAgree'
    BY Zenon DEF ConvInv, MapsAgree
  <1>3. ClaimsSound'
    BY Zenon, NothingClaimed
  <1> QED BY Zenon, <1>1, <1>2, <1>3 DEF ConvInv

\* The sockets that are there are claimed.
LEMMA SocketsClaimed ==
    \A i \in Ips, c \in Convs : sconns[<<i, c>>] # NoConn => Claim(c, sconns[<<i, c>>].app)
  BY Zenon DEF Claim

LEMMA ClientOnRecvInv ==
    ASSUME ConvInv, NEW p \in net, ClientOnRecv(p)
    PROVE  ConvInv'
  <1> DEFINE a == mConvMap[p.conv]
             s == afterInput(cconns[a].stat)
  <1>1. p.conv \in Convs
    BY Zenon, ConvPackets DEF ConvInv, ConvTypeOK
  <1>2. a \in Apps
    BY Zenon, <1>1 DEF ClientOnRecv, ConvInv, ConvTypeOK
  <1>3. cconns[a] # NoConn /\ cconns[a] \in CConn
    BY <1>1, <1>2 DEF ConvInv, MapsAgree, ConvTypeOK
  <1>4. s \in Stat
    BY Zenon, <1>3, ConvStats DEF CConn
  <1>5. cconns' = [cconns EXCEPT ![a].stat = s] /\ mConvMap' = mConvMap
    BY Zenon DEF ClientOnRecv
  <1>6. UNCHANGED <<site, ip, mConvCounter, mConvMap, sconns>> /\ net' \subseteq net
    BY Zenon DEF ClientOnRecv
  <1> HIDE DEF s, a
  <1>7. cconns' \in [Apps -> CConn \cup {NoConn}] /\ MapsAgree'
    BY Zenon, <1>2, <1>3, <1>4, <1>5, SameConvs
  <1>8. ConvTypeOK'
    BY Zenon, <1>6, <1>7 DEF ConvInv, ConvTypeOK
  <1>9. ClaimsSound'
    BY Zenon, <1>6, SocketsClaimed, NothingClaimed
  <1> QED BY Zenon, <1>7, <1>8, <1>9 DEF ConvInv

LEMMA SendConvRstInv ==
    ASSUME ConvInv, NEW p \in net, SendConvRst(p)
    PROVE  ConvInv'
  <1> DEFINE r == [cmd |-> "CONV_RST", conv |-> p.conv, ip |-> ip]
  <1>1. \A q \in net' : q \in net \/ q = r
    BY ConvPost, SMTT(60) DEF SendConvRst
  <1>2. r \in Packets /\ r.cmd = "CONV_RST"
    BY Zenon, ConvPackets, ConvIp DEF ConvInv, ConvTypeOK, Packets
  <1>3. UNCHANGED <<site, ip, mConvCounter, cconns, mConvMap, sconns>>
    BY Zenon DEF SendConvRst
  <1> HIDE DEF r
  <1>4. /\ net' \subseteq Packets /\ ip' \in site.ips
        /\ sconns' \in [Ips \X Convs -> SConn \cup {NoConn}]
    BY Zenon, <1>1, <1>2, <1>3 DEF ConvInv, ConvTypeOK
  <1> QED BY Zenon, <1>1, <1>2, <1>3, <1>4, SocketsClaimed, ConvServerInv

LEMMA ServerOnRecvInv ==
    ASSUME ConvInv, NEW p \in net, ServerOnRecv(p)
    PROVE  ConvInv'
  <1> DEFINE k == <<p.ip, p.conv>>
             conn == IF sconns[k] = NoConn THEN [app |-> p.app, stat |-> NewStat] ELSE sconns[k]
             new == [conn EXCEPT !.stat = afterInput(conn.stat)]
  <1>1. p.conv \in Convs /\ p.ip \in Ips /\ p.app \in Apps /\ k \in Ips \X Convs
    BY Zenon, ConvPackets DEF ServerOnRecv, ConvInv, ConvTypeOK
  <1>2. sconns \in [Ips \X Convs -> SConn \cup {NoConn}]
    BY Zenon DEF ConvInv, ConvTypeOK
  <1>3. conn \in SConn /\ Claim(p.conv, conn.app)
    <2>1. ASSUME sconns[k] = NoConn
          PROVE  conn \in SConn /\ conn.app = p.app
      BY Zenon, <1>1, <2>1, ConvStats, ConvConns
    <2>2. ASSUME sconns[k] # NoConn
          PROVE  conn \in SConn /\ conn = sconns[k]
      BY Zenon, <1>1, <1>2, <2>2
    <2> HIDE DEF conn
    <2>3. Claim(p.conv, p.app)
      BY Zenon DEF ServerOnRecv, Claim
    <2>4. sconns[k] # NoConn => Claim(p.conv, sconns[k].app)
      BY Zenon, <1>1, SocketsClaimed
    <2> QED BY Zenon, <2>1, <2>2, <2>3, <2>4
  <1>5. sconns' = [sconns EXCEPT ![k] = new]
    BY Zenon DEF ServerOnRecv
  <1>6. net' \subseteq net /\ UNCHANGED <<site, ip, mConvCounter, cconns, mConvMap>>
    BY Zenon DEF ServerOnRecv
  <1> HIDE DEF conn
  <1>7. new \in SConn /\ Claim(p.conv, new.app)
    <2>1. afterInput(conn.stat) \in Stat
      BY Zenon, <1>3, ConvStats DEF SConn
    <2> QED BY Zenon, <1>3, <2>1, ConvConns
  <1> HIDE DEF new
  <1>8. sconns' \in [Ips \X Convs -> SConn \cup {NoConn}]
    BY Zenon, <1>1, <1>2, <1>5, <1>7
  <1>9. ASSUME NEW i \in Ips, NEW c \in Convs, sconns'[<<i, c>>] # NoConn
        PROVE  Claim(c, sconns'[<<i, c>>].app)
    <2>1. CASE <<i, c>> = k
      BY Zenon, <1>1, <1>2, <1>5, <1>7, <2>1
    <2>2. CASE <<i, c>> # k
      <3>1. sconns'[<<i, c>>] = sconns[<<i, c>>]
        BY Zenon, <1>1, <1>2, <1>5, <2>2
      <3> QED BY Zenon, <1>9, <3>1, SocketsClaimed
    <2> QED BY Zenon, <2>1, <2>2
  <1>10. net' \subseteq Packets /\ ip' \in site.ips
    BY Zenon, <1>6 DEF ConvInv, ConvTypeOK
  <1> QED BY Zenon, <1>6, <1>8, <1>9, <1>10, ConvServerInv

LEMMA ConvUdpRecvCbInv ==
    ASSUME ConvInv, NEW k \in Ips \X Convs, udpRecvCb(k)
    PROVE  ConvInv'
  <1> DEFINE s == afterSend(sconns[k].stat)
             new == [sconns[k] EXCEPT !.stat = s]
             q == [cmd |-> "DOWN", conv |-> k[2], app |-> sconns[k].app]
  <1>1. /\ sconns[k] # NoConn /\ sconns[k] \in SConn
        /\ sconns \in [Ips \X Convs -> SConn \cup {NoConn}]
    BY Zenon DEF udpRecvCb, ConvInv, ConvTypeOK
  <1>2. s \in Stat /\ sconns[k].app \in Apps
    BY Zenon, <1>1, ConvStats DEF SConn
  <1>3. sconns' = [sconns EXCEPT ![k] = new]
    BY Zenon DEF udpRecvCb
  <1>4. UNCHANGED <<site, ip, mConvCounter, cconns, mConvMap>>
    BY Zenon DEF udpRecvCb
  <1>5. \A p \in net' : p \in net \/ p = q
    BY ConvPost DEF udpRecvCb
  <1>6. k[1] \in Ips /\ k[2] \in Convs /\ k = <<k[1], k[2]>>
    OBVIOUS
  <1>7. Claim(k[2], sconns[k].app)
    BY Zenon, <1>1, <1>6, SocketsClaimed
  <1>8. q \in Packets /\ Claim(q.conv, q.app)
    BY Zenon, <1>2, <1>6, <1>7 DEF Packets
  <1> HIDE DEF s, q
  <1>9. new \in SConn /\ new.app = sconns[k].app
    BY Zenon, <1>1, <1>2, ConvConns
  <1> HIDE DEF new
  <1>10. sconns' \in [Ips \X Convs -> SConn \cup {NoConn}]
    BY Zenon, <1>1, <1>3, <1>9
  <1>11. ASSUME NEW i \in Ips, NEW c \in Convs, sconns'[<<i, c>>] # NoConn
         PROVE  Claim(c, sconns'[<<i, c>>].app)
    <2>1. CASE <<i, c>> = k
      BY Zenon, <1>1, <1>3, <1>6, <1>7, <1>9, <2>1
    <2>2. CASE <<i, c>> # k
      <3>1. sconns'[<<i, c>>] = sconns[<<i, c>>]
        BY Zenon, <1>1, <1>3, <2>2
      <3> QED BY Zenon, <1>11, <3>1, SocketsClaimed
    <2> QED BY Zenon, <2>1, <2>2
  <1>12. net' \subseteq Packets /\ ip' \in site.ips
    BY Zenon, <1>4, <1>5, <1>8 DEF ConvInv, ConvTypeOK
  <1> QED BY Zenon, <1>4, <1>5, <1>8, <1>10, <1>11, <1>12, ConvServerInv

\* Sockets that are closed, or whose DataStat changes.
LEMMA FewerSockets ==
    ASSUME ConvInv, ip' \in site.ips, net' \subseteq net,
           UNCHANGED <<site, mConvCounter, cconns, mConvMap>>,
           sconns' \in [Ips \X Convs -> SConn \cup {NoConn}],
           \A k \in Ips \X Convs :
              sconns'[k] # NoConn => sconns[k] # NoConn /\ sconns'[k].app = sconns[k].app
    PROVE  ConvInv'
  <1>1. ASSUME NEW i \in Ips, NEW c \in Convs, sconns'[<<i, c>>] # NoConn
        PROVE  Claim(c, sconns'[<<i, c>>].app)
    BY Zenon, <1>1, SocketsClaimed
  <1>2. net' \subseteq Packets
    BY Zenon DEF ConvInv, ConvTypeOK
  <1> QED BY Zenon, <1>1, <1>2, ConvServerInv

\* The network loses or delivers a packet, the server closes sockets, the
\* client moves.
LEMMA ConvClosesInv ==
    ASSUME ConvInv,
           \/ \E p \in net : OnRecvConvRst(p) \/ Lose(p)
           \/ CloseSubGroup \/ ChangeIp
    PROVE  ConvInv'
  <1>1. sconns \in [Ips \X Convs -> SConn \cup {NoConn}] /\ ip \in site.ips
    BY Zenon DEF ConvInv, ConvTypeOK
  <1>2. /\ ip' \in site.ips /\ net' \subseteq net
        /\ UNCHANGED <<site, mConvCounter, cconns, mConvMap>>
    BY Zenon, <1>1 DEF OnRecvConvRst, Lose, CloseSubGroup, ChangeIp
  <1>3. /\ sconns' \in [Ips \X Convs -> SConn \cup {NoConn}]
        /\ \A k \in Ips \X Convs : sconns'[k] \in {sconns[k], NoConn}
    <2>1. CASE \E p \in net : OnRecvConvRst(p)
      <3>1. PICK p \in net : OnRecvConvRst(p)
        BY Zenon, <2>1
      <3>2. sconns' = [sconns EXCEPT ![<<p.ip, p.conv>>] = NoConn]
        BY Zenon, <3>1 DEF OnRecvConvRst
      <3> QED BY Zenon, <1>1, <3>2
    <2>2. CASE CloseSubGroup
      BY Zenon, <1>1, <2>2 DEF CloseSubGroup
    <2>3. CASE UNCHANGED sconns
      BY Zenon, <1>1, <2>3
    <2> QED BY Zenon, <2>1, <2>2, <2>3 DEF Lose, ChangeIp
  <1> QED BY Zenon, <1>2, <1>3, FewerSockets

LEMMA ConvServerFlushInv ==
    ASSUME ConvInv, ServerFlush
    PROVE  ConvInv'
  <1>1. sconns \in [Ips \X Convs -> SConn \cup {NoConn}] /\ ip \in site.ips
    BY Zenon DEF ConvInv, ConvTypeOK
  <1>2. /\ ip' \in site.ips /\ net' \subseteq net
        /\ UNCHANGED <<site, mConvCounter, cconns, mConvMap>>
    BY Zenon, <1>1 DEF ServerFlush
  <1>3. sconns' = [k \in Ips \X Convs |->
                     IF sconns[k] = NoConn \/ Dead(sconns[k]) THEN NoConn
                     ELSE [sconns[k] EXCEPT !.stat = FlushStat(sconns[k].stat)]]
    BY Zenon, <1>1 DEF ServerFlush, Flushed
  <1>4. ASSUME NEW k \in Ips \X Convs
        PROVE  \/ sconns'[k] = NoConn
               \/ /\ sconns'[k] \in SConn /\ sconns[k] # NoConn
                  /\ sconns'[k].app = sconns[k].app
    <2>1. CASE sconns[k] = NoConn \/ Dead(sconns[k])
      BY Zenon, <1>3, <2>1
    <2>2. CASE ~(sconns[k] = NoConn \/ Dead(sconns[k]))
      <3>1. sconns[k] \in SConn /\ FlushStat(sconns[k].stat) \in Stat
        BY Zenon, <1>1, <2>2, ConvStats DEF SConn
      <3>2. sconns'[k] = [sconns[k] EXCEPT !.stat = FlushStat(sconns[k].stat)]
        BY Zenon, <1>3, <2>2
      <3> QED BY <2>2, <3>1, <3>2, ConvConns, SMTT(60)
    <2> QED BY Zenon, <2>1, <2>2
  <1>5. sconns' \in [Ips \X Convs -> SConn \cup {NoConn}]
    BY Zenon, <1>3, <1>4
  <1> QED BY Zenon, <1>2, <1>4, <1>5, FewerSockets

\* IGroup::Flush takes a dead CConn out of both of ClientGroup's indexes.
LEMMA ConvClientFlushInv ==
    ASSUME ConvInv, ClientFlush
    PROVE  ConvInv'
  <1>1. /\ cconns \in [Apps -> CConn \cup {NoConn}]
        /\ mConvMap \in [Convs -> Apps \cup {NoConn}]
        /\ NoConn \notin Apps
    BY Zenon, ConvAssumption DEF ConvInv, ConvTypeOK
  <1>2. UNCHANGED <<site, ip, mConvCounter, sconns, net>>
    BY Zenon DEF ClientFlush
  <1>3. cconns' = [a \in Apps |->
                     IF cconns[a] = NoConn \/ Dead(cconns[a]) THEN NoConn
                     ELSE [cconns[a] EXCEPT !.stat = FlushStat(cconns[a].stat)]]
    BY Zenon, <1>1 DEF ClientFlush, Flushed
  <1>4. mConvMap' = [c \in Convs |->
                       IF \E a \in Apps : Dead(cconns[a]) /\ cconns[a].conv = c THEN NoConn
                       ELSE mConvMap[c]]
    BY Zenon DEF ClientFlush
  <1>5. ASSUME NEW a \in Apps
        PROVE  /\ cconns'[a] \in CConn \cup {NoConn}
               /\ cconns'[a] = NoConn <=> cconns[a] = NoConn \/ Dead(cconns[a])
               /\ cconns'[a] # NoConn => cconns'[a].conv = cconns[a].conv
    <2>1. CASE cconns[a] = NoConn \/ Dead(cconns[a])
      BY Zenon, <1>3, <2>1
    <2>2. CASE ~(cconns[a] = NoConn \/ Dead(cconns[a]))
      <3>1. cconns[a] \in CConn /\ FlushStat(cconns[a].stat) \in Stat
        BY Zenon, <1>1, <2>2, ConvStats DEF CConn
      <3>2. cconns'[a] = [cconns[a] EXCEPT !.stat = FlushStat(cconns[a].stat)]
        BY Zenon, <1>3, <2>2
      <3> QED BY <2>2, <3>1, <3>2, ConvConns, SMTT(60)
    <2> QED BY Zenon, <2>1, <2>2
  <1>6. /\ mConvMap' \in [Convs -> Apps \cup {NoConn}]
        /\ \A c \in Convs : mConvMap'[c] \in {mConvMap[c], NoConn}
    BY Zenon, <1>1, <1>4
  <1>7. ConvTypeOK'
    <2>1. cconns' \in [Apps -> CConn \cup {NoConn}]
      BY Zenon, <1>3, <1>5
    <2> QED BY Zenon, <1>2, <1>6, <2>1 DEF ConvInv, ConvTypeOK
  <1>8. MapsAgree'
    <2> SUFFICES ASSUME NEW c \in Convs, NEW a \in Apps
                 PROVE  mConvMap'[c] = a <=> (cconns'[a] # NoConn /\ cconns'[a].conv = c)
      BY Zenon DEF MapsAgree
    <2>1. \A b \in Apps : mConvMap[c] = b <=> (cconns[b] # NoConn /\ cconns[b].conv = c)
      BY Zenon DEF ConvInv, MapsAgree
    <2>2. \A b \in Apps : Dead(cconns[b]) => cconns[b] # NoConn
      BY Zenon DEF Dead
    <2>3. mConvMap'[c] = a <=> mConvMap[c] = a /\ ~Dead(cconns[a])
      BY Zenon, <1>1, <1>4, <2>1, <2>2
    <2> QED BY Zenon, <1>5, <2>1, <2>3
  <1>9. ClaimsSound'
    BY Zenon, <1>1, <1>2, <1>6, SocketsClaimed, NothingClaimed
  <1> QED BY Zenon, <1>7, <1>8, <1>9 DEF ConvInv

LEMMA ConvNextInv ==
    ASSUME ConvInv, [ConvNext]_convVars
    PROVE  ConvInv'
  <1>1. CASE \E a \in site.apps : \/ onLocalRecvNew(a) \/ onLocalRecvNewFailed(a)
                                  \/ onLocalRecv(a)
    BY Zenon, <1>1, onLocalRecvNewInv, onLocalRecvInv
  <1>2. CASE \E p \in net : ClientOnRecv(p) \/ SendConvRst(p) \/ ServerOnRecv(p)
    BY Zenon, <1>2, ClientOnRecvInv, SendConvRstInv, ServerOnRecvInv
  <1>3. CASE \/ \E p \in net : OnRecvConvRst(p) \/ Lose(p)
             \/ CloseSubGroup \/ ChangeIp
    BY Zenon, <1>3, ConvClosesInv
  <1>4. CASE \E k \in Ips \X Convs : udpRecvCb(k)
    BY Zenon, <1>4, ConvUdpRecvCbInv
  <1>5. CASE ClientFlush
    BY Zenon, <1>5, ConvClientFlushInv
  <1>6. CASE ServerFlush
    BY Zenon, <1>6, ConvServerFlushInv
  <1>7. CASE UNCHANGED convVars
    <2>1. UNCHANGED <<site, ip, mConvCounter, cconns, mConvMap, sconns, net>>
      BY Zenon, <1>7 DEF convVars
    <2>2. /\ net' \subseteq Packets /\ ip' \in site.ips
          /\ sconns' \in [Ips \X Convs -> SConn \cup {NoConn}]
      BY Zenon, <2>1 DEF ConvInv, ConvTypeOK
    <2> QED BY Zenon, <2>1, <2>2, SocketsClaimed, ConvServerInv
  <1> QED BY Zenon, <1>1, <1>2, <1>3, <1>4, <1>5, <1>6, <1>7 DEF ConvNext

LEMMA ConvInductive == ConvSpec => []ConvInv
  <1>1. ConvInit => ConvInv
    BY Zenon, ConvInitInv
  <1>2. ConvInv /\ [ConvNext]_convVars => ConvInv'
    BY Zenon, ConvNextInv
  <1> QED BY <1>1, <1>2, PTL DEF ConvSpec

\* ClientGroup's two indexes describe the same conversations in every state,
\* for any applications, addresses and packets under way.
THEOREM ConvMapsAgree == ConvSpec => []MapsAgree
  <1>1. ConvInv => MapsAgree
    BY Zenon DEF ConvInv
  <1> QED BY <1>1, ConvInductive, PTL

\* Nobody is given what the target answered to somebody else, and no socket to
\* the target serves two applications: a number given out once belongs to the
\* same application wherever it still appears.
THEOREM ConvNoCrossTalk == ConvSpec => []NoCrossTalk
  <1>1. ASSUME ConvInv PROVE NoCrossTalk
    <2>1. ASSUME NEW p \in net, p.cmd = "DOWN" PROVE mConvMap[p.conv] \in {NoConn, p.app}
      <3>1. p.conv \in Convs /\ p.app \in Apps /\ mConvMap[p.conv] \in Apps \cup {NoConn}
        BY Zenon, <1>1, <2>1, ConvPackets DEF ConvInv, ConvTypeOK
      <3>2. Claim(p.conv, p.app) /\ Claim(p.conv, mConvMap[p.conv])
        BY Zenon, <2>1 DEF Claim
      <3> QED BY Zenon, <1>1, <3>1, <3>2 DEF ConvInv, ClaimsSound
    <2>2. ASSUME NEW p \in net, p.cmd = "UP", sconns[<<p.ip, p.conv>>] # NoConn
          PROVE  sconns[<<p.ip, p.conv>>].app = p.app
      <3>1. /\ p.conv \in Convs /\ p.app \in Apps /\ p.ip \in Ips
            /\ sconns[<<p.ip, p.conv>>] \in SConn
        BY Zenon, <1>1, <2>2, ConvPackets DEF ConvInv, ConvTypeOK
      <3>2. Claim(p.conv, p.app) /\ Claim(p.conv, sconns[<<p.ip, p.conv>>].app)
        BY Zenon, <2>2, <3>1 DEF Claim
      <3>3. sconns[<<p.ip, p.conv>>].app \in Apps
        BY Zenon, <3>1 DEF SConn
      <3> QED BY Zenon, <1>1, <3>1, <3>2, <3>3 DEF ConvInv, ClaimsSound
    <2> QED BY Zenon, <2>1, <2>2 DEF NoCrossTalk
  <1> QED BY <1>1, ConvInductive, PTL
=============================================================================
