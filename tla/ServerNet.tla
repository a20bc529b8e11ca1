----------------------------- MODULE ServerNet -----------------------------
(***************************************************************************)
(* How the server gets a FakeTcp: the kernel's connections, TcpListenPool  *)
(* and ServerNetManager (server/ServerNetManager.cpp), the pcap thread     *)
(* (conn/RawTcp.cpp RawInput) with TcpAckPool, the socket pair from the    *)
(* pcap thread to the loop thread, and SNetGroup::CreateNetConn.           *)
(*                                                                         *)
(* A socket is <<k, isn>>: the isn-th connection of key k.  The loop       *)
(* thread is idle, or inside GetTcp: waiting for the record of the socket  *)
(* it took from the pool, or past the wait with no record.                 *)
(***************************************************************************)
EXTENDS TcpAckPool, Sequences, FiniteSets

CONSTANTS
    NoTcp,          \* no socket for a key
    MaxCap,         \* captured packets the pcap thread has not yet handled
    MaxSync,        \* packets the socket pair holds
    ResetKeys       \* the keys whose peer may reset a connection

VARIABLES
    kernel,         \* the connection the kernel has for a key, 0 for none
    lastIsn,        \* connections each key has had
    backlog,        \* sockets the listening socket has not yet returned
    opened,         \* sockets with an open uv_tcp_t
    mPool,          \* ServerNetManager::mPool
    fake,           \* which connection of a key has a FakeTcp, 0 for none
    cap,            \* captured packets, oldest first
    sync,           \* data packets in the socket pair
    held,           \* the socket GetTcp has taken from the pool
    failed          \* GetTcp's wait returned false

netVars == <<kernel, lastIsn, backlog>>
tcpVars == <<opened, mPool, fake, held, failed>>
vars == <<ackVars, netVars, tcpVars, cap, sync>>

Sockets == Keys \X Isns
Pooled == [isn : Isns, due : BOOLEAN]
Captured == [type : {"SYN", "DATA"}, key : Keys, isn : Isns]

ASSUME ServerNetAssumption ==
    /\ NoTcp \notin Pooled \cup Sockets
    /\ MaxCap \in Nat \ {0}
    /\ MaxSync \in Nat \ {0}
    /\ ResetKeys \subseteq Keys

TypeOK ==
    /\ AckTypeOK
    /\ kernel \in [Keys -> 0 .. MaxIsn]
    /\ lastIsn \in [Keys -> 0 .. MaxIsn]
    /\ backlog \subseteq Sockets
    /\ opened \subseteq Sockets
    /\ mPool \in [Keys -> Pooled \cup {NoTcp}]
    /\ fake \in [Keys -> 0 .. MaxIsn]
    /\ held \in Sockets \cup {NoTcp}
    /\ failed \in BOOLEAN
    /\ cap \in Seq(Captured)
    /\ sync \in Seq(Keys)

Init ==
    /\ AckInit
    /\ kernel = [k \in Keys |-> 0]
    /\ lastIsn = [k \in Keys |-> 0]
    /\ backlog = {}
    /\ opened = {}
    /\ mPool = [k \in Keys |-> NoTcp]
    /\ fake = [k \in Keys |-> 0]
    /\ cap = <<>>
    /\ sync = <<>>
    /\ held = NoTcp
    /\ failed = FALSE

\* The loop thread is between two callbacks.
Idle == held = NoTcp

-----------------------------------------------------------------------------
(* The peer and the kernel. *)

\* A client connects: the kernel's handshake is captured and the socket can be
\* accepted.
Connect(k) ==
    /\ kernel[k] = 0
    /\ lastIsn[k] < MaxIsn
    /\ Len(cap) < MaxCap
    /\ lastIsn' = [lastIsn EXCEPT ![k] = @ + 1]
    /\ kernel' = [kernel EXCEPT ![k] = lastIsn[k] + 1]
    /\ backlog' = backlog \cup {<<k, lastIsn[k] + 1>>}
    /\ cap' = Append(cap, [type |-> "SYN", key |-> k, isn |-> lastIsn[k] + 1])
    /\ UNCHANGED <<ackVars, tcpVars, sync>>

\* The client sends data over the connection.
PeerData(k) ==
    /\ kernel[k] # 0
    /\ Len(cap) < MaxCap
    /\ cap' = Append(cap, [type |-> "DATA", key |-> k, isn |-> kernel[k]])
    /\ UNCHANGED <<ackVars, netVars, tcpVars, sync>>

\* The peer resets the connection; the server's socket stays open.
PeerReset(k) ==
    /\ k \in ResetKeys
    /\ kernel[k] # 0
    /\ kernel' = [kernel EXCEPT ![k] = 0]
    /\ UNCHANGED <<ackVars, lastIsn, backlog, tcpVars, cap, sync>>

-----------------------------------------------------------------------------
(* The pcap thread. *)

\* RawInput on a SYN.
CaptureSyn ==
    /\ cap # <<>>
    /\ Head(cap).type = "SYN"
    /\ AddInfoFromPeer(Head(cap).key, Head(cap).isn)
    /\ cap' = Tail(cap)
    /\ UNCHANGED <<netVars, tcpVars, sync>>

Notify == notify_all /\ UNCHANGED <<netVars, tcpVars, cap, sync>>

\* RawInput on data: cap2uv writes to the socket pair, and blocks when it is
\* full.
CaptureData ==
    /\ ~notifying
    /\ cap # <<>>
    /\ Head(cap).type = "DATA"
    /\ Len(sync) < MaxSync
    /\ sync' = Append(sync, Head(cap).key)
    /\ cap' = Tail(cap)
    /\ UNCHANGED <<ackVars, netVars, tcpVars>>

-----------------------------------------------------------------------------
(* The loop thread. *)

\* closeTcp, and what it does to the kernel's connection.
closeTcp(socks) ==
    /\ opened' = opened \ socks
    /\ kernel' = [k \in Keys |-> IF <<k, kernel[k]>> \in socks THEN 0 ELSE kernel[k]]

\* GetTcpInfo fails for a socket whose peer has reset it: the socket is then
\* neither pooled nor closed, and the empty TcpInfo removes no record.  emplace
\* leaves an entry that is already there.
add2Pool(s) ==
    /\ opened' = opened \cup {s}
    /\ mPool' = IF kernel[s[1]] = s[2] /\ mPool[s[1]] = NoTcp
                THEN [mPool EXCEPT ![s[1]] = [isn |-> s[2], due |-> FALSE]]
                ELSE mPool

\* TcpListenPool::new_conn_cb accepts and hands the socket on.
OnNewConnection(s) ==
    /\ Idle
    /\ s \in backlog
    /\ backlog' = backlog \ {s}
    /\ add2Pool(s)
    /\ UNCHANGED <<ackVars, kernel, lastIsn, fake, held, failed, cap, sync>>

\* Data for a key that has its FakeTcp.
InputMember ==
    /\ Idle
    /\ sync # <<>>
    /\ fake[Head(sync)] # 0
    /\ sync' = Tail(sync)
    /\ UNCHANGED <<ackVars, netVars, tcpVars, cap>>

\* CreateNetConn, GetTcp: no socket in the pool.  The record goes too, and the
\* peer gets a reset.
GetTcpNone ==
    /\ Idle
    /\ sync # <<>>
    /\ LET k == Head(sync)
       IN  fake[k] = 0 /\ mPool[k] = NoTcp /\ RemoveInfo(k)
    /\ sync' = Tail(sync)
    /\ UNCHANGED <<netVars, tcpVars, cap>>

\* GetTcp takes the socket out of the pool and the record is there.
GetTcpFound ==
    /\ Idle
    /\ sync # <<>>
    /\ LET k == Head(sync)
       IN  /\ fake[k] = 0
           /\ mPool[k] # NoTcp
           /\ Transfer(k)
           /\ fake' = [fake EXCEPT ![k] = mPool[k].isn]
           /\ mPool' = [mPool EXCEPT ![k] = NoTcp]
    /\ sync' = Tail(sync)
    /\ UNCHANGED <<netVars, opened, held, failed, cap>>

\* GetTcp takes the socket out of the pool and has to wait for the record.
GetTcpWait ==
    /\ Idle
    /\ sync # <<>>
    /\ LET k == Head(sync)
       IN  /\ fake[k] = 0
           /\ mPool[k] # NoTcp
           /\ Wait(k)
           /\ held' = <<k, mPool[k].isn>>
           /\ mPool' = [mPool EXCEPT ![k] = NoTcp]
    /\ sync' = Tail(sync)
    /\ UNCHANGED <<netVars, opened, fake, failed, cap>>

\* Woken up: the record is there.
WokenFound ==
    /\ waiter # NoWait
    /\ waiter.woken
    /\ Transfer(waiter.key)
    /\ fake' = [fake EXCEPT ![held[1]] = held[2]]
    /\ held' = NoTcp
    /\ UNCHANGED <<netVars, opened, mPool, failed, cap, sync>>

\* Woken up for another key: wait again.
WokenWait ==
    /\ waiter # NoWait
    /\ waiter.woken
    /\ Wait(waiter.key)
    /\ UNCHANGED <<netVars, tcpVars, cap, sync>>

Spurious == SpuriousWakeup /\ UNCHANGED <<netVars, tcpVars, cap, sync>>

\* The wait times out and GetTcp closes the socket.
WaitTimeout ==
    /\ Timeout
    /\ failed' = TRUE
    /\ closeTcp({held})
    /\ UNCHANGED <<lastIsn, backlog, mPool, fake, held, cap, sync>>

\* GetTcp removes the record, should it have come since, and gives up.
GetTcpFailed ==
    /\ failed
    /\ RemoveInfo(held[1])
    /\ failed' = FALSE
    /\ held' = NoTcp
    /\ UNCHANGED <<netVars, opened, mPool, fake, cap, sync>>

\* ServerNetManager::OnFlush closes the expired sockets of the pool.
Expired == {<<k, mPool[k].isn>> : k \in {j \in Keys : mPool[j] # NoTcp /\ mPool[j].due}}

FlushPool_NoClose ==
    /\ Idle
    /\ mPool' = [k \in Keys |-> IF mPool[k] # NoTcp /\ mPool[k].due THEN NoTcp ELSE mPool[k]]
    /\ UNCHANGED <<ackVars, netVars, opened, fake, held, failed, cap, sync>>

FlushPool_Keep == Idle /\ UNCHANGED vars

FlushPool ==
    /\ Idle
    /\ closeTcp(Expired)
    /\ mPool' = [k \in Keys |-> IF mPool[k] # NoTcp /\ mPool[k].due THEN NoTcp ELSE mPool[k]]
    /\ UNCHANGED <<ackVars, lastIsn, backlog, fake, held, failed, cap, sync>>

FlushAckPool == Idle /\ FlushInfos /\ UNCHANGED <<netVars, tcpVars, cap, sync>>

\* The expiry of a pooled socket, or of a record, passes.
ExpirePooled(k) ==
    /\ mPool[k] # NoTcp
    /\ ~mPool[k].due
    /\ mPool' = [mPool EXCEPT ![k] = [isn |-> @.isn, due |-> TRUE]]
    /\ UNCHANGED <<ackVars, netVars, opened, fake, held, failed, cap, sync>>

ExpireRecord(k) == ExpireInfo(k) /\ UNCHANGED <<netVars, tcpVars, cap, sync>>

\* The group closes a FakeTcp it found dead.
CloseFake(k) ==
    /\ Idle
    /\ fake[k] # 0
    /\ fake' = [fake EXCEPT ![k] = 0]
    /\ closeTcp({<<k, fake[k]>>})
    /\ UNCHANGED <<ackVars, lastIsn, backlog, mPool, held, failed, cap, sync>>

Next ==
    \/ \E k \in Keys : Connect(k) \/ PeerData(k) \/ PeerReset(k)
    \/ CaptureSyn \/ Notify \/ CaptureData
    \/ \E s \in Sockets : OnNewConnection(s)
    \/ InputMember \/ GetTcpNone \/ GetTcpFound \/ GetTcpWait
    \/ WokenFound \/ WokenWait \/ Spurious \/ WaitTimeout \/ GetTcpFailed
    \/ FlushPool \/ FlushAckPool
    \/ \E k \in Keys : ExpirePooled(k) \/ ExpireRecord(k) \/ CloseFake(k)

Spec == Init /\ [][Next]_vars

\* A wait_for that nothing wakes up times out.  One that is woken up returns to
\* the loop of Wait2TransferInfo, which takes the record or starts to wait anew,
\* for all of BLOCK_WAIT_MS.  GetTcp goes on, deadlines pass, and the flush timer
\* fires in a loop that gets back to its timers again and again.  Nothing is
\* asked of the pcap thread.
Fairness ==
    /\ WF_vars(WaitTimeout /\ ~waiter.woken)
    /\ WF_vars(WokenFound) /\ WF_vars(WokenWait) /\ WF_vars(GetTcpFailed)
    /\ SF_vars(FlushPool)
    /\ \A k \in Keys : WF_vars(ExpirePooled(k))

FairSpec == Spec /\ Fairness

-----------------------------------------------------------------------------
Holding(k) == held # NoTcp /\ held[1] = k /\ ~failed

Holds(k, i) ==
    \/ mPool[k] # NoTcp /\ mPool[k].isn = i
    \/ fake[k] = i
    \/ Holding(k) /\ held[2] = i

Steady == Keys \ ResetKeys

\* As long as its peer resets none, every open socket of a key is in the pool,
\* in a FakeTcp or in the hands of GetTcp, and whatever is there is open: none
\* leaks, and none is used after its close.  Resets of other keys, and waits
\* for them, make no difference.  (A reset before the accept leaks the socket,
\* see add2Pool.)
HandlesOwned == \A k \in Steady, i \in Isns : <<k, i>> \in opened <=> Holds(k, i)

\* As long as the loop thread keeps coming back from GetTcp, every pooled socket
\* ends up in a FakeTcp or closed: none waits for ever in the pool for data that
\* does not come, or for a record that was removed.
HandleSettled ==
    []<>Idle => \A k \in Keys : mPool[k] # NoTcp ~> mPool[k] = NoTcp

\* The loop thread leaves GetTcp, even with the pcap thread blocked on the full
\* socket pair that only the loop thread empties, unless it is woken up for
\* nothing over and over, each time before BLOCK_WAIT_MS have passed:
\* Wait2TransferInfo has no deadline for the wait as a whole.
LoopReturns == []<>Idle \/ []<><<WokenWait>>_vars

=============================================================================
