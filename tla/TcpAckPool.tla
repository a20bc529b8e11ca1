----------------------------- MODULE TcpAckPool -----------------------------
(***************************************************************************)
(* net/TcpAckPool.cpp: the sequence numbers of captured SYN packets.  The  *)
(* pcap thread adds them; the loop thread takes them out, waiting up to    *)
(* BLOCK_WAIT_MS on a condition variable.  One step is one critical        *)
(* section of mMutex; notify_all comes after the unlock and is a step of   *)
(* its own.                                                                *)
(***************************************************************************)
EXTENDS Naturals

CONSTANTS
    Keys,           \* the addresses and ports of a TCP connection
    MaxIsn,         \* connections a key may have one after the other
    NoInfo,         \* no record for a key
    NoWait          \* the loop thread is not in Wait2TransferInfo

Isns == 1 .. MaxIsn

VARIABLES
    mInfoPool,      \* records by key: which SYN, and whether it has expired
    waiter,         \* the key the loop thread waits for; woken by a notify
    notifying       \* the pcap thread has unlocked and not yet notified

ackVars == <<mInfoPool, waiter, notifying>>

Infos == [isn : Isns, due : BOOLEAN]
Waits == [key : Keys, woken : BOOLEAN]

ASSUME AckPoolAssumption ==
    /\ MaxIsn \in Nat \ {0}
    /\ NoInfo \notin Infos
    /\ NoWait \notin Waits

AckTypeOK ==
    /\ mInfoPool \in [Keys -> Infos \cup {NoInfo}]
    /\ waiter \in Waits \cup {NoWait}
    /\ notifying \in BOOLEAN

AckInit ==
    /\ mInfoPool = [k \in Keys |-> NoInfo]
    /\ waiter = NoWait
    /\ notifying = FALSE

Contains(k) == mInfoPool[k] # NoInfo

AddInfoFromPeer_NoNotify(k, isn) ==
    /\ ~notifying
    /\ mInfoPool' = [mInfoPool EXCEPT ![k] = [isn |-> isn, due |-> FALSE]]
    /\ UNCHANGED <<waiter, notifying>>

\* mInfoPool[info] = expiry.  The key of a std::map entry stays: a second SYN
\* for a key already in the pool renews the expiry and nothing else.
AddInfoFromPeer(k, isn) ==
    /\ ~notifying
    /\ mInfoPool' = [mInfoPool EXCEPT ![k] =
                       [isn |-> IF @ = NoInfo THEN isn ELSE @.isn, due |-> FALSE]]
    /\ notifying' = TRUE
    /\ UNCHANGED waiter

notify_all ==
    /\ notifying
    /\ notifying' = FALSE
    /\ waiter' = IF waiter = NoWait THEN NoWait ELSE [waiter EXCEPT !.woken = TRUE]
    /\ UNCHANGED mInfoPool

RemoveInfo(k) ==
    /\ mInfoPool' = [mInfoPool EXCEPT ![k] = NoInfo]
    /\ UNCHANGED <<waiter, notifying>>

\* getInfoIfExists and locklessRemove: the caller has the record.
Transfer(k) ==
    /\ Contains(k)
    /\ mInfoPool' = [mInfoPool EXCEPT ![k] = NoInfo]
    /\ waiter' = NoWait
    /\ UNCHANGED notifying

\* Nothing there: wait.  The condition variable forgets earlier notifies.
Wait(k) ==
    /\ ~Contains(k)
    /\ waiter' = [key |-> k, woken |-> FALSE]
    /\ UNCHANGED <<mInfoPool, notifying>>

\* A wake-up nobody caused.
SpuriousWakeup ==
    /\ waiter # NoWait
    /\ ~waiter.woken
    /\ waiter' = [waiter EXCEPT !.woken = TRUE]
    /\ UNCHANGED <<mInfoPool, notifying>>

Timeout_Untimed ==
    /\ waiter # NoWait
    /\ waiter.woken
    /\ waiter' = NoWait
    /\ UNCHANGED <<mInfoPool, notifying>>

\* wait_for returned timeout: the pool is not looked at again.  A notify that
\* comes as the time runs out does not help, wait_for goes by the clock.  Each
\* call of wait_for has the whole BLOCK_WAIT_MS, see ServerNet's Fairness.
Timeout ==
    /\ waiter # NoWait
    /\ waiter' = NoWait
    /\ UNCHANGED <<mInfoPool, notifying>>

\* Time passes for one record.
ExpireInfo(k) ==
    /\ Contains(k)
    /\ ~mInfoPool[k].due
    /\ mInfoPool' = [mInfoPool EXCEPT ![k] = [isn |-> @.isn, due |-> TRUE]]
    /\ UNCHANGED <<waiter, notifying>>

\* TcpAckPool::OnFlush.
FlushInfos ==
    /\ mInfoPool' = [k \in Keys |-> IF Contains(k) /\ mInfoPool[k].due THEN NoInfo
                                    ELSE mInfoPool[k]]
    /\ UNCHANGED <<waiter, notifying>>

\* A record the loop thread waits for never lies in the pool unannounced: the
\* notify that will wake it up is still to come or has come.
NoLostWakeup ==
    waiter # NoWait /\ Contains(waiter.key) => notifying \/ waiter.woken

=============================================================================
