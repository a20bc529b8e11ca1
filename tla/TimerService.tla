---------------------------- MODULE TimerService ----------------------------
(***************************************************************************)
(* src/service/TimerService.cpp: the periodic callbacks of the program     *)
(* (keep-alive, ack pool, network manager, application flush), all driven  *)
(* by one repeating uv timer on the loop thread.                           *)
(*                                                                         *)
(* mExpireMap is ordered by expiry time and holds one observer per time.   *)
(* Times are kept relative to rsk_now_ms(): a key k expires in k ms, and a *)
(* key that is not positive is due.  The callback of one observer may      *)
(* unregister another: AppTimer's flush closes the dead groups of a server *)
(* and each group unregisters its keep-alive.                              *)
(***************************************************************************)
EXTENDS Integers, Sequences, FiniteSets

CONSTANTS
    Observers,      \* ITimerObserver objects
    IntervalMs,     \* their periods
    MaxLate,        \* how late the loop may be with a due entry
    None            \* no entry is being flushed

ASSUME TimerAssumption ==
    /\ IsFiniteSet(Observers)
    /\ IntervalMs \in [Observers -> Nat \ {0}]
    /\ MaxLate \in Nat
    /\ None \notin Int

VARIABLES
    mObserver,      \* registered observers
    mExpireMap,     \* partial function from times to observers
    aCopy,          \* onFlush's local: the observers flushed, by time of entry
    it,             \* key of the entry whose OnFlush runs
    phase           \* where onFlush is

vars == <<mObserver, mExpireMap, aCopy, it, phase>>

Phases == {"idle", "loop", "call", "rearm"}

IsEntryMap(m) ==
    /\ m \in [DOMAIN m -> Observers]
    /\ DOMAIN m \subseteq Int

TypeOK ==
    /\ mObserver \subseteq Observers
    /\ IsEntryMap(mExpireMap)
    /\ aCopy \in Seq(Observers)
    /\ it \in Int \cup {None}
    /\ phase \in Phases
    /\ phase = "call" <=> it # None
    /\ phase = "idle" => aCopy = <<>>
    /\ \A k \in DOMAIN mExpireMap : k >= -MaxLate

Empty == [k \in {} |-> CHOOSE o \in Observers : TRUE]

Init ==
    /\ mObserver = {}
    /\ mExpireMap = Empty
    /\ aCopy = <<>>
    /\ it = None
    /\ phase = "idle"

-----------------------------------------------------------------------------
Put(m, k, o) == [j \in DOMAIN m \cup {k} |-> IF j = k THEN o ELSE m[j]]

Erase(m, k) == [j \in DOMAIN m \ {k} |-> m[j]]

IsFirst(m, k) == k \in DOMAIN m /\ \A j \in DOMAIN m : k <= j

nextExpireTs_NoProbe(m, start, ts) == ts = start

\* ts is the first time from start on that no entry has.
nextExpireTs(m, start, ts) ==
    /\ ts >= start
    /\ ts \notin DOMAIN m
    /\ \A j \in start .. ts - 1 : j \in DOMAIN m

\* emplace changes nothing when the key is taken.
Schedule(o) ==
    \E ts \in IntervalMs[o] .. IntervalMs[o] + Cardinality(DOMAIN mExpireMap) :
        /\ nextExpireTs(mExpireMap, IntervalMs[o], ts)
        /\ mExpireMap' = IF ts \in DOMAIN mExpireMap THEN mExpireMap ELSE Put(mExpireMap, ts, o)

RegisterObserver(o) ==
    /\ phase = "idle"
    /\ o \notin mObserver
    /\ mObserver' = mObserver \cup {o}
    /\ Schedule(o)
    /\ UNCHANGED <<aCopy, it, phase>>

\* o's first entry.
IsFirstOf(m, o, k) ==
    /\ k \in DOMAIN m /\ m[k] = o
    /\ \A j \in DOMAIN m : m[j] = o => k <= j

UnRegisterObserver(o) ==
    /\ mObserver' = mObserver \ {o}
    /\ \/ \E k \in DOMAIN mExpireMap :
            IsFirstOf(mExpireMap, o, k) /\ mExpireMap' = Erase(mExpireMap, k)
       \/ /\ \A k \in DOMAIN mExpireMap : mExpireMap[k] # o
          /\ UNCHANGED mExpireMap
    /\ UNCHANGED <<aCopy, it, phase>>

\* Outside a flush, and by the OnFlush of another observer.
Unregister(o) ==
    /\ o \in mObserver
    /\ \/ phase = "idle"
       \/ phase = "call" /\ mExpireMap[it] # o
    /\ UnRegisterObserver(o)

-----------------------------------------------------------------------------
\* onFlush, one action per iteration and per callback.  Before the first
\* RegisterObserver starts the timer the map is empty and there is nothing to do.
timerCb ==
    /\ phase = "idle"
    /\ phase' = "loop"
    /\ UNCHANGED <<mObserver, mExpireMap, aCopy, it>>

IsDue(k) == k <= 0

OnFlushCall ==
    /\ phase = "loop"
    /\ \E k \in DOMAIN mExpireMap : IsFirst(mExpireMap, k) /\ IsDue(k) /\ it' = k
    /\ phase' = "call"
    /\ UNCHANGED <<mObserver, mExpireMap, aCopy>>

OnFlushReturn_KeepEntry ==
    /\ phase = "call"
    /\ aCopy' = Append(aCopy, mExpireMap[it])
    /\ it' = None
    /\ phase' = "loop"
    /\ UNCHANGED <<mObserver, mExpireMap>>

(***************************************************************************)
(* The entries come out of the map by time, so they are in order in aCopy  *)
(* and no two of them have the same key.                                   *)
(***************************************************************************)
OnFlushReturn ==
    /\ phase = "call"
    /\ aCopy' = Append(aCopy, mExpireMap[it])
    /\ mExpireMap' = Erase(mExpireMap, it)
    /\ it' = None
    /\ phase' = "loop"
    /\ UNCHANGED mObserver

LoopDone ==
    /\ phase = "loop"
    /\ \A k \in DOMAIN mExpireMap : ~IsDue(k)
    /\ phase' = "rearm"
    /\ UNCHANGED <<mObserver, mExpireMap, aCopy, it>>

Rearm_Unchecked ==
    /\ phase = "rearm"
    /\ aCopy # <<>>
    /\ aCopy' = Tail(aCopy)
    /\ Schedule(Head(aCopy))
    /\ UNCHANGED <<mObserver, it, phase>>

Rearm ==
    /\ phase = "rearm"
    /\ aCopy # <<>>
    /\ aCopy' = Tail(aCopy)
    /\ IF Head(aCopy) \in mObserver THEN Schedule(Head(aCopy)) ELSE UNCHANGED mExpireMap
    /\ UNCHANGED <<mObserver, it, phase>>

RearmDone ==
    /\ phase = "rearm"
    /\ aCopy = <<>>
    /\ phase' = "idle"
    /\ UNCHANGED <<mObserver, mExpireMap, aCopy, it>>

Shift(m) == [k \in {j - 1 : j \in DOMAIN m} |-> m[k + 1]]

\* A millisecond passes.  The second loop of onFlush uses one reading of now.
Tick ==
    /\ phase # "rearm"
    /\ \A k \in DOMAIN mExpireMap : k > -MaxLate
    /\ mExpireMap' = Shift(mExpireMap)
    /\ it' = IF it = None THEN None ELSE it - 1
    /\ UNCHANGED <<mObserver, aCopy, phase>>

Next ==
    \/ \E o \in Observers : RegisterObserver(o) \/ Unregister(o)
    \/ timerCb \/ OnFlushCall \/ OnFlushReturn \/ LoopDone
    \/ Rearm \/ RearmDone
    \/ Tick

Spec == Init /\ [][Next]_vars

(***************************************************************************)
(* The uv timer repeats and every callback returns; the clock moves on     *)
(* however often the timer fires.                                          *)
(***************************************************************************)
onFlush ==
    \/ timerCb \/ OnFlushCall \/ OnFlushReturn \/ LoopDone
    \/ Rearm \/ RearmDone

FairSpec == Spec /\ WF_vars(onFlush) /\ SF_vars(Tick)

-----------------------------------------------------------------------------
KeysOf(m, o) == {k \in DOMAIN m : m[k] = o}

(***************************************************************************)
(* onFlush keeps every registered observer scheduled exactly once: it has  *)
(* one entry in mExpireMap, or one in aCopy that waits to be put back, and *)
(* never both, whatever its neighbours' callbacks unregister and however   *)
(* its expiry time collides with theirs.                                   *)
(***************************************************************************)
ScheduledOnce ==
    \A o \in mObserver :
        Cardinality(KeysOf(mExpireMap, o)) + Cardinality(KeysOf(aCopy, o)) = 1

(***************************************************************************)
(* An observer that unregistered may be deleted, so onFlush never finds it *)
(* in mExpireMap, and the entry whose callback runs is still in the map    *)
(* when the callback returns and onFlush uses its iterator.                *)
(***************************************************************************)
NoDangling ==
    /\ \A k \in DOMAIN mExpireMap : mExpireMap[k] \in mObserver
    /\ it # None => it \in DOMAIN mExpireMap

(***************************************************************************)
(* An observer that stays registered is flushed again and again: no other  *)
(* observer's period, callback or colliding expiry time starves it.        *)
(***************************************************************************)
FlushedForever ==
    \A o \in Observers :
        []<>(o \notin mObserver \/ (it # None /\ mExpireMap[it] = o))
=============================================================================
