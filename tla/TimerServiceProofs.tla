------------------------- MODULE TimerServiceProofs -------------------------
(***************************************************************************)
(* ScheduledOnce and NoDangling of TimerService, for any finite set of     *)
(* observers with any periods and a loop that is late by any time.         *)
(*                                                                         *)
(* They hold together or not at all: UnRegisterObserver erases the first   *)
(* entry it finds of an observer, which leaves none only because there is  *)
(* never a second, in the map or waiting in aCopy.  The counts are turned  *)
(* into the statement that the map and aCopy, seen as one list, name no    *)
(* observer twice and every registered one.                                *)
(***************************************************************************)
EXTENDS TimerService, FiniteSetTheorems, TLAPS

\* Nobody has two entries.
NoneTwice(m, list) ==
    /\ \A j, k \in DOMAIN m : m[j] = m[k] => j = k
    /\ \A i, j \in 1 .. Len(list) : list[i] = list[j] => i = j
    /\ \A k \in DOMAIN m : \A i \in 1 .. Len(list) : m[k] # list[i]

\* Every observer of obs has one.
AllThere(obs, m, list) ==
    \A o \in obs : (\E k \in DOMAIN m : m[k] = o) \/ (\E i \in 1 .. Len(list) : list[i] = o)

IInv ==
    /\ TypeOK
    /\ NoneTwice(mExpireMap, aCopy)
    /\ AllThere(mObserver, mExpireMap, aCopy)
    /\ NoDangling

-----------------------------------------------------------------------------
\* A set with at most one member, or none, and its size.
LEMMA Sizes ==
    ASSUME NEW S, \A x, y \in S : x = y
    PROVE  Cardinality(S) = IF S = {} THEN 0 ELSE 1
  <1>1. CASE S = {}
    BY Zenon, <1>1, FS_EmptySet
  <1>2. CASE S # {}
    <2>1. PICK x : x \in S
      BY Zenon, <1>2
    <2>2. S = {x}
      BY Zenon, <2>1
    <2> QED BY Zenon, <1>2, <2>2, FS_Singleton
  <1> QED BY Zenon, <1>1, <1>2

LEMMA Implied == IInv => ScheduledOnce /\ NoDangling
  <1> SUFFICES ASSUME IInv, NEW o \in mObserver
               PROVE  Cardinality(KeysOf(mExpireMap, o)) + Cardinality(KeysOf(aCopy, o)) = 1
    BY Zenon DEF IInv, ScheduledOnce
  <1> DEFINE A == KeysOf(mExpireMap, o)
             B == KeysOf(aCopy, o)
  <1>1. DOMAIN aCopy = 1 .. Len(aCopy)
    BY DEF IInv, TypeOK
  <1>2. /\ \A x, y \in A : x = y
        /\ \A x, y \in B : x = y
        /\ A = {} \/ B = {}
        /\ A # {} \/ B # {}
    BY <1>1 DEF IInv, NoneTwice, AllThere, KeysOf
  <1>3. /\ Cardinality(A) = IF A = {} THEN 0 ELSE 1
        /\ Cardinality(B) = IF B = {} THEN 0 ELSE 1
    BY Zenon, <1>2, Sizes
  <1> HIDE DEF A, B
  <1>4. Cardinality(A) + Cardinality(B) = 1
    BY <1>2, <1>3
  <1> QED BY Zenon, <1>4 DEF A, B

LEMMA InitInv == Init => IInv
  <1> SUFFICES ASSUME Init PROVE IInv
    BY Zenon
  <1>1. DOMAIN mExpireMap = {} /\ mExpireMap = [k \in {} |-> CHOOSE o \in Observers : TRUE]
    BY Zenon DEF Init, Empty
  <1>2. /\ mObserver = {} /\ aCopy = <<>> /\ it = None /\ phase = "idle"
    BY Zenon DEF Init
  <1>3. TypeOK
    BY <1>1, <1>2 DEF TypeOK, IsEntryMap, Phases
  <1> QED BY <1>1, <1>2, <1>3 DEF IInv, NoneTwice, AllThere, NoDangling

-----------------------------------------------------------------------------
(* The map. *)

\* Schedule puts the observer under a time that was free.
LEMMA ScheduleKey ==
    ASSUME NEW o \in Observers, Schedule(o)
    PROVE  \E ts \in Nat : ts \notin DOMAIN mExpireMap /\ mExpireMap' = Put(mExpireMap, ts, o)
  <1>1. IntervalMs[o] \in Nat
    BY Zenon, TimerAssumption
  <1>2. PICK ts \in IntervalMs[o] .. IntervalMs[o] + Cardinality(DOMAIN mExpireMap) :
              /\ nextExpireTs(mExpireMap, IntervalMs[o], ts)
              /\ mExpireMap' = IF ts \in DOMAIN mExpireMap THEN mExpireMap
                               ELSE Put(mExpireMap, ts, o)
    BY Zenon DEF Schedule
  <1>3. ts \in Nat
    BY <1>1, <1>2
  <1>4. ts \notin DOMAIN mExpireMap
    BY Zenon, <1>2 DEF nextExpireTs
  <1> QED BY Zenon, <1>2, <1>3, <1>4

LEMMA EraseMap ==
    ASSUME NEW m, IsEntryMap(m), NEW k
    PROVE  /\ IsEntryMap(Erase(m, k))
           /\ DOMAIN Erase(m, k) = DOMAIN m \ {k}
           /\ \A j \in DOMAIN m \ {k} : Erase(m, k)[j] = m[j]
  BY Zenon DEF Erase, IsEntryMap

LEMMA ShiftMap ==
    ASSUME NEW m, IsEntryMap(m)
    PROVE  /\ IsEntryMap(Shift(m))
           /\ \A k : k \in DOMAIN Shift(m) <=> k \in Int /\ k + 1 \in DOMAIN m
           /\ \A k \in DOMAIN Shift(m) : Shift(m)[k] = m[k + 1]
           /\ \A j \in DOMAIN m : j - 1 \in DOMAIN Shift(m) /\ Shift(m)[j - 1] = m[j]
  <1>1. DOMAIN Shift(m) = {j - 1 : j \in DOMAIN m} /\ DOMAIN m \subseteq Int
    BY Zenon DEF Shift, IsEntryMap
  <1>2. \A k : k \in DOMAIN Shift(m) <=> k \in Int /\ k + 1 \in DOMAIN m
    <2>1. ASSUME NEW k \in DOMAIN Shift(m) PROVE k \in Int /\ k + 1 \in DOMAIN m
      <3>1. PICK j \in DOMAIN m : k = j - 1
        BY Zenon, <1>1
      <3>2. j \in Int
        BY Zenon, <1>1
      <3>3. k + 1 = j
        BY <3>1, <3>2
      <3> QED BY <3>1, <3>2, <3>3
    <2>2. ASSUME NEW k \in Int, k + 1 \in DOMAIN m PROVE k \in DOMAIN Shift(m)
      <3>1. k = (k + 1) - 1
        OBVIOUS
      <3> QED BY Zenon, <1>1, <2>2, <3>1
    <2> QED BY Zenon, <2>1, <2>2
  <1>3. \A k \in DOMAIN Shift(m) : Shift(m)[k] = m[k + 1]
    BY Zenon DEF Shift
  <1>4. \A j \in DOMAIN m : j - 1 \in DOMAIN Shift(m) /\ Shift(m)[j - 1] = m[j]
    <2> SUFFICES ASSUME NEW j \in DOMAIN m
                 PROVE  j - 1 \in DOMAIN Shift(m) /\ Shift(m)[j - 1] = m[j]
      BY Zenon
    <2>1. j \in Int /\ j - 1 \in Int /\ (j - 1) + 1 = j
      BY <1>1
    <2> QED BY Zenon, <1>2, <1>3, <2>1
  <1>5. IsEntryMap(Shift(m))
    <2>1. \A k \in DOMAIN Shift(m) : Shift(m)[k] \in Observers
      BY Zenon, <1>2, <1>3 DEF IsEntryMap
    <2>2. Shift(m) = [k \in DOMAIN Shift(m) |-> Shift(m)[k]]
      BY Zenon DEF Shift
    <2> QED BY Zenon, <1>2, <2>1, <2>2 DEF IsEntryMap
  <1> QED BY Zenon, <1>2, <1>3, <1>4, <1>5

-----------------------------------------------------------------------------
(* The steps. *)

\* What a new entry of an observer without one keeps.
LEMMA PutInv ==
    ASSUME NEW m, IsEntryMap(m), NEW list \in Seq(Observers), NEW obs, NoneTwice(m, list),
           NEW ts \in Nat, ts \notin DOMAIN m, NEW o \in Observers,
           \A k \in DOMAIN m : m[k] # o, \A i \in 1 .. Len(list) : list[i] # o,
           AllThere(obs \ {o}, m, list)
    PROVE  /\ NoneTwice(Put(m, ts, o), list)
           /\ AllThere(obs, Put(m, ts, o), list)
  <1> DEFINE p == Put(m, ts, o)
  <1>1. /\ DOMAIN p = DOMAIN m \cup {ts} /\ p[ts] = o /\ \A j \in DOMAIN m : p[j] = m[j]
    BY Zenon DEF Put
  <1> HIDE DEF p
  <1>2. NoneTwice(p, list)
    BY <1>1 DEF NoneTwice
  <1>3. AllThere(obs, p, list)
    BY Zenon, <1>1 DEF AllThere
  <1> QED BY Zenon, <1>2, <1>3 DEF p

LEMMA RegisterInv ==
    ASSUME IInv, NEW o \in Observers, RegisterObserver(o)
    PROVE  IInv'
  <1>1. /\ phase = "idle" /\ o \notin mObserver /\ mObserver' = mObserver \cup {o}
        /\ aCopy' = aCopy /\ it' = it /\ phase' = phase /\ Schedule(o)
    BY Zenon DEF RegisterObserver
  <1>2. PICK ts \in Nat : ts \notin DOMAIN mExpireMap /\ mExpireMap' = Put(mExpireMap, ts, o)
    BY Zenon, <1>1, ScheduleKey
  <1>a. ts \in Int
    OBVIOUS
  <1>3. aCopy = <<>> /\ IsEntryMap(mExpireMap) /\ ts \in Int /\ aCopy \in Seq(Observers)
    BY Zenon, <1>1, <1>a DEF IInv, TypeOK
  <1>4. /\ IsEntryMap(mExpireMap') /\ DOMAIN mExpireMap' = DOMAIN mExpireMap \cup {ts}
        /\ mExpireMap'[ts] = o /\ \A j \in DOMAIN mExpireMap : mExpireMap'[j] = mExpireMap[j]
    BY Zenon, <1>2, <1>3 DEF Put, IsEntryMap
  <1>5. ts >= -MaxLate
    BY TimerAssumption
  <1>6. TypeOK'
    BY Zenon, <1>1, <1>4, <1>5 DEF IInv, TypeOK
  <1>7. NoDangling'
    BY Zenon, <1>1, <1>4 DEF IInv, NoDangling
  <1>8. /\ \A k \in DOMAIN mExpireMap : mExpireMap[k] # o
        /\ AllThere(mObserver' \ {o}, mExpireMap, aCopy)
        /\ NoneTwice(mExpireMap, aCopy)
    BY Zenon, <1>1 DEF IInv, NoDangling, AllThere
  <1>9. NoneTwice(mExpireMap', aCopy) /\ AllThere(mObserver', mExpireMap', aCopy)
    <2>1. \A i \in 1 .. Len(aCopy) : aCopy[i] # o
      BY <1>3
    <2> QED BY Zenon, <1>2, <1>3, <1>8, <2>1, PutInv
  <1> QED BY <1>1, <1>6, <1>7, <1>9 DEF IInv, NoneTwice, AllThere

LEMMA UnregisterInv ==
    ASSUME IInv, NEW o \in Observers, Unregister(o)
    PROVE  IInv'
  <1>1. /\ mObserver' = mObserver \ {o} /\ aCopy' = aCopy /\ it' = it /\ phase' = phase
        /\ phase = "idle" \/ (phase = "call" /\ mExpireMap[it] # o)
    BY Zenon DEF Unregister, UnRegisterObserver
  <1>2. IsEntryMap(mExpireMap)
    BY Zenon DEF IInv, TypeOK
  <1>3. CASE \E k \in DOMAIN mExpireMap :
                IsFirstOf(mExpireMap, o, k) /\ mExpireMap' = Erase(mExpireMap, k)
    <2>1. PICK k \in DOMAIN mExpireMap : mExpireMap[k] = o /\ mExpireMap' = Erase(mExpireMap, k)
      BY Zenon, <1>3 DEF IsFirstOf
    <2>2. /\ IsEntryMap(mExpireMap') /\ DOMAIN mExpireMap' = DOMAIN mExpireMap \ {k}
          /\ \A j \in DOMAIN mExpireMap' : mExpireMap'[j] = mExpireMap[j]
      BY Zenon, <1>2, <2>1, EraseMap
    <2>3. TypeOK'
      BY Zenon, <1>1, <2>2 DEF IInv, TypeOK
    <2>4. \A j \in DOMAIN mExpireMap' : mExpireMap[j] # o
      BY Zenon, <2>1, <2>2 DEF IInv, NoneTwice
    <2>5. NoDangling'
      <3>1. \A j \in DOMAIN mExpireMap' : mExpireMap'[j] \in mObserver'
        BY Zenon, <1>1, <2>2, <2>4 DEF IInv, NoDangling
      <3>2. it # None => it \in DOMAIN mExpireMap'
        BY Zenon, <1>1, <2>1, <2>2 DEF IInv, TypeOK, NoDangling
      <3> QED BY Zenon, <1>1, <3>1, <3>2 DEF NoDangling
    <2>6. NoneTwice(mExpireMap', aCopy)
      BY Zenon, <2>2 DEF IInv, NoneTwice
    <2>7. AllThere(mObserver', mExpireMap', aCopy)
      BY <1>1, <2>1, <2>2 DEF IInv, AllThere
    <2> QED BY <1>1, <2>3, <2>5, <2>6, <2>7 DEF IInv, NoneTwice, AllThere
  <1>4. CASE (\A k \in DOMAIN mExpireMap : mExpireMap[k] # o) /\ UNCHANGED mExpireMap
    <2>1. TypeOK' /\ NoDangling'
      BY Zenon, <1>1, <1>4 DEF IInv, TypeOK, NoDangling
    <2>2. NoneTwice(mExpireMap, aCopy) /\ AllThere(mObserver', mExpireMap, aCopy)
      BY Zenon, <1>1 DEF IInv, AllThere
    <2> QED BY <1>1, <1>4, <2>1, <2>2 DEF IInv, NoneTwice, AllThere
  <1> QED BY Zenon, <1>3, <1>4 DEF Unregister, UnRegisterObserver

\* The steps of onFlush that only move its program counter.
LEMMA PhaseInv ==
    ASSUME IInv, timerCb \/ OnFlushCall \/ LoopDone \/ RearmDone
    PROVE  IInv'
  <1>1. UNCHANGED <<mObserver, mExpireMap, aCopy>>
    BY Zenon DEF timerCb, OnFlushCall, LoopDone, RearmDone
  <1>2. NoneTwice(mExpireMap, aCopy)' /\ AllThere(mObserver, mExpireMap, aCopy)'
    BY <1>1 DEF IInv, NoneTwice, AllThere
  <1>3. CASE timerCb
    BY Zenon, <1>1, <1>2, <1>3 DEF IInv, TypeOK, NoDangling, timerCb, Phases
  <1>4. CASE OnFlushCall
    <2>1. it' \in DOMAIN mExpireMap /\ phase' = "call"
      BY Zenon, <1>4 DEF OnFlushCall, IsFirst
    <2>2. it' \in Int /\ it' # None
      BY Zenon, TimerAssumption, <2>1 DEF IInv, TypeOK, IsEntryMap
    <2> QED BY Zenon, <1>1, <1>2, <2>1, <2>2 DEF IInv, TypeOK, NoDangling, Phases
  <1>5. CASE LoopDone
    BY Zenon, <1>1, <1>2, <1>5 DEF IInv, TypeOK, NoDangling, LoopDone, Phases
  <1>6. CASE RearmDone
    BY Zenon, <1>1, <1>2, <1>6 DEF IInv, TypeOK, NoDangling, RearmDone, Phases
  <1> QED BY Zenon, <1>3, <1>4, <1>5, <1>6

\* The callback has returned: the entry moves from the map to aCopy.
LEMMA OnFlushReturnInv ==
    ASSUME IInv, OnFlushReturn
    PROVE  IInv'
  <1>1. /\ phase = "call" /\ aCopy' = Append(aCopy, mExpireMap[it])
        /\ mExpireMap' = Erase(mExpireMap, it)
        /\ it' = None /\ phase' = "loop" /\ mObserver' = mObserver
    BY Zenon DEF OnFlushReturn
  <1>2. /\ IsEntryMap(mExpireMap) /\ it \in DOMAIN mExpireMap /\ aCopy \in Seq(Observers)
        /\ mObserver \subseteq Observers
        /\ \A k \in DOMAIN mExpireMap : k >= -MaxLate
    BY Zenon, <1>1 DEF IInv, TypeOK, NoDangling
  <1>3. PICK o \in Observers : o = mExpireMap[it]
    BY Zenon, <1>2 DEF IsEntryMap
  <1>4. /\ IsEntryMap(mExpireMap') /\ DOMAIN mExpireMap' = DOMAIN mExpireMap \ {it}
        /\ \A j \in DOMAIN mExpireMap' : mExpireMap'[j] = mExpireMap[j]
    <2>1. IsEntryMap(mExpireMap) /\ mExpireMap' = Erase(mExpireMap, it)
      BY Zenon, <1>1, <1>2
    <2> QED BY Zenon, <2>1, EraseMap
  <1>5. PICK n \in Nat : n = Len(aCopy)
    BY <1>2
  <1>6. /\ aCopy' \in Seq(Observers) /\ Len(aCopy') = n + 1 /\ aCopy'[n + 1] = o
        /\ \A i \in 1 .. n : aCopy'[i] = aCopy[i]
    BY <1>1, <1>2, <1>3, <1>5
  <1>7. TypeOK'
    BY Zenon, <1>1, <1>2, <1>4, <1>6 DEF TypeOK, Phases
  <1>8. NoDangling'
    BY Zenon, <1>1, <1>4 DEF IInv, NoDangling
  <1>9. /\ \A j, k \in DOMAIN mExpireMap : mExpireMap[j] = mExpireMap[k] => j = k
        /\ \A i, j \in 1 .. n : aCopy[i] = aCopy[j] => i = j
        /\ \A k \in DOMAIN mExpireMap : \A i \in 1 .. n : mExpireMap[k] # aCopy[i]
    BY Zenon, <1>5 DEF IInv, NoneTwice
  <1>10. \A i \in 1 .. n + 1 : i \in 1 .. n \/ i = n + 1
    OBVIOUS
  <1>11. NoneTwice(mExpireMap', aCopy')
    <2>1. \A j, k \in DOMAIN mExpireMap' : mExpireMap'[j] = mExpireMap'[k] => j = k
      BY Zenon, <1>4, <1>9
    <2>2. \A i, j \in 1 .. n + 1 : aCopy'[i] = aCopy'[j] => i = j
      <3>1. \A i \in 1 .. n : aCopy'[i] # o
        BY Zenon, <1>2, <1>3, <1>6, <1>9
      <3> QED BY <1>6, <1>9, <1>10, <3>1, Zenon
    <2>3. \A k \in DOMAIN mExpireMap' : \A i \in 1 .. n + 1 : mExpireMap'[k] # aCopy'[i]
      <3>1. \A k \in DOMAIN mExpireMap' : k \in DOMAIN mExpireMap /\ mExpireMap'[k] # o
        BY Zenon, <1>2, <1>3, <1>4, <1>9
      <3> SUFFICES ASSUME NEW k \in DOMAIN mExpireMap', NEW i \in 1 .. n + 1
                   PROVE  mExpireMap'[k] # aCopy'[i]
        BY Zenon
      <3>2. CASE i = n + 1
        BY Zenon, <1>6, <3>1, <3>2
      <3>3. CASE i \in 1 .. n
        BY <1>4, <1>6, <1>9, <3>1, <3>3
      <3> QED BY Zenon, <1>10, <3>2, <3>3
    <2> QED BY Zenon, <1>6, <2>1, <2>2, <2>3 DEF NoneTwice
  <1>12. AllThere(mObserver', mExpireMap', aCopy')
    <2>1. n + 1 \in 1 .. n + 1 /\ \A i \in 1 .. n : i \in 1 .. n + 1
      OBVIOUS
    <2> QED BY <1>1, <1>3, <1>4, <1>5, <1>6, <2>1, SMTT(60) DEF IInv, AllThere
  <1> QED BY Zenon, <1>7, <1>8, <1>11, <1>12 DEF IInv, NoneTwice, AllThere

\* The first of aCopy is put back, if it is still registered.
LEMMA RearmInv ==
    ASSUME IInv, Rearm
    PROVE  IInv'
  <1>1. /\ phase = "rearm" /\ aCopy # <<>> /\ aCopy' = Tail(aCopy)
        /\ IF Head(aCopy) \in mObserver THEN Schedule(Head(aCopy)) ELSE UNCHANGED mExpireMap
        /\ mObserver' = mObserver /\ it' = it /\ phase' = phase
    BY Zenon DEF Rearm
  <1>2. /\ IsEntryMap(mExpireMap) /\ aCopy \in Seq(Observers)
        /\ \A k \in DOMAIN mExpireMap : k >= -MaxLate
    BY Zenon DEF IInv, TypeOK
  <1>3. PICK o \in Observers : o = Head(aCopy) /\ o = aCopy[1]
    <2>1. aCopy \in Seq(Observers) /\ aCopy # <<>>
      BY Zenon, <1>1, <1>2
    <2>2. Head(aCopy) \in Observers /\ Head(aCopy) = aCopy[1]
      BY <2>1
    <2> QED BY Zenon, <2>2
  <1>4. PICK n \in Nat : n + 1 = Len(aCopy)
    <2>1. Len(aCopy) \in Nat /\ Len(aCopy) > 0
      BY <1>1, <1>2
    <2>2. Len(aCopy) - 1 \in Nat /\ (Len(aCopy) - 1) + 1 = Len(aCopy)
      BY <2>1
    <2> QED BY Zenon, <2>2
  <1>5. /\ aCopy' \in Seq(Observers) /\ Len(aCopy') = n
        /\ \A i \in 1 .. n : aCopy'[i] = aCopy[i + 1]
    BY <1>1, <1>2, <1>4
  <1>6. /\ \A j, k \in DOMAIN mExpireMap : mExpireMap[j] = mExpireMap[k] => j = k
        /\ \A i, j \in 1 .. n + 1 : aCopy[i] = aCopy[j] => i = j
        /\ \A k \in DOMAIN mExpireMap : \A i \in 1 .. n + 1 : mExpireMap[k] # aCopy[i]
    BY Zenon, <1>4 DEF IInv, NoneTwice
  <1>7. 1 \in 1 .. n + 1
    OBVIOUS
  <1>8. NoneTwice(mExpireMap, aCopy')
    <2>1. \A i, j \in 1 .. n : aCopy'[i] = aCopy'[j] => i = j
      <3> SUFFICES ASSUME NEW i \in 1 .. n, NEW j \in 1 .. n, aCopy'[i] = aCopy'[j] PROVE i = j
        BY Zenon
      <3>1. i + 1 \in 1 .. n + 1 /\ j + 1 \in 1 .. n + 1
        OBVIOUS
      <3>2. aCopy[i + 1] = aCopy[j + 1]
        BY Zenon, <1>5
      <3>3. i + 1 = j + 1
        BY Zenon, <1>6, <3>1, <3>2
      <3> QED BY <3>3
    <2>2. \A k \in DOMAIN mExpireMap : \A i \in 1 .. n : mExpireMap[k] # aCopy'[i]
      <3> SUFFICES ASSUME NEW k \in DOMAIN mExpireMap, NEW i \in 1 .. n
                   PROVE  mExpireMap[k] # aCopy'[i]
        BY Zenon
      <3>1. i + 1 \in 1 .. n + 1 /\ aCopy'[i] = aCopy[i + 1]
        BY <1>5
      <3> QED BY Zenon, <1>6, <3>1
    <2> QED BY Zenon, <1>5, <1>6, <2>1, <2>2 DEF NoneTwice
  <1>9. AllThere(mObserver \ {o}, mExpireMap, aCopy')
    <2> SUFFICES ASSUME NEW x \in mObserver, x # o
                 PROVE  \/ \E k \in DOMAIN mExpireMap : mExpireMap[k] = x
                        \/ \E i \in 1 .. n : aCopy'[i] = x
      BY Zenon, <1>5 DEF AllThere
    <2>1. CASE \E k \in DOMAIN mExpireMap : mExpireMap[k] = x
      BY Zenon, <2>1
    <2>2. CASE \E i \in 1 .. n + 1 : aCopy[i] = x
      <3>1. PICK i \in 1 .. n + 1 : aCopy[i] = x
        BY Zenon, <2>2
      <3>2. i - 1 \in 1 .. n /\ (i - 1) + 1 = i
        BY <1>3, <3>1
      <3>3. aCopy'[i - 1] = x
        BY Zenon, <1>5, <3>1, <3>2
      <3> QED BY Zenon, <3>2, <3>3
    <2> QED BY Zenon, <1>4, <2>1, <2>2 DEF IInv, AllThere
  <1>10. \A k \in DOMAIN mExpireMap : mExpireMap[k] # o
    BY Zenon, <1>3, <1>6, <1>7
  <1>11. \A i \in 1 .. Len(aCopy') : aCopy'[i] # o
    <2>1. \A i \in 1 .. n : aCopy'[i] # o
      <3> SUFFICES ASSUME NEW i \in 1 .. n, aCopy'[i] = o PROVE FALSE
        BY Zenon
      <3>1. i + 1 \in 1 .. n + 1 /\ 1 \in 1 .. n + 1 /\ i + 1 # 1
        OBVIOUS
      <3>2. aCopy[i + 1] = aCopy[1]
        BY Zenon, <1>3, <1>5
      <3> QED BY Zenon, <1>6, <3>1, <3>2
    <2> QED BY Zenon, <1>5, <2>1
  <1>12. CASE o \in mObserver
    <2>1. PICK ts \in Nat : ts \notin DOMAIN mExpireMap /\ mExpireMap' = Put(mExpireMap, ts, o)
      BY Zenon, <1>1, <1>3, <1>12, ScheduleKey
    <2>2. ts \in Int /\ ts >= -MaxLate
      BY TimerAssumption
    <2>3. /\ IsEntryMap(mExpireMap') /\ DOMAIN mExpireMap' = DOMAIN mExpireMap \cup {ts}
          /\ mExpireMap'[ts] = o /\ \A j \in DOMAIN mExpireMap : mExpireMap'[j] = mExpireMap[j]
      BY <1>2, <2>1 DEF Put, IsEntryMap
    <2>4. TypeOK'
      BY Zenon, <1>1, <1>2, <1>5, <2>2, <2>3 DEF IInv, TypeOK
    <2>5. NoDangling'
      BY Zenon, <1>1, <1>12, <2>3 DEF IInv, NoDangling
    <2>6. NoneTwice(mExpireMap', aCopy') /\ AllThere(mObserver, mExpireMap', aCopy')
      BY Zenon, <1>2, <1>5, <1>8, <1>9, <1>10, <1>11, <2>1, PutInv
    <2> QED BY Zenon, <1>1, <2>4, <2>5, <2>6 DEF IInv, NoneTwice, AllThere
  <1>13. CASE o \notin mObserver
    <2>1. mExpireMap' = mExpireMap
      BY Zenon, <1>1, <1>3, <1>13
    <2>2. TypeOK' /\ NoDangling'
      BY Zenon, <1>1, <1>2, <1>5, <2>1 DEF IInv, TypeOK, NoDangling
    <2>3. mObserver \ {o} = mObserver
      BY Zenon, <1>13
    <2>4. AllThere(mObserver, mExpireMap, aCopy')
      BY Zenon, <1>9, <2>3
    <2> QED BY <1>1, <1>8, <2>1, <2>2, <2>4 DEF IInv, NoneTwice, AllThere
  <1> QED BY Zenon, <1>12, <1>13

\* A millisecond passes.
LEMMA TickInv ==
    ASSUME IInv, Tick
    PROVE  IInv'
  <1>1. /\ \A k \in DOMAIN mExpireMap : k > -MaxLate
        /\ mExpireMap' = Shift(mExpireMap)
        /\ it' = IF it = None THEN None ELSE it - 1
        /\ mObserver' = mObserver /\ aCopy' = aCopy /\ phase' = phase
    BY Zenon DEF Tick
  <1>2. IsEntryMap(mExpireMap) /\ DOMAIN mExpireMap \subseteq Int
    BY Zenon DEF IInv, TypeOK, IsEntryMap
  <1>3. /\ IsEntryMap(mExpireMap')
        /\ \A k \in DOMAIN mExpireMap' : /\ k \in Int /\ k + 1 \in DOMAIN mExpireMap
                                        /\ mExpireMap'[k] = mExpireMap[k + 1]
        /\ \A j \in DOMAIN mExpireMap : /\ j - 1 \in DOMAIN mExpireMap'
                                       /\ mExpireMap'[j - 1] = mExpireMap[j]
    BY Zenon, <1>1, <1>2, ShiftMap
  <1>4. \A k \in DOMAIN mExpireMap' : k >= -MaxLate
    <2> SUFFICES ASSUME NEW k \in DOMAIN mExpireMap' PROVE k >= -MaxLate
      BY Zenon
    <2>1. k \in Int /\ k + 1 > -MaxLate
      BY Zenon, <1>1, <1>3
    <2> QED BY TimerAssumption, <2>1
  <1>5. it' \in Int \cup {None} /\ (it' # None <=> it # None)
    <2>1. it \in Int \cup {None}
      BY Zenon DEF IInv, TypeOK
    <2>2. CASE it = None
      BY Zenon, <1>1, <2>2
    <2>3. CASE it \in Int
      <3>1. it # None /\ it - 1 \in Int
        BY TimerAssumption, <2>3
      <3>2. it' = it - 1 /\ it - 1 # None
        BY Zenon, TimerAssumption, <1>1, <3>1
      <3> QED BY Zenon, <3>1, <3>2
    <2> QED BY Zenon, <2>1, <2>2, <2>3
  <1>6. TypeOK'
    BY Zenon, <1>1, <1>3, <1>4, <1>5 DEF IInv, TypeOK
  <1>7. NoDangling'
    <2>1. \A k \in DOMAIN mExpireMap' : mExpireMap'[k] \in mObserver'
      BY Zenon, <1>1, <1>3 DEF IInv, NoDangling
    <2>2. it' # None => it' \in DOMAIN mExpireMap'
      BY Zenon, <1>1, <1>3, <1>5 DEF IInv, NoDangling
    <2> QED BY Zenon, <2>1, <2>2 DEF NoDangling
  <1>8. NoneTwice(mExpireMap', aCopy)
    <2>1. \A j, k \in DOMAIN mExpireMap' : mExpireMap'[j] = mExpireMap'[k] => j = k
      <3> SUFFICES ASSUME NEW j \in DOMAIN mExpireMap', NEW k \in DOMAIN mExpireMap',
                          mExpireMap'[j] = mExpireMap'[k]
                   PROVE  j = k
        BY Zenon
      <3>1. j + 1 = k + 1
        BY <1>3 DEF IInv, NoneTwice
      <3> QED BY <1>3, <3>1
    <2> QED BY <1>3, <2>1 DEF IInv, NoneTwice
  <1>9. AllThere(mObserver, mExpireMap', aCopy)
    BY <1>3 DEF IInv, AllThere
  <1> QED BY <1>1, <1>6, <1>7, <1>8, <1>9 DEF IInv, NoneTwice, AllThere

LEMMA Inductive == Spec => []IInv
  <1>1. IInv /\ [Next]_vars => IInv'
    <2> SUFFICES ASSUME IInv, [Next]_vars PROVE IInv'
      BY Zenon
    <2>1. CASE UNCHANGED vars
      BY <2>1 DEF vars, IInv, TypeOK, NoDangling, NoneTwice, AllThere
    <2> QED BY Zenon, <2>1, RegisterInv, UnregisterInv, PhaseInv, OnFlushReturnInv, RearmInv, TickInv
            DEF Next
  <1> QED BY <1>1, InitInv, PTL DEF Spec

\* Whatever observers register, unregister each other from their callbacks, and
\* collide in their expiry times: each registered one is scheduled exactly once.
THEOREM TimersScheduledOnce == Spec => []ScheduledOnce
  BY Implied, Inductive, PTL

\* ... and onFlush neither finds an observer that has unregistered nor returns
\* from a callback to an entry that is gone.
THEOREM TimersNotDangling == Spec => []NoDangling
  BY Implied, Inductive, PTL
=============================================================================
