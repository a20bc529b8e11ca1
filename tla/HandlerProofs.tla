--------------------------- MODULE HandlerProofs ---------------------------
(***************************************************************************)
(* Proofs about Handler for any tasks, messages, delays and clock: the     *)
(* timer is armed while something waits, OnTimeout's assertion holds, and  *)
(* the lists stay sorted.                                                  *)
(***************************************************************************)
EXTENDS Handler, SequenceTheorems, TLAPS

IInv == TypeOK /\ TimerArmed /\ NextTimeoutSet

SortedList(list) ==
    \A i, j \in 1 .. Len(list) : i < j => list[i].expireMs <= list[j].expireMs

-----------------------------------------------------------------------------
\* What inserting an entry gives, position by position.
LEMMA InsertProps ==
    ASSUME NEW S, NEW list \in Seq(S), NEW e \in S, NEW n \in 0 .. Len(list)
    PROVE  /\ InsertAt(list, e, n) \in Seq(S)
           /\ Len(InsertAt(list, e, n)) = Len(list) + 1
           /\ InsertAt(list, e, n) # <<>>
           /\ \A j \in 1 .. Len(list) + 1 :
                InsertAt(list, e, n)[j] = IF j <= n THEN list[j] ELSE IF j = n + 1 THEN e ELSE list[j - 1]
  <1>0. Len(list) \in Nat /\ n \in Nat
    OBVIOUS
  <1> DEFINE a == SubSeq(list, 1, n)
             b == SubSeq(list, n + 1, Len(list))
  <1>1. a \in Seq(S) /\ Len(a) = n /\ \A j \in 1 .. n : a[j] = list[j]
    OBVIOUS
  <1>2. b \in Seq(S) /\ Len(b) = Len(list) - n /\ \A j \in 1 .. Len(list) - n : b[j] = list[n + j]
    OBVIOUS
  <1>3. InsertAt(list, e, n) = (a \o <<e>>) \o b
    BY Zenon DEF InsertAt
  <1> HIDE DEF a, b
  <1>4. /\ a \o <<e>> \in Seq(S) /\ Len(a \o <<e>>) = n + 1
        /\ \A j \in 1 .. n + 1 : (a \o <<e>>)[j] = IF j <= n THEN list[j] ELSE e
    BY <1>1
  <1> DEFINE c == a \o <<e>>
  <1> HIDE DEF c
  <1>5. c \in Seq(S) /\ Len(c) = n + 1 /\ \A j \in 1 .. n + 1 : c[j] = IF j <= n THEN list[j] ELSE e
    BY Zenon, <1>4 DEF c
  <1>c. c \in Seq(S) /\ b \in Seq(S)
    BY Zenon, <1>2, <1>5
  <1>6. c \o b \in Seq(S) /\ Len(c \o b) = Len(list) + 1
    <2>1. c \o b \in Seq(S) /\ Len(c \o b) = Len(c) + Len(b)
      BY Zenon, <1>c, ConcatProperties
    <2> QED BY <1>0, <1>2, <1>5, <2>1
  <1>7. ASSUME NEW j \in 1 .. Len(list) + 1
        PROVE (c \o b)[j] = IF j <= n THEN list[j] ELSE IF j = n + 1 THEN e ELSE list[j - 1]
    <2>1. CASE j <= n + 1
      BY <1>2, <1>5, <2>1
    <2>2. CASE j > n + 1
      <3>1. (c \o b)[j] = b[j - (n + 1)]
        <4>1. \A i \in 1 .. Len(c) + Len(b) :
                 (c \o b)[i] = IF i <= Len(c) THEN c[i] ELSE b[i - Len(c)]
          BY Zenon, <1>c, ConcatProperties
        <4>2. Len(c) = n + 1 /\ j \in 1 .. Len(c) + Len(b)
          BY <1>0, <1>2, <1>5
        <4>3. (c \o b)[j] = IF j <= n + 1 THEN c[j] ELSE b[j - (n + 1)]
          BY Zenon, <4>1, <4>2
        <4> QED BY <1>0, <2>2, <4>3
      <3>2. j - (n + 1) \in 1 .. Len(list) - n /\ n + (j - (n + 1)) = j - 1
        BY <1>0, <2>2
      <3> QED BY <1>2, <2>2, <3>1, <3>2
    <2>3. j <= n + 1 \/ j > n + 1
      BY <1>0
    <2> QED BY Zenon, <2>1, <2>2, <2>3
  <1> QED BY <1>3, <1>6, <1>7 DEF c

\* What removing an entry gives, position by position.
LEMMA RemoveProps ==
    ASSUME NEW S, NEW list \in Seq(S), NEW n \in 1 .. Len(list)
    PROVE  /\ RemovedAt(list, n) \in Seq(S)
           /\ Len(RemovedAt(list, n)) = Len(list) - 1
           /\ \A j \in 1 .. Len(list) - 1 : RemovedAt(list, n)[j] = IF j < n THEN list[j] ELSE list[j + 1]
  <1>0. Len(list) \in Nat /\ n \in Nat
    OBVIOUS
  <1> DEFINE a == SubSeq(list, 1, n - 1)
             b == SubSeq(list, n + 1, Len(list))
  <1>1. a \in Seq(S) /\ Len(a) = n - 1 /\ \A j \in 1 .. n - 1 : a[j] = list[j]
    OBVIOUS
  <1>2. b \in Seq(S) /\ Len(b) = Len(list) - n /\ \A j \in 1 .. Len(list) - n : b[j] = list[n + j]
    OBVIOUS
  <1>3. RemovedAt(list, n) = a \o b
    BY Zenon DEF RemovedAt
  <1> HIDE DEF a, b
  <1>c. a \in Seq(S) /\ b \in Seq(S)
    BY Zenon, <1>1, <1>2
  <1>4. a \o b \in Seq(S) /\ Len(a \o b) = Len(list) - 1
    <2>1. a \o b \in Seq(S) /\ Len(a \o b) = Len(a) + Len(b)
      BY Zenon, <1>c, ConcatProperties
    <2> QED BY <1>0, <1>1, <1>2, <2>1
  <1>5. ASSUME NEW j \in 1 .. Len(list) - 1
        PROVE  (a \o b)[j] = IF j < n THEN list[j] ELSE list[j + 1]
    <2>1. CASE j < n
      BY <1>1, <1>2, <2>1
    <2>2. CASE j >= n
      <3>1. (a \o b)[j] = b[j - (n - 1)]
        <4>1. \A i \in 1 .. Len(a) + Len(b) :
                 (a \o b)[i] = IF i <= Len(a) THEN a[i] ELSE b[i - Len(a)]
          BY Zenon, <1>c, ConcatProperties
        <4>2. Len(a) = n - 1 /\ j \in 1 .. Len(a) + Len(b)
          BY <1>0, <1>1, <1>2
        <4>3. (a \o b)[j] = IF j <= n - 1 THEN a[j] ELSE b[j - (n - 1)]
          BY Zenon, <4>1, <4>2
        <4> QED BY <1>0, <2>2, <4>3
      <3>2. j - (n - 1) \in 1 .. Len(list) - n /\ n + (j - (n - 1)) = j + 1
        BY <1>0, <2>2
      <3>3. b[j - (n - 1)] = list[j + 1]
        BY Zenon, <1>2, <3>2
      <3> QED BY <1>0, <2>2, <3>1, <3>3
    <2>3. j < n \/ j >= n
      BY <1>0
    <2> QED BY Zenon, <2>1, <2>2, <2>3
  <1> QED BY Zenon, <1>3, <1>4, <1>5
-----------------------------------------------------------------------------
\* The next time is the time of an entry.
LEMMA NextTsType ==
    ASSUME NEW tasks \in Seq(Entry(Tasks)), NEW msgs \in Seq(Entry(Messages)),
           tasks # <<>> \/ msgs # <<>>
    PROVE  NextTs(tasks, msgs) \in Times
  <1>1. tasks # <<>> => tasks[1] \in Entry(Tasks)
    OBVIOUS
  <1>2. msgs # <<>> => msgs[1] \in Entry(Messages)
    OBVIOUS
  <1> QED BY Zenon, <1>1, <1>2 DEF NextTs, Entry

\* After updateNextMsAndTimer a timer runs if anything waits.
LEMMA UpdateInv ==
    ASSUME now \in Times,
           NEW tasks \in Seq(Entry(Tasks)), NEW msgs \in Seq(Entry(Messages)),
           NEW running \in Times \cup {NoTimer},
           updateNextMsAndTimer(tasks, msgs, running)
    PROVE  /\ mTaskList' \in Seq(Entry(Tasks)) /\ mMessageList' \in Seq(Entry(Messages))
           /\ timer' \in Times \cup {NoTimer} /\ mNextTimeoutMs' \in Times \cup {0}
           /\ TimerArmed' /\ NextTimeoutSet'
  <1>1. mTaskList' = tasks /\ mMessageList' = msgs
    BY Zenon DEF updateNextMsAndTimer
  <1>2. CASE tasks = <<>> /\ msgs = <<>>
    BY Zenon, <1>1, <1>2 DEF updateNextMsAndTimer, TimerArmed, NextTimeoutSet, NonEmpty
  <1>3. CASE tasks # <<>> \/ msgs # <<>>
    <2> DEFINE ts == NextTs(tasks, msgs)
    <2>1. ts \in Times
      BY Zenon, <1>3, NextTsType
    <2>2. timer' = setupOneShotTimer(ts, mNextTimeoutMs, running) /\ mNextTimeoutMs' = ts
      BY Zenon, <1>3 DEF updateNextMsAndTimer
    <2> HIDE DEF ts
    <2>3. setupOneShotTimer(ts, mNextTimeoutMs, running) \in Times
      BY Zenon, <2>1 DEF setupOneShotTimer
    <2>4. timer' # NoTimer /\ mNextTimeoutMs' # 0
      BY HandlerAssumption, <2>1, <2>2, <2>3 DEF Times
    <2> QED BY Zenon, <1>1, <2>1, <2>2, <2>3, <2>4 DEF TimerArmed, NextTimeoutSet
  <1> QED BY Zenon, <1>2, <1>3

\* The identities of a list of entries.
LEMMA IdsType ==
    ASSUME NEW X, NEW list \in Seq(Entry(X))
    PROVE  Ids(list) \in Seq(X)
  <1>1. Len(list) \in Nat /\ \A i \in 1 .. Len(list) : list[i] \in Entry(X)
    OBVIOUS
  <1>2. \A i \in 1 .. Len(list) : list[i].id \in X
    BY Zenon, <1>1 DEF Entry
  <1> QED BY <1>1, <1>2 DEF Ids

\* The handler starts empty and without a timer.
LEMMA InitInv == Init => IInv
  BY HandlerAssumption DEF Init, IInv, TypeOK, TimerArmed, NextTimeoutSet, NonEmpty, Times

\* Every post, removal, timeout and callback keeps the invariant.
LEMMA NextInv == IInv /\ [Next]_vars => IInv'
  <1> SUFFICES ASSUME IInv, [Next]_vars PROVE IInv'
    BY Zenon
  <1>0. TypeOK /\ TimerArmed /\ NextTimeoutSet
    BY Zenon DEF IInv
  <1>1. ASSUME NEW t \in Tasks, NEW delay \in 0 .. MaxDelay, doPost(t, delay) PROVE IInv'
    <2> DEFINE e == [id |-> t, expireMs |-> now + delay]
    <2>1. e \in Entry(Tasks)
      BY <1>0, <1>1 DEF doPost, TypeOK, Entry, Times
    <2>2. PICK i \in 0 .. Len(mTaskList) :
            updateNextMsAndTimer(InsertAt(mTaskList, e, i), mMessageList, timer)
      BY Zenon, <1>1 DEF doPost
    <2> HIDE DEF e
    <2>3. InsertAt(mTaskList, e, i) \in Seq(Entry(Tasks))
      BY Zenon, <1>0, <2>1, InsertProps DEF TypeOK
    <2>4. UNCHANGED <<now, batch>>
      BY Zenon, <1>1 DEF doPost
    <2> QED BY Zenon, <1>0, <2>2, <2>3, <2>4, UpdateInv DEF IInv, TypeOK
  <1>2. ASSUME NEW m \in Messages, NEW delay \in 0 .. MaxDelay, SendMessageAtTime(m, delay) PROVE IInv'
    <2> DEFINE e == [id |-> m, expireMs |-> now + delay]
    <2>1. e \in Entry(Messages)
      BY <1>0, <1>2 DEF SendMessageAtTime, TypeOK, Entry, Times
    <2>2. PICK i \in 0 .. Len(mMessageList) :
            updateNextMsAndTimer(mTaskList, InsertAt(mMessageList, e, i), timer)
      BY Zenon, <1>2 DEF SendMessageAtTime
    <2> HIDE DEF e
    <2>3. InsertAt(mMessageList, e, i) \in Seq(Entry(Messages))
      BY Zenon, <1>0, <2>1, InsertProps DEF TypeOK
    <2>4. UNCHANGED <<now, batch>>
      BY Zenon, <1>2 DEF SendMessageAtTime
    <2> QED BY Zenon, <1>0, <2>2, <2>3, <2>4, UpdateInv DEF IInv, TypeOK
  <1>3. ASSUME NEW t \in Tasks, RemoveTask(t) PROVE IInv'
    <2>1. PICK i \in 1 .. Len(mTaskList) : mTaskList' = RemovedAt(mTaskList, i)
      BY Zenon, <1>3 DEF RemoveTask
    <2>2. mTaskList' \in Seq(Entry(Tasks)) /\ mTaskList # <<>>
      BY <1>0, <2>1, RemoveProps DEF TypeOK
    <2> QED BY Zenon, <1>0, <1>3, <2>2 DEF RemoveTask, IInv, TypeOK, TimerArmed, NextTimeoutSet, NonEmpty
  <1>4. ASSUME NEW m \in Messages, RemoveMessage(m) PROVE IInv'
    <2>1. PICK i \in 1 .. Len(mMessageList) : mMessageList' = RemovedAt(mMessageList, i)
      BY Zenon, <1>4 DEF RemoveMessage
    <2>2. mMessageList' \in Seq(Entry(Messages)) /\ mMessageList # <<>>
      BY <1>0, <2>1, RemoveProps DEF TypeOK
    <2> QED BY Zenon, <1>0, <1>4, <2>2 DEF RemoveMessage, IInv, TypeOK, TimerArmed, NextTimeoutSet, NonEmpty
  <1>5. CASE RemoveAll
    BY <1>0, <1>5 DEF RemoveAll, IInv, TypeOK, TimerArmed, NextTimeoutSet, NonEmpty
  <1>6. CASE OnTimeoutEmpty
    BY Zenon, <1>0, <1>6 DEF OnTimeoutEmpty, IInv, TypeOK, TimerArmed, NextTimeoutSet, NonEmpty
  <1>7. CASE OnTimeoutEarly
    <2>1. updateNextMsAndTimer(mTaskList, mMessageList, NoTimer) /\ UNCHANGED <<now, batch>>
      BY Zenon, <1>7 DEF OnTimeoutEarly
    <2> QED BY Zenon, <1>0, <2>1, UpdateInv DEF IInv, TypeOK
  <1>8. CASE OnTimeoutDue
    <2>1. PICK n \in 0 .. Len(mTaskList), p \in 0 .. Len(mMessageList) :
            /\ updateNextMsAndTimer(SubSeq(mTaskList, n + 1, Len(mTaskList)),
                                    SubSeq(mMessageList, p + 1, Len(mMessageList)), NoTimer)
            /\ batch' = Ids(SubSeq(mTaskList, 1, n)) \o Ids(SubSeq(mMessageList, 1, p))
      BY Zenon, <1>8 DEF OnTimeoutDue
    <2>2. /\ SubSeq(mTaskList, n + 1, Len(mTaskList)) \in Seq(Entry(Tasks))
          /\ SubSeq(mMessageList, p + 1, Len(mMessageList)) \in Seq(Entry(Messages))
          /\ SubSeq(mTaskList, 1, n) \in Seq(Entry(Tasks))
          /\ SubSeq(mMessageList, 1, p) \in Seq(Entry(Messages))
      BY <1>0 DEF TypeOK
    <2>3. Ids(SubSeq(mTaskList, 1, n)) \in Seq(Tasks) /\ Ids(SubSeq(mMessageList, 1, p)) \in Seq(Messages)
      BY Zenon, <2>2, IdsType
    <2>4. batch' \in Seq(Tasks \cup Messages)
      <3>1. Ids(SubSeq(mTaskList, 1, n)) \in Seq(Tasks \cup Messages)
        BY Zenon, <2>3, SeqMonotonic
      <3>2. Ids(SubSeq(mMessageList, 1, p)) \in Seq(Tasks \cup Messages)
        BY Zenon, <2>3, SeqMonotonic
      <3> QED BY Zenon, <2>1, <3>1, <3>2, ConcatProperties
    <2>5. now' = now
      BY Zenon, <1>8 DEF OnTimeoutDue
    <2> QED BY Zenon, <1>0, <2>1, <2>2, <2>4, <2>5, UpdateInv DEF IInv, TypeOK
  <1>9. CASE Call
    <2>1. batch' \in Seq(Tasks \cup Messages)
      BY <1>0, <1>9 DEF Call, TypeOK
    <2> QED BY Zenon, <1>0, <1>9, <2>1 DEF Call, IInv, TypeOK, TimerArmed, NextTimeoutSet, NonEmpty
  <1>10. CASE Tick
    BY HandlerAssumption, <1>0, <1>10 DEF Tick, IInv, TypeOK, TimerArmed, NextTimeoutSet, NonEmpty, Times
  <1>11. CASE UNCHANGED vars
    BY Zenon, <1>0, <1>11 DEF vars, IInv, TypeOK, TimerArmed, NextTimeoutSet, NonEmpty
  <1> QED BY Zenon, <1>1, <1>2, <1>3, <1>4, <1>5, <1>6, <1>7, <1>8, <1>9, <1>10, <1>11 DEF Next

-----------------------------------------------------------------------------
\* Inserting at InsertPos keeps a list sorted.
LEMMA SortedInsert ==
    ASSUME NEW X, NEW list \in Seq(Entry(X)), SortedList(list), NEW e \in Entry(X),
           NEW n \in 0 .. Len(list), InsertPos(list, e.expireMs, n)
    PROVE  SortedList(InsertAt(list, e, n))
  <1> DEFINE new == InsertAt(list, e, n)
  <1>1. /\ Len(new) = Len(list) + 1 /\ Len(list) \in Nat /\ n \in Nat
        /\ \A j \in 1 .. Len(list) + 1 :
             new[j] = IF j <= n THEN list[j] ELSE IF j = n + 1 THEN e ELSE list[j - 1]
    BY InsertProps
  <1> HIDE DEF new
  <1>2. e.expireMs \in Int /\ \A j \in 1 .. Len(list) : list[j].expireMs \in Int
    <2>1. \A f \in Entry(X) : f.expireMs \in Int
      BY DEF Entry, Times
    <2>2. \A j \in 1 .. Len(list) : list[j] \in Entry(X)
      OBVIOUS
    <2> QED BY Zenon, <2>1, <2>2
  <1>3. \A j \in 1 .. Len(list) : /\ j <= n => list[j].expireMs <= e.expireMs
                                  /\ j > n => e.expireMs <= list[j].expireMs
    <2> TAKE j \in 1 .. Len(list)
    <2>1. CASE j <= n
      BY <1>1, <2>1 DEF InsertPos
    <2>2. CASE j > n
      <3>0. n + 1 \in 1 .. Len(list) /\ n < Len(list) /\ (n + 1 = j \/ n + 1 < j)
        BY <1>1, <2>2
      <3>1. e.expireMs < list[n + 1].expireMs
        BY Zenon, <1>2, <3>0 DEF InsertPos
      <3>2. list[n + 1].expireMs <= list[j].expireMs
        <4>1. CASE n + 1 = j
          BY <1>2, <3>0, <4>1
        <4>2. CASE n + 1 < j
          BY Zenon, <3>0, <4>2 DEF SortedList
        <4> QED BY Zenon, <3>0, <4>1, <4>2
      <3>3. e.expireMs <= list[j].expireMs
        BY <1>2, <3>0, <3>1, <3>2
      <3> QED BY <1>1, <2>2, <3>3
    <2> QED BY Zenon, <1>1, <2>1, <2>2
  <1>4. ASSUME NEW i \in 1 .. Len(new), NEW j \in 1 .. Len(new), i < j
        PROVE  new[i].expireMs <= new[j].expireMs
    <2>1. CASE j <= n
      <3>1. i \in 1 .. Len(list) /\ j \in 1 .. Len(list) /\ new[i] = list[i] /\ new[j] = list[j]
        BY <1>1, <1>4, <2>1
      <3> QED BY Zenon, <1>4, <3>1 DEF SortedList
    <2>2. CASE j = n + 1
      <3>1. i <= n /\ i \in 1 .. Len(list) /\ new[i] = list[i] /\ new[j] = e
        BY <1>1, <1>4, <2>2
      <3> QED BY Zenon, <1>3, <3>1
    <2>3. CASE j > n + 1
      <3>1. j - 1 \in 1 .. Len(list) /\ j - 1 > n /\ new[j] = list[j - 1]
        BY <1>1, <2>3
      <3>2. CASE i <= n
        <4>1. i \in 1 .. Len(list) /\ i < j - 1 /\ new[i] = list[i]
          BY <1>1, <1>4, <2>3, <3>2
        <4> QED BY Zenon, <3>1, <4>1 DEF SortedList
      <3>3. CASE i = n + 1
        <4>1. new[i] = e
          BY <1>1, <3>3
        <4> QED BY Zenon, <1>3, <3>1, <4>1
      <3>4. CASE i > n + 1
        <4>1. i - 1 \in 1 .. Len(list) /\ i - 1 < j - 1 /\ new[i] = list[i - 1]
          BY <1>1, <1>4, <3>4
        <4> QED BY Zenon, <3>1, <4>1 DEF SortedList
      <3>5. i <= n \/ i = n + 1 \/ i > n + 1
        BY <1>1
      <3> QED BY Zenon, <3>2, <3>3, <3>4, <3>5
    <2>4. j <= n \/ j = n + 1 \/ j > n + 1
      BY <1>1
    <2> QED BY Zenon, <2>1, <2>2, <2>3, <2>4
  <1> QED BY Zenon, <1>4 DEF SortedList, new

\* Removing an entry keeps a list sorted.
LEMMA SortedRemove ==
    ASSUME NEW X, NEW list \in Seq(Entry(X)), SortedList(list), NEW n \in 1 .. Len(list)
    PROVE  SortedList(RemovedAt(list, n))
  <1> DEFINE new == RemovedAt(list, n)
  <1>1. /\ Len(new) = Len(list) - 1 /\ Len(list) \in Nat /\ n \in Nat
        /\ \A j \in 1 .. Len(list) - 1 : new[j] = IF j < n THEN list[j] ELSE list[j + 1]
    BY RemoveProps
  <1> HIDE DEF new
  <1>2. \A j \in 1 .. Len(new) :
          \E m \in 1 .. Len(list) : m = (IF j < n THEN j ELSE j + 1) /\ new[j] = list[m]
    BY <1>1
  <1>3. ASSUME NEW i \in 1 .. Len(new), NEW j \in 1 .. Len(new), i < j
        PROVE  new[i].expireMs <= new[j].expireMs
    <2>1. PICK p \in 1 .. Len(list) : p = (IF i < n THEN i ELSE i + 1) /\ new[i] = list[p]
      BY Zenon, <1>2
    <2>2. PICK q \in 1 .. Len(list) : q = (IF j < n THEN j ELSE j + 1) /\ new[j] = list[q]
      BY Zenon, <1>2
    <2>3. p < q
      BY <1>1, <1>3, <2>1, <2>2
    <2> QED BY Zenon, <2>1, <2>2, <2>3 DEF SortedList
  <1> QED BY Zenon, <1>3 DEF SortedList, new

\* So does taking the first entries out.
LEMMA SortedSuffix ==
    ASSUME NEW X, NEW list \in Seq(Entry(X)), SortedList(list), NEW n \in 0 .. Len(list)
    PROVE  SortedList(SubSeq(list, n + 1, Len(list)))
  <1> DEFINE new == SubSeq(list, n + 1, Len(list))
  <1>1. /\ Len(new) = Len(list) - n /\ Len(list) \in Nat /\ n \in Nat
        /\ \A j \in 1 .. Len(list) - n : new[j] = list[n + j]
    OBVIOUS
  <1> HIDE DEF new
  <1>2. ASSUME NEW i \in 1 .. Len(new), NEW j \in 1 .. Len(new), i < j
        PROVE  new[i].expireMs <= new[j].expireMs
    <2>1. n + i \in 1 .. Len(list) /\ n + j \in 1 .. Len(list) /\ n + i < n + j
      BY <1>1, <1>2
    <2> QED BY Zenon, <1>1, <2>1 DEF SortedList
  <1> QED BY Zenon, <1>2 DEF SortedList, new

\* Sorted, list by list.
LEMMA SortedLists == Sorted <=> SortedList(mTaskList) /\ SortedList(mMessageList)
  BY Zenon DEF Sorted, SortedList

\* Every step keeps both lists sorted.
LEMMA SortedStep == TypeOK /\ Sorted /\ [Next]_vars => Sorted'
  <1> SUFFICES ASSUME TypeOK, Sorted, [Next]_vars
               PROVE  SortedList(mTaskList') /\ SortedList(mMessageList')
    BY Zenon DEF Sorted, SortedList
  <1>0. /\ SortedList(mTaskList) /\ SortedList(mMessageList)
        /\ mTaskList \in Seq(Entry(Tasks)) /\ mMessageList \in Seq(Entry(Messages))
    BY Zenon, SortedLists DEF TypeOK
  <1>s. SortedList(<<>>)
    BY DEF SortedList
  <1>1. ASSUME NEW t \in Tasks, NEW delay \in 0 .. MaxDelay, doPost(t, delay)
        PROVE  SortedList(mTaskList') /\ SortedList(mMessageList')
    <2> DEFINE e == [id |-> t, expireMs |-> now + delay]
    <2>0. now + delay \in Times
      BY <1>1 DEF doPost, TypeOK, Times
    <2>1. e \in Entry(Tasks) /\ e.expireMs = now + delay
      BY Zenon, <2>0 DEF Entry
    <2>2. PICK i \in 0 .. Len(mTaskList) :
            InsertPos(mTaskList, now + delay, i) /\ mTaskList' = InsertAt(mTaskList, e, i)
      BY Zenon, <1>1 DEF doPost, updateNextMsAndTimer
    <2>3. mMessageList' = mMessageList
      BY Zenon, <1>1 DEF doPost, updateNextMsAndTimer
    <2> HIDE DEF e
    <2> QED BY Zenon, <1>0, <2>1, <2>2, <2>3, SortedInsert
  <1>2. ASSUME NEW m \in Messages, NEW delay \in 0 .. MaxDelay, SendMessageAtTime(m, delay)
        PROVE  SortedList(mTaskList') /\ SortedList(mMessageList')
    <2> DEFINE e == [id |-> m, expireMs |-> now + delay]
    <2>0. now + delay \in Times
      BY <1>2 DEF SendMessageAtTime, TypeOK, Times
    <2>1. e \in Entry(Messages) /\ e.expireMs = now + delay
      BY Zenon, <2>0 DEF Entry
    <2>2. PICK i \in 0 .. Len(mMessageList) :
            InsertPos(mMessageList, now + delay, i) /\ mMessageList' = InsertAt(mMessageList, e, i)
      BY Zenon, <1>2 DEF SendMessageAtTime, updateNextMsAndTimer
    <2>3. mTaskList' = mTaskList
      BY Zenon, <1>2 DEF SendMessageAtTime, updateNextMsAndTimer
    <2> HIDE DEF e
    <2> QED BY Zenon, <1>0, <2>1, <2>2, <2>3, SortedInsert
  <1>3. ASSUME NEW t \in Tasks, RemoveTask(t)
        PROVE  SortedList(mTaskList') /\ SortedList(mMessageList')
    BY Zenon, <1>0, <1>3, SortedRemove DEF RemoveTask
  <1>4. ASSUME NEW m \in Messages, RemoveMessage(m)
        PROVE  SortedList(mTaskList') /\ SortedList(mMessageList')
    BY Zenon, <1>0, <1>4, SortedRemove DEF RemoveMessage
  <1>5. CASE RemoveAll
    BY Zenon, <1>5, <1>s DEF RemoveAll
  <1>6. CASE OnTimeoutDue
    <2>1. PICK n \in 0 .. Len(mTaskList), p \in 0 .. Len(mMessageList) :
            /\ mTaskList' = SubSeq(mTaskList, n + 1, Len(mTaskList))
            /\ mMessageList' = SubSeq(mMessageList, p + 1, Len(mMessageList))
      BY Zenon, <1>6 DEF OnTimeoutDue, updateNextMsAndTimer
    <2> QED BY Zenon, <1>0, <2>1, SortedSuffix
  <1>7. CASE UNCHANGED <<mTaskList, mMessageList>>
    BY Zenon, <1>0, <1>7
  <1> QED BY Zenon, <1>1, <1>2, <1>3, <1>4, <1>5, <1>6, <1>7
          DEF Next, vars, OnTimeoutEmpty, OnTimeoutEarly, updateNextMsAndTimer, Call, Tick

\* The strengthened invariant.
LEMMA Invariance == Spec => []IInv
  BY InitInv, NextInv, PTL DEF Spec

\* The lists, the clock and the timer keep their types.
THEOREM TypeCorrect == Spec => []TypeOK
  <1>1. IInv => TypeOK
    BY Zenon DEF IInv
  <1> QED BY Invariance, <1>1, PTL

\* Whatever is posted or removed, before, after or inside a timeout, an entry
\* that waits has a timer: updateNextMsAndTimer and OnTimeout never leave a
\* list non-empty without one.
THEOREM EntryHasTimer == Spec => []TimerArmed
  <1>1. IInv => TimerArmed
    BY Zenon DEF IInv
  <1> QED BY Invariance, <1>1, PTL

\* OnTimeout's assert(mNextTimeoutMs != 0) holds whenever it is reached.
THEOREM AssertHolds == Spec => []NextTimeoutSet
  <1>1. IInv => NextTimeoutSet
    BY Zenon DEF IInv
  <1> QED BY Invariance, <1>1, PTL

\* The fronts updateNextMsAndTimer looks at are the earliest entries.
THEOREM ListsSorted == Spec => []Sorted
  <1>1. Init => Sorted
    BY DEF Init, Sorted
  <1> QED BY TypeCorrect, <1>1, SortedStep, PTL DEF Spec
=============================================================================
