------------------------------ MODULE Handler ------------------------------
(***************************************************************************)
(* util/Handler.cpp: tasks and messages to be run later on the loop        *)
(* thread, all through one one-shot timer.  INetGroup closes its dead      *)
(* connections with it and RouteService schedules its network checks.      *)
(*                                                                         *)
(* Post and SendMessage come from any callback of the loop thread, those a *)
(* timeout runs included; each is one step.  OnTimeout takes the due       *)
(* entries out in one step and then calls them one by one.                 *)
(***************************************************************************)
EXTENDS Integers, Sequences

CONSTANTS
    Tasks,          \* tasks, told apart by mKey
    Messages,       \* messages, told apart by what, arg1, msg and obj
    INTERVAL,       \* 10 ms in the code
    MaxDelay,       \* longest delay asked for
    MaxNow,         \* where the clock stops
    MaxSkew,        \* how far the loop's clock may be behind gettimeofday
    NoTimer         \* mOneShotTimer is null

Times == 1 .. MaxNow

ASSUME HandlerAssumption ==
    /\ INTERVAL \in Nat \ {0}
    /\ MaxDelay \in Nat
    /\ MaxNow \in Nat \ {0}
    /\ MaxSkew \in Nat
    /\ NoTimer \notin Times

VARIABLES
    now,            \* now_ms()
    mTaskList,      \* tasks by expireMs
    mMessageList,   \* messages by expireMs
    mNextTimeoutMs, \* 0 when both lists were found empty
    timer,          \* when mOneShotTimer expires
    batch           \* entries OnTimeout has still to call

vars == <<now, mTaskList, mMessageList, mNextTimeoutMs, timer, batch>>

Entry(Ids) == [id : Ids, expireMs : Times]

TypeOK ==
    /\ now \in Times
    /\ mTaskList \in Seq(Entry(Tasks))
    /\ mMessageList \in Seq(Entry(Messages))
    /\ mNextTimeoutMs \in Times \cup {0}
    /\ timer \in Times \cup {NoTimer}
    /\ batch \in Seq(Tasks \cup Messages)

Init ==
    /\ now = 1
    /\ mTaskList = <<>>
    /\ mMessageList = <<>>
    /\ mNextTimeoutMs = 0
    /\ timer = NoTimer
    /\ batch = <<>>

-----------------------------------------------------------------------------
\* The earliest of the two fronts.
NextTs(tasks, msgs) ==
    IF tasks = <<>> THEN msgs[1].expireMs
    ELSE IF msgs = <<>> THEN tasks[1].expireMs
    ELSE IF tasks[1].expireMs < msgs[1].expireMs THEN tasks[1].expireMs
    ELSE msgs[1].expireMs

(***************************************************************************)
(* setupOneShotTimer: a timer that is running stays unless ts is earlier   *)
(* than the last requested time by more than INTERVAL.  A time in the past *)
(* is now.                                                                 *)
(***************************************************************************)
setupOneShotTimer(ts, prev, running) ==
    IF running # NoTimer /\ ~(ts + INTERVAL < prev) THEN running
    ELSE IF ts < now THEN now ELSE ts

updateNextMsAndTimer_ResetLate(tasks, msgs, running) ==
    /\ mTaskList' = tasks
    /\ mMessageList' = msgs
    /\ mNextTimeoutMs' = 0
    /\ timer' = IF tasks = <<>> /\ msgs = <<>> THEN NoTimer
                ELSE setupOneShotTimer(NextTs(tasks, msgs), mNextTimeoutMs, running)

\* The lists have become tasks and msgs, and the timer that runs is running.
updateNextMsAndTimer(tasks, msgs, running) ==
    /\ mTaskList' = tasks
    /\ mMessageList' = msgs
    /\ IF tasks = <<>> /\ msgs = <<>>
       THEN mNextTimeoutMs' = 0 /\ timer' = NoTimer
       ELSE LET ts == NextTs(tasks, msgs)
            IN  /\ timer' = setupOneShotTimer(ts, mNextTimeoutMs, running)
                /\ mNextTimeoutMs' = ts

Has(list, id) == \E i \in 1 .. Len(list) : list[i].id = id

\* list with e inserted after the i entries that are not later than it.
InsertAt(list, e, i) == SubSeq(list, 1, i) \o <<e>> \o SubSeq(list, i + 1, Len(list))

\* The loop of doPost and of SendMessageAtTime stops at the first later entry.
InsertPos(list, ts, i) ==
    /\ \A j \in 1 .. i : list[j].expireMs <= ts
    /\ i < Len(list) => list[i + 1].expireMs > ts

doPost(t, delay) ==
    /\ now + delay <= MaxNow
    /\ ~Has(mTaskList, t)
    /\ \E i \in 0 .. Len(mTaskList) :
         /\ InsertPos(mTaskList, now + delay, i)
         /\ updateNextMsAndTimer(InsertAt(mTaskList, [id |-> t, expireMs |-> now + delay], i),
                                 mMessageList, timer)
    /\ UNCHANGED <<now, batch>>

SendMessageAtTime(m, delay) ==
    /\ now + delay <= MaxNow
    /\ ~Has(mMessageList, m)
    /\ \E i \in 0 .. Len(mMessageList) :
         /\ InsertPos(mMessageList, now + delay, i)
         /\ updateNextMsAndTimer(mTaskList,
                                 InsertAt(mMessageList, [id |-> m, expireMs |-> now + delay], i), timer)
    /\ UNCHANGED <<now, batch>>

RemovedAt(list, i) == SubSeq(list, 1, i - 1) \o SubSeq(list, i + 1, Len(list))

\* The timer and mNextTimeoutMs stay as they are.
RemoveTask(t) ==
    /\ \E i \in 1 .. Len(mTaskList) :
         mTaskList[i].id = t /\ mTaskList' = RemovedAt(mTaskList, i)
    /\ UNCHANGED <<now, mMessageList, mNextTimeoutMs, timer, batch>>

RemoveMessage(m) ==
    /\ \E i \in 1 .. Len(mMessageList) :
         mMessageList[i].id = m /\ mMessageList' = RemovedAt(mMessageList, i)
    /\ UNCHANGED <<now, mTaskList, mNextTimeoutMs, timer, batch>>

\* mNextTimeoutMs keeps its old value.
RemoveAll ==
    /\ mTaskList' = <<>>
    /\ mMessageList' = <<>>
    /\ timer' = NoTimer
    /\ UNCHANGED <<now, mNextTimeoutMs, batch>>

-----------------------------------------------------------------------------
IsDue(e) == e.expireMs - now < INTERVAL

Ids(list) == [i \in 1 .. Len(list) |-> list[i].id]

\* The timer fires, by the loop's clock.
Fires == batch = <<>> /\ timer # NoTimer /\ timer <= now + MaxSkew

\* Nothing to do: everything was removed since.
OnTimeoutEmpty ==
    /\ Fires
    /\ mTaskList = <<>> /\ mMessageList = <<>>
    /\ timer' = NoTimer
    /\ UNCHANGED <<now, mTaskList, mMessageList, mNextTimeoutMs, batch>>

OnTimeoutEarly_NoRearm ==
    /\ Fires
    /\ mTaskList # <<>> \/ mMessageList # <<>>
    /\ mNextTimeoutMs > now + INTERVAL
    /\ timer' = NoTimer
    /\ UNCHANGED <<now, mTaskList, mMessageList, mNextTimeoutMs, batch>>

\* Too early: a new timer.
OnTimeoutEarly ==
    /\ Fires
    /\ mTaskList # <<>> \/ mMessageList # <<>>
    /\ mNextTimeoutMs > now + INTERVAL
    /\ updateNextMsAndTimer(mTaskList, mMessageList, NoTimer)
    /\ UNCHANGED <<now, batch>>

\* The first n entries of list are the ones that are due: the loops erase every
\* due entry, and the lists are sorted.
DuePrefix(list, n) == \A i \in 1 .. Len(list) : IsDue(list[i]) <=> i <= n

\* The due entries are taken out, the tasks to be called before the messages,
\* and a timer is set for the rest.
OnTimeoutDue ==
    /\ Fires
    /\ mTaskList # <<>> \/ mMessageList # <<>>
    /\ mNextTimeoutMs <= now + INTERVAL
    /\ \E n \in 0 .. Len(mTaskList), p \in 0 .. Len(mMessageList) :
         /\ DuePrefix(mTaskList, n) /\ DuePrefix(mMessageList, p)
         /\ updateNextMsAndTimer(SubSeq(mTaskList, n + 1, Len(mTaskList)),
                                 SubSeq(mMessageList, p + 1, Len(mMessageList)), NoTimer)
         /\ batch' = Ids(SubSeq(mTaskList, 1, n)) \o Ids(SubSeq(mMessageList, 1, p))
    /\ UNCHANGED now

\* mTask() or mCallback(message); what it posts are steps of their own.
Call ==
    /\ batch # <<>>
    /\ batch' = Tail(batch)
    /\ UNCHANGED <<now, mTaskList, mMessageList, mNextTimeoutMs, timer>>

Tick ==
    /\ now < MaxNow
    /\ now' = now + 1
    /\ UNCHANGED <<mTaskList, mMessageList, mNextTimeoutMs, timer, batch>>

Next ==
    \/ \E t \in Tasks, delay \in 0 .. MaxDelay : doPost(t, delay)
    \/ \E m \in Messages, delay \in 0 .. MaxDelay : SendMessageAtTime(m, delay)
    \/ \E t \in Tasks : RemoveTask(t)
    \/ \E m \in Messages : RemoveMessage(m)
    \/ RemoveAll
    \/ OnTimeoutEmpty \/ OnTimeoutEarly \/ OnTimeoutDue
    \/ Call \/ Tick

Spec == Init /\ [][Next]_vars

\* The loop runs its timers and the callbacks return.
Fairness ==
    /\ WF_vars(Tick) /\ WF_vars(Call)
    /\ WF_vars(OnTimeoutEmpty \/ OnTimeoutEarly \/ OnTimeoutDue)

FairSpec == Spec /\ Fairness

-----------------------------------------------------------------------------
NonEmpty == mTaskList # <<>> \/ mMessageList # <<>>

\* Whatever was posted and removed, from wherever: an entry that waits has a
\* timer that will come for it.
TimerArmed == NonEmpty => timer # NoTimer

\* OnTimeout's assertion (util/Handler.cpp:53), for every state the timer may
\* find.
NextTimeoutSet == NonEmpty => mNextTimeoutMs # 0

\* The front of each list is its earliest entry: updateNextMsAndTimer looks at
\* the fronts only.
Sorted ==
    \A list \in {mTaskList, mMessageList} :
        \A i, j \in 1 .. Len(list) : i < j => list[i].expireMs <= list[j].expireMs

\* A message that was sent is handed to the callback or removed.
Delivered ==
    \A m \in Messages : Has(mMessageList, m) ~> ~Has(mMessageList, m)

=============================================================================
