\* Fair timer and clock; the observers may come and go.
CONSTANTS
    o1 = o1
    o2 = o2
    o3 = o3
    o4 = o4
    Observers = {o1, o2, o3, o4}
    IntervalMs <- MCIntervals
    MaxLate = 2
    None = None

SPECIFICATION FairSpec
INVARIANTS ScheduledOnce NoDangling
PROPERTY FlushedForever
