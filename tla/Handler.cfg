SPECIFICATION FairSpec
CONSTANTS
  t1 = t1
  m1 = m1
  m2 = m2
  NoTimer = NoTimer
  Tasks <- MCTasks
  Messages <- MCMessages
  INTERVAL = 2
  MaxDelay = 3
  MaxNow = 5
  MaxSkew = 1
INVARIANTS NextTimeoutSet
PROPERTY Delivered
CHECK_DEADLOCK FALSE
