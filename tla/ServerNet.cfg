SPECIFICATION FairSpec
CONSTANTS
  k1 = k1
  k2 = k2
  NoInfo = NoInfo
  NoWait = NoWait
  NoTcp = NoTcp
  Keys <- MCKeys
  MaxIsn = 2
  MaxCap = 1
  MaxSync = 1
  ResetKeys <- MCResetKeys
INVARIANTS NoLostWakeup HandlesOwned
PROPERTIES HandleSettled LoopReturns
CHECK_DEADLOCK FALSE
