CONSTANTS
  a = a
  b = b
  g = g
  t1 = t1
  t2 = t2
  t3 = t3
  Name <- MCName
  Group <- MCGroup
  NoGroup = NoGroup
  NoJob = NoJob
  Configs <- Burst
  Thread <- MCThread
  MaxChainDepth = 1
  Outcome <- NoErrors
  MaxRequests = 3
  Window = 2
  WindowMax = 3
  MaxTime = 5
SPECIFICATION TimedSpec
CHECK_DEADLOCK FALSE
INVARIANTS
  TimedTypeOK
  NoticedInTime
