CONSTANTS
  a = a
  b = b
  g = g
  t1 = t1
  t2 = t2
  t3 = t3
  Name <- MCName
  Group <- MCGroup
  NoGroup = NoGroup
  NoJob = NoJob
  Configs <- Burst
  Thread <- MCThread
  MaxChainDepth = 1
  Outcome <- Success
  MaxRequests = 3
  Window = 2
  WindowMax = 0
  MaxTime = 6
SPECIFICATION TimedSpec
CHECK_DEADLOCK FALSE
PROPERTIES
  QuietFirst
