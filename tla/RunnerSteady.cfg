CONSTANTS
  a = a
  b = b
  g = g
  t1 = t1
  t2 = t2
  t3 = t3
  Name <- MCName
  Group <- MCGroup
  NoGroup = NoGroup
  NoJob = NoJob
  Configs <- Grouped
  Thread <- MCThread
  MaxChainDepth = 1
  Outcome <- Success
  MaxRequests = 3
SPECIFICATION SteadySpec
CHECK_DEADLOCK FALSE
PROPERTIES
  OwedUntilStarted
  FollowUpRun
