CONSTANTS
  a = a
  b = b
  g = g
  t1 = t1
  t2 = t2
  t3 = t3
  Name <- MCName
  Group <- MCGroup
  NoGroup = NoGroup
  NoJob = NoJob
  Configs <- Reconfigured
  Thread <- MCThread
  MaxChainDepth = 1
  Outcome <- NoErrors
  MaxRequests = 2
SPECIFICATION FairSpec
INVARIANTS
  TypeOK
  Exclusive
  LocksHeld
PROPERTIES
  Serialized
  DrainHolds
  ChainsEnd
  NothingCountedTwice
