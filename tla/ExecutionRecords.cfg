CONSTANTS
  MaxRuns = 3
  KeepRuns = 1
  Settings <- MCSettings
SPECIFICATION FairSpec
CHECK_DEADLOCK FALSE
INVARIANTS
  TypeOK
  RunningIsInFlight
  CancelHitsItsRun
  CommandCancelable
  RecordsBounded
  StatusHonest
PROPERTIES
  FinalStays
  NewestKept
  TimeoutEnds
