CONSTANTS
  Limit = 7
  StampSize = 2
  MaxPiece = 3
  MaxInput = 5
  MaxWatched = 3
  Chunk = 2
  FlushAfter = 1
SPECIFICATION FairSpec
CHECK_DEADLOCK FALSE
INVARIANTS
  LogOfOutput
  TypeOK
  NothingRepeated
  StreamComplete
PROPERTIES
  LinesArrive
  StreamEnds
