CONSTANTS
  Limit = 5
  StampSize = 2
  MaxPiece = 3
  MaxInput = 2
  MaxWatched = 2
  Chunk = 2
  FlushAfter = 1
SPECIFICATION Spec
CHECK_DEADLOCK FALSE
INVARIANTS
  EndMeansAll
