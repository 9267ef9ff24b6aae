CONSTANTS
  Name <- MCName
  Files <- MCFiles
  Browsed <- MCBrowsed
  Queries <- MCQueries
  Ending <- MCEnding
  MaxChainDepth = 3
  RunsPerPage = 2
  MaxRuns = 4
  MaxDur = 1
SPECIFICATION Spec
CHECK_DEADLOCK FALSE
INVARIANTS
  Verdict
  Dependable
  EdgesHaveEnds
  ChainsShown
  BoxesApart
  PageTypeOK
  InOrder
  WalkSeesAll
PROPERTIES
  DiagramEnds
