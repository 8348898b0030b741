CONSTANTS
  Types <- MCOneType
  Names <- MCNames
  Versions = {1, 2, 3}
  MayRevert = FALSE
  MaxUpdates = 2
  MaxNacks = 1
  MaxBreaks = 1
  Cap = 1
SPECIFICATION FairSpec
INVARIANTS TypeOK NothingForgotten BeliefTrue
PROPERTY Converges
CHECK_DEADLOCK FALSE
