CONSTANTS
  Types <- MCOneType
  Names <- MCOneName
  Versions = {1, 2}
  MayRevert = TRUE
  MaxUpdates = 2
  MaxNacks = 0
  MaxBreaks = 0
  Cap = 2
SPECIFICATION FairSpec
PROPERTY Converges
CHECK_DEADLOCK FALSE
