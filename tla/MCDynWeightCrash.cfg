CONSTANTS
  InitGraphs <- MCInitGraphs3
  AflIds <- MCAflIds3
  MaxBatch = 2
  MaxPosts = 2
  NoFile = NoFile
  MaxRestarts = 0
SPECIFICATION Spec
PROPERTY EveryPostAnswered
CHECK_DEADLOCK FALSE
