CONSTANTS
  InitGraphs <- MCInitGraphs
  AflIds <- MCAflIds
  MaxBatch = 2
  MaxPosts = 3
  NoFile = NoFile
  MaxRestarts = 1
SPECIFICATION Spec
INVARIANTS
  TypeOK
  StoreConsistent
  EdgesAreContractedPaths
  WeightsArePathLengths
  FuzzerSeesCoverageApplied
  FuzzerSeesLastBatchApplied
\* The loop really stops: it dies with ValueError once every block is
\* covered, and a kill inside line 85 leaves the mailbox empty.
CHECK_DEADLOCK FALSE
