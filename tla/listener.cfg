SPECIFICATION FairSpec
CONSTANTS
  NumLogs = 4
  Block <- Blocks
  Writes <- Updates
  Ignored = {3}
  DeployBlock = 0
  BatchBlocks = 2
  LastBlock = 4
CHECK_DEADLOCK FALSE
INVARIANTS TypeOK GapsOnlyInTornBlocks MarkedMeansApplied
PROPERTIES DeliversInOrder PointerCatchesUp
