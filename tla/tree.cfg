CONSTANTS
  Nodes <- MCNodes
  Root = Root
  Parent <- MCParent
  Kind <- MCKind
  Blocks <- MCBlocks
  Stale = {}
  MaxFaults = 3
SPECIFICATION Spec
INVARIANTS NothingLost FailsOnlyByFault DoneMeansMoved CleanFailure
CHECK_DEADLOCK FALSE
