CONSTANTS
  Nodes <- MCNodes
  Root = Root
  Parent <- MCParent
  Kind <- MCKind
  Blocks <- MCBlocks
  Stale = {"long"}
  MaxFaults = 0
SPECIFICATION Spec
INVARIANTS DoneMeansMoved
CHECK_DEADLOCK FALSE
