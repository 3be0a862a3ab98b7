\* Nodes that hold the same anchors, with the default depths.
\* The network may stop for good at the bound on heights: no deadlock check.
CONSTANTS
  n1 = n1
  n2 = n2
  None = None
  Node = {n1, n2}
  History <- MCNoHistory
  effort <- MCeffort
  schedule <- MCNoSchedule
  Ranks <- MCRanks
  lockDepth = 2
  settleDepth = 6
  FORK_WINDOW = 4
  KeepMargin = 9
  CHECKPOINT_EVERY = 1
  AdoptQuorum = 1
  OlderToo = FALSE
  Limits <- MCLow
SPECIFICATION Spec
INVARIANTS
  SameAnchorsSameTip
CHECK_DEADLOCK FALSE
