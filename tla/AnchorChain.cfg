\* Two nodes with a common start, forks, ties, pruning, a restart and a bootstrap.
\* The network may stop for good at the bound on heights: no deadlock check.
CONSTANTS
  n1 = n1
  n2 = n2
  None = None
  Node = {n1, n2}
  History <- MCOnePair
  effort <- MCeffort
  schedule <- MCSchedule
  Ranks <- MCOneRank
  lockDepth = 1
  settleDepth = 2
  FORK_WINDOW = 2
  KeepMargin = 1
  CHECKPOINT_EVERY = 1
  AdoptQuorum = 1
  OlderToo = TRUE
  Limits <- MCLimits
SPECIFICATION Spec
INVARIANTS
  TypeOK
  Nested
  PruneInvisible
  AlikeYield
PROPERTIES
  SettledStays
CHECK_DEADLOCK FALSE
