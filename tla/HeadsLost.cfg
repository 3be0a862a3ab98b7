\* A node joins a network that has pruned its anchors, and rebuilds heads.
\* The network may stop for good at the bounds: no deadlock check.
CONSTANTS
  n1 = n1
  n2 = n2
  w1 = w1
  w2 = w2
  None = None
  Node <- MCNode
  rank <- MCrank
  Writer <- MCWriter
  home <- MChome
  finalityDepth = 1
  settleDepth = 1
  Settings <- MCMature
  MaxRestarts = 0
SPECIFICATION Spec
INVARIANTS
  HeadsRebuilt
CHECK_DEADLOCK FALSE
