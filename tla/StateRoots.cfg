\* Two nodes that post, produce, fork, checkpoint, prune, start again and join.
\* The network may stop for good at the bounds: no deadlock check.
CONSTANTS
  n1 = n1
  n2 = n2
  w1 = w1
  w2 = w2
  None = None
  Node <- MCNode
  rank <- MCrank
  Writer <- MCWriter
  home <- MChome
  finalityDepth = 1
  settleDepth = 1
  Settings <- MCSettings
  MaxRestarts = 1
SPECIFICATION FairSpec
INVARIANTS
  TypeOK
  HeadsRebuilt
  BoardsAgree
  CheckpointsCommitted
  RightIsAccepted
PROPERTIES
  Buried
CHECK_DEADLOCK FALSE
