CONSTANTS
  n1 = n1
  n2 = n2
  n3 = n3
  Node = {n1, n2, n3}
  Archiver = {n2, n3}
  Settings <- MCForkOnly
SPECIFICATION Spec
INVARIANT ForkExposed
CHECK_DEADLOCK FALSE
